------------------------------ MODULE Payout -------------------------------
(***************************************************************************)
(* Who is paid: start-up, address file and block templates composed.       *)
(* The work I/O thread decodes templates and, when a block is accepted,    *)
(* selects the next payout address; the long-polling thread decodes        *)
(* templates at the same time, and reads pk_script and pk_script_size      *)
(* without a lock while they are rewritten.                                *)
(***************************************************************************)
EXTENDS Startup, BlockTemplate

CONSTANTS Templates,    \* what a node may answer to a request
          Few,          \* ... once a block is accepted, and to a long poll
          MaxAccepted   \* blocks the node accepts

\* What a node answers is a template of a block that can follow another one:
\* it has a height, a script signature that it brings is a valid one, and an
\* int counts the block's transactions.
ASSUME TemplateAssumption ==
  \A t \in Templates \cup Few :
    /\ Len(t.txs) \in Nat /\ Len(t.aux) \in Nat
    /\ Len(t.txs) < 2147483647
    /\ t.height \in Nat /\ 1 <= t.height /\ t.height <= 2147483647
    /\ t.cbtxn = 0 \/ t.cbtxn \in 2 .. 100

VARIABLES wpc,    \* how far the work I/O thread is with a selection
          next,   \* the script of the address it selects
          lp,     \* the long-polling thread: what it has read of pk_script so far
          accepted, \* accepted_count
          made    \* the unit of work just decoded

vars == <<startVars, wpc, next, lp, accepted, made>>

Head3 == 3              \* the opcodes of a script, written before the hash

None == [by |-> "none"]
Polling == [pc |-> "poll", torn |-> FALSE, len |-> 0, bytes |-> <<>>]

Init == /\ StartInit
        /\ wpc = "idle" /\ next = <<>> /\ lp = Polling /\ accepted = 0 /\ made = None

Running == mpc # "exit" /\ made = None

\* A request of a miner has reached the work I/O thread, which talks HTTP.
Asked == Running /\ wpc = "idle" /\ Miners # {} /\ Solo

\* The script that the coinbase is built with, when it is read at once.
pk_script == SubSeq(pk.bytes, 1, pk.size)

Made(by, t, script, torn) ==
  [by |-> by, tpl |-> t, script |-> script, torn |-> torn,
   work |-> gbt_work_decode(t, script, opt.sig)]

\* A template without a payout address makes the miner fall back to getwork.
no_payout(t) == t.cbtxn = 0 /\ pk.size = 0

Answers == IF accepted = 0 /\ lp = Polling THEN Templates ELSE Few

\* The work I/O thread's decode; no other thread changes pk_script.
get_upstream_work(t) ==
  /\ Asked /\ opt.have_gbt
  /\ made' = Made("workio", t, pk_script, FALSE)
  /\ opt' = [opt EXCEPT !.have_gbt = ~(no_payout(t) /\ opt.allow_getwork),
                        !.have_longpoll = @ \/ (made'.work.rc /\ opt.want_longpoll)]
  /\ pushed' = pushed \cup {q \in {"longpoll"} : opt'.have_longpoll}
  /\ UNCHANGED <<mpc, args, file, addrs, pk, queues, threads, wpc, next, lp, accepted>>

\* An answer with an X-Stratum header: the miner leaves HTTP for a pool.
x_stratum ==
  /\ Asked /\ opt.want_stratum
  /\ opt' = [opt EXCEPT !.have_stratum = TRUE]
  /\ pushed' = pushed \cup {"stratum"}
  /\ UNCHANGED <<mpc, args, file, addrs, pk, queues, threads, wpc, next, lp, accepted, made>>

\* The long-polling thread sees a selection that is under way.
Overlapped == [lp EXCEPT !.torn = lp.pc # "poll"]

\* share_result of an accepted block: a new address, whose script is
\* written opcodes first; the size follows.
share_result ==
  /\ Asked /\ accepted < MaxAccepted
  /\ accepted' = accepted + 1
  /\ \E i \in 1 .. Len(addrs) : next' = addrs[i]
  /\ pk' = [pk EXCEPT !.bytes = overwrite(@, SubSeq(next', 1, Head3), 1)]
  /\ wpc' = "opcodes" /\ lp' = Overlapped
  /\ UNCHANGED <<mpc, args, opt, file, addrs, queues, threads, pushed, made>>

select_hash ==
  /\ Running /\ wpc = "opcodes"
  /\ pk' = [pk EXCEPT !.bytes = overwrite(@, next, Head3 + 1)]
  /\ wpc' = "bytes" /\ lp' = Overlapped
  /\ UNCHANGED <<mpc, args, opt, file, addrs, queues, threads, pushed, next, accepted, made>>

\* Mutant: the size is not taken over.
select_size_not ==
  /\ Running /\ wpc = "bytes"
  /\ wpc' = "idle" /\ next' = <<>> /\ lp' = Overlapped
  /\ UNCHANGED <<mpc, args, opt, file, addrs, pk, queues, threads, pushed, accepted, made>>

select_size ==
  /\ Running /\ wpc = "bytes"
  /\ pk' = [pk EXCEPT !.size = Len(next)]
  /\ wpc' = "idle" /\ next' = <<>> /\ lp' = Overlapped
  /\ UNCHANGED <<mpc, args, opt, file, addrs, queues, threads, pushed, accepted, made>>

\* The long-polling thread's decode of a template without a coinbase: it
\* reads the size for the length byte, then the opcodes, then the rest.
longpoll_decode ==
  /\ Running /\ opt.have_longpoll /\ ~opt.have_stratum /\ "longpoll" \in threads
  /\ lp.pc = "poll" /\ pk.size # 0
  /\ lp' = [pc |-> "length", torn |-> wpc # "idle", len |-> pk.size, bytes |-> <<>>]
  /\ UNCHANGED <<startVars, wpc, next, accepted, made>>

copy_opcodes ==
  /\ Running /\ lp.pc = "length"
  /\ lp' = [lp EXCEPT !.pc = "opcodes", !.bytes = SubSeq(pk.bytes, 1, Head3)]
  /\ UNCHANGED <<startVars, wpc, next, accepted, made>>

copy_rest(t) ==
  /\ Running /\ lp.pc = "opcodes" /\ t.cbtxn = 0
  /\ made' = Made("longpoll", t, lp.bytes \o SubSeq(pk.bytes, Head3 + 1, lp.len), lp.torn)
  /\ lp' = Polling
  /\ UNCHANGED <<startVars, wpc, next, accepted>>

\* The work is in g_work, or thrown away.
handed_over ==
  /\ made # None
  /\ made' = None
  /\ UNCHANGED <<startVars, wpc, next, lp, accepted>>

starting ==
  /\ made = None /\ main
  /\ UNCHANGED <<wpc, next, lp, accepted, made>>

Next ==
  \/ starting
  \/ \E t \in Answers : get_upstream_work(t)
  \/ \E t \in Few : copy_rest(t)
  \/ x_stratum
  \/ share_result \/ select_hash \/ select_size
  \/ longpoll_decode \/ copy_opcodes
  \/ handed_over

Spec == Init /\ [][Next]_vars

----------------------------------------------------------------------------
(* Properties                                                              *)

Decoded == made # None /\ made.work.rc

\* load_addresses_from_file keeps the addresses of the file, all of them, in
\* their order and nothing else, whatever their kind, their case, the
\* spaces, comments and mistyped lines between them: each of them decodes
\* to the script it was made of (as long as no line outgrows the buffer).
LoadsTheListed ==
  \A f \in Disk : f.name = file /\ f.short => addrs = f.scripts

\* The coinbase of a template that leaves it to the miner pays an address of
\* the file, unless the long-polling thread built it while an accepted
\* block made the work I/O thread select another one.
PaysListed ==
  Decoded /\ made.tpl.cbtxn = 0 /\ ~made.torn =>
    \A f \in Disk :
      f.name = file /\ f.short => made.work.cb.script \in ToSet(f.scripts)

\* The coinbase cb of template t: n0 bytes and the rest of its script
\* signature.
Legal(t, cb) ==
  LET n0 == IF t.cbtxn > 0 THEN t.cbtxn
            ELSE FirstPush(cb.ssig)[2] + (IF t.height \in 1 .. 16 THEN 1 ELSE 0)
      rest == SubSeq(cb.ssig, n0 + 1, Len(cb.ssig))
  IN  /\ Len(cb.ssig) \in 2 .. 100
      /\ t.cbtxn = 0 =>
           /\ FirstPush(cb.ssig)[1] = t.height
           /\ t.height > 16 =>
                /\ cb.ssig[n0] < 128
                /\ cb.ssig[n0] > 0 \/ cb.ssig[n0 - 1] > 127
           /\ cb.size <= 256
      /\ t.cbtxn > 0 => cb.size <= given_coinbase(t).size + 100
      /\ rest # <<>> /\ rest[1] < 253 =>
           PushedData(rest).len = Len(PushedData(rest).data)
      /\ rest # <<>> /\ rest[1] >= 253 => Len(cb.ssig) > 98

\* The script signature of a coinbase is one a node accepts, at the edges of
\* the height's encoding and of the room for signature and auxiliary data:
\* the height is its first push, in the fewest bytes; what is appended is
\* one push when there is room for an opcode; it has 2 to 100 bytes, and
\* the whole stays within the buffer it is built in.
CoinbaseLegal == Decoded => Legal(made.tpl, made.work.cb)

\* What is hashed and submitted is the block of the template: the merkle
\* root and the witness commitment, which the code computes in place, are
\* the roots of the trees over its coinbase and its transactions, however
\* many there are.
TreesMatchTemplate ==
  Decoded =>
    LET t == made.tpl
        w == made.work
    IN  /\ w.root = TreeRoot(<<Sha(w.cb)>> \o [i \in 1 .. Len(t.txs) |-> tx_leaf(t, i)])
        /\ t.segwit /\ t.cbtxn = 0 =>
             w.cb.commit = Pair(TreeRoot(<<Zero>> \o [i \in 1 .. Len(t.txs) |-> <<"hash", t.txs[i]>>]),
                                Zero)

\* The count and the order of the transactions agree with it, and the words
\* of header and target hold the bytes where the consensus wants them.
WorkMatchesTemplate ==
  Decoded =>
    LET t == made.tpl
        w == made.work
    IN  /\ VarintValue(w.count) = 1 + Len(t.txs)
        /\ ~t.submitcb => w.txs = t.txs
        /\ FlattenSeq(w.data) = ReferenceHeader
        /\ FlattenSeq(Reverse(w.target)) = Bytes("target", 1, 32)

\* Whatever the order of the options: once miners run, a benchmark talks to
\* nobody, a pool's URL has reached the stratum thread (unless --no-stratum
\* withheld it), and a solo miner has a payout script; and nothing is ever
\* pushed to a queue that main has not made yet.
StartsFed ==
  /\ pushed \subseteq queues
  /\ Miners # {} =>
       \/ opt.benchmark /\ ~opt.have_stratum /\ pushed = {}
       \/ ~opt.benchmark /\ opt.have_stratum /\ (opt.want_stratum => "stratum" \in pushed)
       \/ Solo /\ pk.size > 0 /\ "workio" \in threads
============================================================================
