------------------------------ MODULE ScanHash -----------------------------
(***************************************************************************)
(* How the miner threads divide the nonces of one unit of work and what a  *)
(* scan (randomx-miner.c) makes of them.  A thread starts at the beginning *)
(* of its share of the nonces, is interrupted after any nonce, and goes on *)
(* from work.data[19]; the nonce it finds is left in work.data[19], byte-  *)
(* swapped, for submit_upstream_work.                                      *)
(*                                                                         *)
(* An unsigned int has two `bytes' of Digit values each.  A 256-bit number *)
(* has Words words of Base values, the last one the most significant.      *)
(* Hash values are not computed: a nonce may have any commitment.          *)
(***************************************************************************)
EXTENDS Naturals

CONSTANTS
  N,          \* opt_n_threads
  Digit,      \* number of values of a byte
  Gap,        \* the 0x20 nonces left out at the end of each share
  MaxSpan,    \* bound on the number of nonces of one scan (max64)
  MaxWork,    \* bound on the units of work
  Words, Base,
  Target      \* work.target

Numbers == [0 .. Words - 1 -> 0 .. Base - 1]

ASSUME ScanAssumption ==
  /\ {N, Digit, Gap, MaxSpan, MaxWork, Words, Base} \subseteq Nat
  /\ N > 0 /\ Digit > 1 /\ MaxSpan > 0 /\ Words > 0 /\ Base > 1
  /\ (Digit * Digit - 1) \div N > Gap
  /\ Target \in Numbers

Threads == 0 .. N - 1
UINT    == Digit * Digit
Nonces  == 0 .. UINT - 1

(* Reverses the bytes of a word: be32enc on a little-endian machine. *)
swab32(x) == (x % Digit) * Digit + x \div Digit

(* The share of thread t of the nonces. *)
first_nonce(t) == ((UINT - 1) \div N) * t

(* Mutant: the shares overlap by one nonce. *)
end_nonce_far(t) == ((UINT - 1) \div N) * (t + 1) + 1

end_nonce(t)   == ((UINT - 1) \div N) * (t + 1) - Gap

VARIABLES
  want_batchmode, \* which scan is used; never changes
  gwork,      \* which unit of work g_work is
  work,       \* which one each thread has
  data19,     \* work.data[19] of each thread
  pc,         \* "top" of the loop or in the "scan"
  n, max_nonce, \* locals of scanhash
  pipe,       \* the nonce whose hash the VM of t computes next (batch mode)
  solution,   \* history: what the last step has found
  found,      \* history: a nonce of the present work was found
  hashed,     \* history: the nonces of the present work hashed before that
  again,      \* history: some nonce was hashed twice before one was found
  missed      \* history: the commitments the last step has passed over
              \* although they are at or below the target

vars == <<want_batchmode, gwork, work, data19, pc, n, max_nonce, pipe, solution,
          found, hashed, again, missed>>

NoSolution == [hash |-> 0, commitment |-> 0, sent |-> 0,
               value |-> [i \in 0 .. Words - 1 |-> 0]]

Init ==
  /\ want_batchmode \in BOOLEAN
  /\ gwork = 1
  /\ work = [t \in Threads |-> 0] /\ data19 = [t \in Threads |-> 0]
  /\ pc = [t \in Threads |-> "top"]
  /\ n = [t \in Threads |-> 0] /\ max_nonce = [t \in Threads |-> 0]
  /\ pipe = [t \in Threads |-> 0]
  /\ solution = NoSolution
  /\ found = FALSE /\ hashed = {} /\ again = FALSE /\ missed = {}

-----------------------------------------------------------------------------
(* Mutant: the words are compared from the least significant one. *)
fulltest_upwards(h) ==
  LET below[i \in 0 .. Words - 1] ==
        IF h[i] # Target[i] THEN h[i] < Target[i]
        ELSE i = Words - 1 \/ below[i + 1]
  IN  below[0]

(* fulltest: the words are compared from the most significant one down. *)
fulltest(h) ==
  LET below[i \in 0 .. Words - 1] ==
        IF h[i] > Target[i] THEN FALSE
        ELSE IF h[i] < Target[i] THEN TRUE
        ELSE i = 0 \/ below[i - 1]
  IN  below[Words - 1]

(* The cheap test on the most significant word, then the full one. *)
Passes(h) == h[Words - 1] < Target[Words - 1] /\ fulltest(h)

(* g_work is replaced: it is too old, or a thread is through with its      *)
(* share.                                                                  *)
NewWork ==
  /\ gwork < MaxWork
  /\ gwork' = gwork + 1
  /\ found' = FALSE /\ hashed' = {}
  /\ solution' = NoSolution /\ missed' = {}
  /\ UNCHANGED <<work, data19, pc, n, max_nonce, pipe, again>>

(* The thread takes g_work, or goes on with it, one nonce further than the *)
(* scan got; max_nonce is chosen by the hash rate.  The first hash of a    *)
(* batch is started.  A thread that is through with its share first gets   *)
(* new work, whose 76 compared bytes differ: by the pool's next            *)
(* extranonce2, or by the time in the node's next template.                *)
StartScan(t, span) ==
  /\ pc[t] = "top"
  /\ work[t] = gwork => data19[t] < end_nonce(t)
  /\ LET start == IF work[t] # gwork THEN first_nonce(t)
                  ELSE (data19[t] + 1) % UINT
     IN  /\ data19' = [data19 EXCEPT ![t] = start]
         /\ n' = [n EXCEPT ![t] = start]
         /\ pipe' = [pipe EXCEPT ![t] = start]
         /\ max_nonce' = [max_nonce EXCEPT ![t] =
              IF start + span > end_nonce(t) THEN end_nonce(t)
              ELSE start + span]
  /\ work' = [work EXCEPT ![t] = gwork]
  /\ pc' = [pc EXCEPT ![t] = "scan"]
  /\ solution' = NoSolution /\ missed' = {}
  /\ UNCHANGED <<gwork, found, hashed, again>>

(* The number a sequence of words stands for. *)
Value(h) ==
  LET val[i \in 0 .. Words - 1] ==
        h[Words - 1 - i] + (IF i = 0 THEN 0 ELSE Base * val[i - 1])
  IN  val[Words - 1]

(* History of one hash with commitment h for nonce x of t's work. *)
Record(t, x, h) ==
  /\ IF work[t] = gwork
     THEN /\ again' = (again \/ x \in hashed)
          /\ found' = (found \/ Passes(h))
          /\ hashed' = IF found' THEN {} ELSE hashed \cup {x}
     ELSE UNCHANGED <<hashed, again, found>>
  /\ missed' = IF Value(h) <= Value(Target) /\ ~ Passes(h)
               THEN {h} ELSE {}

(* The nonce as the scan stores it in pdata[19]. *)
store_nonce(x) == swab32(x)

(* A nonce is found: the scan returns 1 and the solution is queued;        *)
(* submit_upstream_work will swap the bytes of its words again.            *)
Found(t, hash, commitment, h) ==
  /\ data19' = [data19 EXCEPT ![t] = store_nonce(commitment)]
  /\ solution' = [hash |-> hash, commitment |-> commitment,
                  sent |-> swab32(store_nonce(commitment)), value |-> h]
  /\ pc' = [pc EXCEPT ![t] = "top"]
  /\ UNCHANGED n

(* The scan goes on with nonce x, or is over: restarted, or at max_nonce. *)
Continue(t, x, restart) ==
  /\ n' = [n EXCEPT ![t] = x]
  /\ IF x < max_nonce[t] /\ ~ restart
     THEN UNCHANGED <<data19, pc>>
     ELSE /\ data19' = [data19 EXCEPT ![t] = x]
          /\ pc' = [pc EXCEPT ![t] = "top"]
  /\ solution' = NoSolution

(* One round of scanhash_randomx's do loop. *)
scanhash_randomx(t, h) ==
  /\ ~ want_batchmode
  /\ pc[t] = "scan"
  /\ Record(t, n[t], h)
  /\ IF Passes(h) THEN Found(t, n[t], n[t], h)
     ELSE \E restart \in BOOLEAN : Continue(t, (n[t] + 1) % UINT, restart)
  /\ UNCHANGED <<gwork, work, max_nonce, pipe>>

(* Mutant: the nonce of the next hash is still in the header when the      *)
(* commitment is computed.                                                 *)
commitment_next(t) == (n[t] + 1) % UINT

(* The nonce that is in the header when the commitment is computed. *)
commitment_nonce(t) == n[t]

(* One round of scanhash_randomx_batch's while loop: the VM returns the    *)
(* hash it was given before and starts on the next nonce.                  *)
scanhash_randomx_batch(t, h) ==
  /\ want_batchmode
  /\ pc[t] = "scan"
  /\ n[t] < max_nonce[t]
  /\ Record(t, n[t], h)
  /\ pipe' = [pipe EXCEPT ![t] = (n[t] + 1) % UINT]
  /\ IF Passes(h) THEN Found(t, pipe[t], commitment_nonce(t), h)
     ELSE Continue(t, (n[t] + 1) % UINT, FALSE)
  /\ UNCHANGED <<gwork, work, max_nonce>>

(* The while loop of the batch scan is left. *)
batch_ends(t) ==
  /\ want_batchmode
  /\ pc[t] = "scan"
  /\ \E restart \in BOOLEAN :
       /\ n[t] >= max_nonce[t] \/ restart
       /\ Continue(t, n[t], restart)
  /\ missed' = {}
  /\ UNCHANGED <<gwork, work, max_nonce, pipe, found, hashed, again>>

Thread(t) ==
  \/ \E span \in 1 .. MaxSpan : StartScan(t, span)
  \/ \E h \in Numbers : scanhash_randomx(t, h) \/ scanhash_randomx_batch(t, h)
  \/ batch_ends(t)

Next ==
  /\ NewWork \/ (\E t \in Threads : Thread(t))
  /\ UNCHANGED want_batchmode

Spec == Init /\ [][Next]_vars

(* A solution that is submitted has the hash, the commitment and the nonce *)
(* of one and the same header, and its commitment, read as one number,     *)
(* does not exceed the target.                                             *)
SolutionSound ==
  solution # NoSolution =>
    /\ solution.hash = solution.commitment
    /\ solution.sent = solution.commitment
    /\ Value(solution.value) <= Value(Target)

(* A commitment at or below the target is passed over only if its most     *)
(* significant word equals the target's.                                   *)
MissedOnlyAtTop == \A h \in missed : h[Words - 1] = Target[Words - 1]

(* The threads divide the nonces: until one is found, no nonce of a unit   *)
(* of work is hashed twice, by the same thread or by two, however the      *)
(* scans are interrupted.                                                  *)
NoDoubleHash == ~ again

(* Every commitment at or below the target is found. *)
NoSolutionMissed == missed = {}
=============================================================================
