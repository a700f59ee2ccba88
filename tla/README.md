# A TLA+ model of alpha-miner

alpha-miner is a multi-threaded CPU miner for the Alpha chain (RandomX proof of
work), a descendant of cpuminer. This directory holds TLA+ modules that model
its threads, its two mining protocols and the algorithms that turn a template
into work, the TLC configurations that check them on small instances, and
theorems about them whose proofs TLAPS checks for every value
of the constants. `PROJECT.json` maps each definition to the lines it models.

## The system

| part | code | state | operations | talks to |
|---|---|---|---|---|
| thread queues | `util.c` 55-67, 1549-1660 | list, `frozen`, mutex, condition variable | `tq_push`, `tq_pop`, `tq_freeze` | every thread owns one |
| barrier | `pthread_barrier.c` (systems without one) | `count`, `phase` | `pthread_barrier_wait` | miner threads |
| miner threads | `cpu-miner.c` `miner_thread` | own copy of the work, nonce, VM | fetch or reuse `g_work`, scan, submit | workio by queue; the others by `g_work`, the dataset |
| workio thread | `workio_thread` and what it calls | current command, failures | fetch work, submit solutions, retry | miners by queue, node by HTTP |
| long-polling thread | `longpoll_thread` | URI, `lp_id`, `have_longpoll` | poll, replace `g_work`, restart the miners | node, miners |
| RandomX dataset | `cpu-miner.c` 1345-1362, 1473-1588, 1640-1661 | `rx_dataset`, `rx_current_key`, flags, one VM per thread | rebuild on a change of key | miner threads, by barrier and lock |
| nonce scan | `randomx-miner.c`, `fulltest` | nonce, batch pipeline of the VM | `scanhash_randomx(_batch)` | interrupted by `work_restart` |
| Stratum client | `util.c` 893-1547, `stratum_thread`, `stratum_gen_work` | socket, session, job, difficulty | connect, subscribe, authorize, notify, submit | pool, miners |
| template decoding | `gbt_work_decode` | `g_work` contents | coinbase, merkle tree, header | workio, long-polling thread |
| payout addresses | `load_addresses_from_file`, `select_random_address`, `address_to_script` | `coinbase_addresses`, `pk_script` | load, choose after each accepted block | template decoding |
| configuration, start-up | `parse_arg`, `parse_config`, `main` | the settings, `thr_info[]` | parse, load, create the threads | every thread |
| logging, SHA-256 kernels, jansson, docker scripts | `applog`, `sha2*`, `compat/`, `docker/` | | | |

What is hard in it: `g_work` is shared by miners, workio (which reads it
without the lock) and the long-polling thread; a miner holds `g_work_lock`
while it waits for workio; restart flags and the dataset flag are set and
cleared outside any lock; calls fail and are retried on data that has been
changed in place; the node's pushes race with fetched work; a change of epoch
meets threads that hold work of both epochs. Over stratum, requests and answers
are paired by position only, although workio may send a share at any moment;
connections break in mid-line; a session may or may not survive a reconnection,
with or without the job. The payout script is rewritten while another thread
copies it. What makes the parts correct:

* queues: order, exactly-once delivery, no lost wake-up, NULL only to terminate;
* barrier: nobody passes early, everybody released gets out;
* work distribution: one request at a time, no use of freed work, no block
  missed, work never goes back, every miner keeps up with the chain;
* dataset: no VM on a released or incomplete dataset, one build per epoch, the
  right key, nobody stuck;
* scan: submissions are sound, nothing at or below the target is missed, no
  nonce is hashed twice;
* stratum: no unit of work twice, answers taken by the one who asked, `g_work`
  and its target those of the pool's job, every fault made up for;
* templates and addresses: the block hashed is the block of the template, its
  coinbase is one a node accepts and pays an address of the file;
* start-up: whatever the order of the options, the miners get work from where
  the user asked.

The full list of hazards is in `PROJECT.json`.

## Modules

**ThreadQueue** models the queue. Each critical section is one step; `tq_pop`
is cut where `pthread_cond_wait` gives up the mutex (`tq_pop_wait`,
`tq_pop_resume`). The wait may return without a signal (`SpuriousWakeup`): the
code does not wait in a loop, so it then returns NULL. `accepted`, `delivered`
and `excused` are history.

**AbstractBarrier** says what a barrier promises; **PthreadBarrier** models
`pthread_barrier.c` with its wrapping `phase` and refines it
(`IsABarrier`, refinement mapping `state`).

**SoloMining** composes miners, workio, the long-polling thread and the node
for mining over HTTP. Work is the block it builds on (`prev`), a variant of
the remaining compared bytes (`var`), and whether it came from
getblocktemplate (`gbt`). `pc`, `wpc` and `lpc` say where each thread is; the
steps are the stretches between accesses to state another thread may change.
`gfreed` records that the pointers in `g_work` are freed; `wcur.swapped` that
`submit_upstream_work` has put the words of the solution in wire order; `told`
(history) that a restart was announced between a miner's unlock and its scan.
`NodeTemplate`, `NodePush`, `NodeSubmit`, `NodeBlock` and `Tick` are the
environment. Failing calls are actions of their own and always possible.

**RandomXDataset** models the rebuild of the dataset. It takes the barrier from
AbstractBarrier, which PthreadBarrier is shown to implement. A VM is `none`,
`live` or `dangling`. In benchmark mode (`opt_benchmark`, chosen in `Init`)
each thread scans once and goes through the clean-up.

**ScanHash** models how the threads divide the nonces, how a scan is
interrupted and resumed, both scan functions (in batch mode with the hash the
VM returns one round late), the comparison with the target and the byte order
of the nonce. A nonce may have any commitment. Words are short: two "bytes" of
`Digit` values make a nonce, `Words` words of `Base` values a 256-bit number.

**Stratum** composes the stratum thread, miners, workio and the pool. `spc` says
where `stratum_thread` is in its loop and in `stratum_subscribe` and
`stratum_authorize`; `link`, `rx`, `cut` are the connection: `rx` holds the lines
on their way (socket and `sockbuf`), `cut` says that a send stopped in mid-line.
The pool acts on a line when it is sent. A unit of work is its job, the block,
extranonce2 and the extranonce1 of its coinbase; a target is the difficulty it
was computed from. `stratum_gen_work` called by a miner is cut in three: job_id
freed (`GenStart`), filled under `work_lock` (`GenFill`), target after the unlock
(`GenTarget`). `crossed`, `lost` and `gasked` are history. The run may begin with or
without a pool URL; without, an `X-Stratum` header (`stratum_header`) starts it.

**Addresses** (pure operators) is `address_to_script` with base58 and bech32 on
sequences of ASCII codes, followed by a reference: encoders written from the
definitions of the formats (long division; remainder in GF(32)).
**BlockTemplate** (pure) is `gbt_work_decode`. Hashes are terms, the bytes of a
member are symbols, so that the words of the header show where each byte went.
The trees are arrays that are overwritten in place, as in the code. It too ends
with a reference: rows joined until one hash is left, serialised header, what a
script interpreter reads. **Startup** is `main`: options in any order, the
configuration file, the address file cut into lines by a bounded `fgets`, the
threads one by one. **Payout** extends the three with workio and the long-polling
thread: `select_random_address` writes `pk_script` in two parts and then its
size, `gbt_work_decode` in the other thread reads the size and then two parts.

The MC modules instantiate them. The `...Proofs` modules hold the theorems;
**Recursion** holds what they need to know about recursive functions: the least
number of a set, induction with a set in place of a predicate, that the
function a recursive definition speaks of exists, and the number that digits spell
in a base (`Number`), with what positional notation rests on: a number has
one spelling of a given length, and n digits spell less than the n-th power.
Definitions introduced by a comment "Mutant:" are wrong on purpose: each is a
plausible bug, used to see that a property notices it, and no specification
uses them.

## Runs

| run | bounds | shows |
|---|---|---|
| queue | 1 popper (as in the program), 2 data, 5 calls, early returns | `FifoOrder`, `NoLostWakeup`, `NullHasReason` |
| barrier | 3 threads, 4 rounds, phase of 2 values (the least that distinguishes phases; it wraps twice) | `NobodyEarly`, `IsABarrier`, `ReleasedLeaves` |
| solo_fallback | 1 miner, 1 new block, getwork allowed, long-poll answers that cannot be decoded, 1 retry | `OneRequest`, `LongpollHandshake`, `LongpollIdKnown` |
| solo_live | 1 miner, 2 new blocks, endless retries, fairness | `NoMissedBlock`, `NoDanglingWork`, `OldScanInterrupted`, `FetchNeverRegresses`, `KeepsUp` |
| solo_retry | 1 miner, 1 new block | violates `StaleDiscardSound` |
| dataset | 2 threads, 3 epochs, and the benchmark; fairness | `NoUseAfterFree`, `ScanHasVm`, `HashesWithOwnKey`, `VmOnCompleteDataset`, `FirstThreadBuilds`, `EventuallyOwnKey`, `BenchmarkEnds` |
| dataset_free | 3 threads, 2 epochs | violates `NoUseAfterFree` |
| scan | 2 threads, 16 nonces, 2 units of work, 2 binary words | `SolutionSound`, `MissedOnlyAtTop`, `NoDoubleHash` |
| scan_missed | 1 thread, a target whose upper word is 0 | violates `NoSolutionMissed` |
| stratum | 1 miner, 2 jobs, 2 extranonce1 values (the second is handed out again), extranonce2 of 2 values, 1 share, 1 retry, 1 fault or unasked line | `UnitsDistinct`, `TargetOfJob`, `HandshakePaired`, `AgreesWhenQuiet`, `CountsShares` |
| stratum_live | the same without shares, fairness | `KeepsUp` |
| payout | pairs of options, 5 address files with 8 kinds of good and 21 of bad lines, about 80 templates, 1 accepted block | `LoadsTheListed`, `PaysListed`, `CoinbaseLegal`, `TreesMatchTemplate`, `WorkMatchesTemplate`, `StartsFed` |

Why the bounds are enough. In SoloMining one miner already meets the
long-polling thread and workio in every order, and two new blocks are enough for
an answer to be late by more than one block; two retries do nothing one does not.
The safety properties of solo_live were also checked with two miners and one
block (1.7 million states) and with two template variants, for a push without a
new block (3.0 million); the theorems cover any number of all of them. The dataset needs two threads for every race but the use after free,
for which three are needed: one that raises the flag again, one that builds a
second time, one that is scanning. With 16 nonces and two threads a byte-swapped
nonce falls into the own share, the other one, and the gaps. In Stratum one fault
already brings a reconnection with a resumed, a new, or a refused session, with
the old job or a new one, at any point of the handshake; `Budget` bounds nothing
but faults and unasked lines. The templates of payout stand at the edges: heights
around the powers of two that change the number of bytes, script signatures
around 76 and 100 bytes, 0 to 7 transactions (every shape of a tree of up to
three levels), each member missing. Words of `b58dec` have 2 bytes instead of 4
(TLC's integers are 32 bits wide) and `sha256d` in the base58 checksum is a
stand-in that tells the payloads apart; both are constants (`WordBytes`,
`sha256d4`), so that the theorems speak of the program's words and hash. All other
constants are the program's.

Deadlock is checked except where the program may stop: no more calls of the
queue or barrier, workio dead after its last retry, no more work to scan, a
command line that is refused.

### Disagreements between code and comments

* **solo_retry**: `submit_upstream_work` swaps the words of the solution in
  place; when the call fails, the retry compares swapped words with `g_work` and
  drops a good solution as stale.
* **dataset_free**: `fCreateDataset` is raised outside the lock. A thread that
  meets the next seed raises it again while a slow thread is on its way to the
  mutex; the slow one builds again and releases the dataset in use. The same
  behaviour leaves the fast thread alone at the barrier until the next epoch,
  and lets threads hash for a while with another thread's key (which is why
  `HashesWithOwnKey` and `FirstThreadBuilds` speak of the time before the first
  change of epoch, and `EventuallyOwnKey` of healing and of some thread, not
  every thread, going on).
* **scan_missed**: the quick test of the scan asks for a most significant word
  strictly below the target's. With a target whose most significant word is
  zero nothing is ever found.

Results without a run of their own; each is an exception written into a
property. A restart announced
between a miner's unlock and its clearing of the flag is lost (`told` in
`OldScanInterrupted`). A coinbase built by the long-polling thread while workio
selects an address may hold parts of two scripts (`torn` in `PaysListed`). The
rest of a comment of more than 255 characters is taken for an address
(`ShortLines`). A share sent during the handshake is answered among the
handshake's lines, and its error is taken for the refusal (`crossed`). A job that
is announced again does not renew `g_work`, which may keep the extranonce1 of the
session before (`again`). A notify between `stratum_gen_work`'s unlock of
`work_lock` and its `diff_to_target` gives a miner's unit of the old job the target
of the new one; `g_work` is renewed at once, but the miner scans the unit to the end
of its scan time unless the new job is `clean` (`RenewalDue` in `TargetOfJob`, which
compares `gdiff` with `gasked`, the difficulty the job asked for when the unit was
drawn; no guard reads `gasked`). `--no-stratum` with a pool's URL leaves the miners
without work (`StartsFed`). `work_decode` sets no seed, so
work from getwork has the all-zero seed that `rx_current_key` starts with, and
is scanned without a VM (`ScanHasVm` with `FirstSeed = 0`). And a return of
`pthread_cond_wait` without a signal makes `tq_pop` return NULL, which workio
takes for the order to terminate (`NullHasReason` without its excuse).

## Fairness

* queue: none is needed. Barrier: a woken thread gets the mutex back; nothing is
  assumed about callers.
* SoloMining: threads run, scans end (they are bounded by `max_nonce`), time
  passes; strong fairness for taking `g_work_lock`, which is free again and
  again; strong fairness for the node's answers and their decoding, because
  calls are retried for ever (`opt_retries < 0`, the default) and a node that
  never answers is not the miner's affair. Nothing is assumed of the
  long-polling thread or of pushes.
* Stratum: threads run, the pool announces its job on a connection it has
  accepted; two minutes pass again and again (strong fairness, since a miner may
  renew the work in between). Faults are not fair and bounded: the property says
  that one is made up for. `opt_retries` is finite in the model, and a process
  that has given up counts as ended.
* RandomXDataset: threads run, `dataset_lock` is eventually obtained.

## Theorems

* **ThreadQueueProofs**: `TypeCorrect`; `FifoCorrect` (inductive as it stands);
  `WakeupCorrect` (also inductive, because it counts the woken poppers: a push
  adds one entry and one woken popper); `NullCorrect`, for one popper, from the
  invariant `WokenForAReason`.
* **PthreadBarrierProofs**: the inductive invariant `IInv` says that a thread is
  held exactly if its local phase is the current one, that `count` is the number
  of held threads, that a released thread is exactly one phase behind, and how
  `entered` and `passed` of any two threads compare in each case. A thread that
  has not left yet keeps `count` below the limit, so `phase` cannot move twice
  under it: two values are enough. From it `TypeCorrect`, `NobodyEarlyCorrect`
  and `Refinement`.
* **SoloMiningProofs**: `TypeCorrect` (with the bounds on `prev` that keep block
  numbers in range and the shape of commands in `CmdInv`); `HandshakeCorrect`;
  `LongpollIdCorrect` (a long-polling thread in getblocktemplate mode has been
  given its URI after an id was kept); `OneRequestCorrect` (the request of a
  waiting miner is in exactly one of three places and every step moves it on;
  that a single miner waits follows from the lock).
  Its second part is about what work is where, under `Plain` (endless retries, no
  getwork, long-poll answers decode: the default against a healthy node).
  `PlainInv` ties the freed pointers to the miner that holds the lock
  (`DanglingCorrect`); `OldInv` says of every scan of old work who tells it to
  stop (`InterruptCorrect`); `OrderInv` orders the block numbers under way: an
  answer workio holds is no older than `g_work`, because the miner that asked
  holds `g_work_lock` until it is stored, and `lpreq <= lp_id <= tip`, with
  `g_work` on `lp_id` or newer while the lock is free. From it `MissedCorrect` and
  the action property `FetchCorrect`. Without `Plain` the statements fail: an
  answer that does not decode leaves freed pointers, and a mining thread that
  gives up leaves `g_work` empty.

* **RandomXDatasetProofs**: `TypeCorrect`, with the agreement of `dataset_lock`
  and the barrier with where the threads are. `ScanHasVmCorrect`: a thread that
  leaves the check without a VM has rebuilt (`HasVmInv`). `EpochInv` describes
  the first epoch, in which either nobody has built the dataset and everybody is
  on the way to it with the flag up (`Unbuilt`), or somebody has and nobody will
  again (`BuiltOnce`); it gives `OwnKeyCorrect`, `FirstBuildsCorrect` and
  `FirstEpochSafe` (no use after free, no VM on an unfinished dataset) for any
  number of threads, and so for every benchmark. Over any number of epochs
  `TwoThreadsSafe` proves the last two for two threads from `TwoInv`: while one
  of them is past the barrier and has not built, the flag the other one raised
  meanwhile has sent that one to the barrier, where it is alone. A third thread
  opens the barrier: the run dataset_free.
* **ScanHashProofs**: `FulltestCorrect` says of the operator `fulltest` that, for
  every hash and target and any size and number of words, it is the comparison
  of the two numbers; it rests on how recursive functions unfold and on the
  least-number principle. `SolutionIsSound` and `MissedAtTopOnly` follow
  from it and from `ScanInv` (in batch mode the hash that is tested belongs to
  the nonce before the one put into the block). `NonceHashedOnce` comes from
  `ShareInv`: of its share a thread has hashed only what lies below its place,
  and shares are disjoint.
* **StratumProofs**: the lines under way are read in the order they were sent, so
  a step is described by which lines it keeps (`From`). `LockInv` says who holds
  `g_work_lock`; `JobInv` that the notifies under way are in the order of the jobs,
  none older than the job at hand, and that the extranonce2 of every unit in
  use has been passed by the job's counter (`UnitsAreDistinct`);
  `TargetInv` follows the difficulty from the job through the gap between drawing a
  unit and computing its target: as long as the job's is not what the unit asked
  for, the stratum thread is on its way to renew `g_work` or the job was announced
  again, and during a handshake nobody is in the gap (`TargetIsOfJob`);
  `HandInv` that between a request and its answer no other line can be taken for
  it, unless a share crossed the handshake (`HandshakeIsPaired`,
  `OnlySharesCount`); `RecvInv` and `QuietInv` that the main loop waits with
  `g_work` made or being made from the job, and the pool's newest job is the
  last notify under way (`QuietAgrees`).

* **PayoutProofs** goes from the command line and the address file to the block.
  - *Start-up.* `OptInv` (a benchmark wants nothing of a server), `ThreadInv`,
    `PushInv` and `FedInv` follow `main` through its options and threads and give
    `StartsFedCorrect`.
  - *Addresses.* `ScriptFits`: whatever the text, `address_to_script` makes
    nothing of it or a script of 4 to 42 bytes. So the lines of any file give
    scripts that fit `pk_script` (`FileInv`), and `PkInv` says what it holds before,
    during and after a selection, `LpInv` what the long-polling thread has read
    of it meanwhile. From these `PaysLoadedCorrect`: a coinbase made without an
    accepted block in between pays one of the addresses loaded; and
    `PaysListedCorrect`: it is one of the file's, given `LoadsTheListed`.
  - *Trees.* `HashTree`: the loop that joins the rows of a buffer in place, and
    doubles an odd last row into the slot behind it, leaves the root in row 0 and
    never leaves the buffer. By induction over the rounds row `i` of the buffer is
    element `i` of the joined row (`Holds`); a round reads row `2i` and `2i + 1`
    before it writes anything at or behind them. It gives
    `TreesMatchCorrect` for the merkle root and for the witness commitment,
    however many transactions there are; `VarintCorrect` does their count.
  - *Words.* `FlattenWords`: words of four bytes put one behind the other have each
    byte where its word and place say (`SameBytes` then compares two such sequences).
    `HeaderWords` follows each member into the words of the header, through the
    reversals of bytes and of words, `TargetBytes` does the same for the target;
    `HeaderAt` is the byte the consensus wants at each place. With the count this is
    `WorkMatchesCorrect`.
  - *Coinbase.* The loop over the bytes of a height ends because the height
    shrinks (`HeightLoop`); `Digits` shows, byte by byte, that it spells every height
    below 2^31 in the fewest bytes, with a sign byte where it is needed, and
    `HeightPush` that an interpreter reads it whatever follows. `XsigTyped` bounds
    what `coinbaseaux` can add, `AppendXsig` goes through the push with one byte,
    two and none. With `MadeInv` (a unit of work is what `gbt_work_decode` makes of a
    template for a script no longer than `pk_script`) this is `CoinbaseCorrect`.
  - *Base58.* `Base58Decodes`: whatever the text and for words of 1, 2 or 4 bytes,
    `b58dec` returns the 25 bytes of the number that the text spells in base 58,
    exactly when its characters are all of the alphabet and the number has no more
    bytes; else nothing. `RoundNumber` is one character: what is left in the words,
    and what ran over times the power of the words, is 58 times the number
    before and the digit; its induction goes over the words. `Overflows` and `FitsBelow`
    say that the two checks of a round (what runs over; a first word of more than
    one byte, where 25 is not a whole number of words) reject exactly the numbers
    from 256^25 on (`Limit`), so a text of leading ones never trips them and no
    carry is lost before a check sees it. `LoopHolds` is the induction over the
    text, `WordSpelled` and `BytesNumber` turn words into bytes, and `LeadingZeros`
    drops those the first word has too many. `Base58Checks`: with a right checksum,
    `b58check` accepts a text that starts with as many ones as the number with
    zeros. Its loop over both ends within the number because of `HashAssumption`:
    a number of zeros only has a wrong checksum (`ChecksumNotZero`).
  - *Bits.* `BitsRegrouped`: `convert_bits` makes the bytes that values of five bits
    spell, however many there are, and rejects exactly what the padding of
    an address must not be. `HoldsBits` is the state between two values: some bytes and
    fewer than eight bits more, which together are the number so far. A value makes
    no byte when there were fewer than three bits (`RegroupFew`) and one byte otherwise
    (`RegroupMany`). The code's word also holds bits that were given out already; it
    masks them wherever it reads it, and the model leaves them out.

They assume the named assumptions of the modules (`QueueAssumption`,
`BarrierAssumption`, `SoloAssumption`, `ScanAssumption`, ...); the bounds on
calls, blocks, epochs, faults, shares and queue length are arbitrary.
`StartupAssumption` says that the buffer of `fgets` holds a character and that
files have distinct names; `TemplateAssumption` that a template is one of a
block that follows another: its height is at least 1 and fits an `int`, so does the number of
its transactions with the coinbase, and a script signature it brings has the 2 to
100 bytes that consensus asks for. `WordBytesAssumption` and `HashAssumption` are
about the word of `b58dec` (1, 2 or 4 bytes) and about `sha256d` (the checksum of 21
zeros, 94a00911, is not zero). Five
theorems have a hypothesis beside. `Plain` is described above. `RealSeeds`
(`FirstSeed > 0`) says that the seed of work differs from the zero that
`rx_current_key` starts with; getwork leaves that zero, and the hazard is listed.
`Gap > 0` of `NonceHashedOnce` is the `0x20` of the code. Two threads are what
`TwoThreadsSafe` is about. `LoadsTheListed` stands before `PaysListed`.

Only model-checked: liveness (`KeepsUp`, `EventuallyOwnKey`, `BenchmarkEnds`,
`ReleasedLeaves`; fairness and ENABLED are out of the prover's reach) and `LoadsTheListed`, which compares what is loaded with encoders
of both formats written as folds and filters of sequences, about which the library
has theorems only by induction over an operator parameter. `Base58Decodes`,
`Base58Checks` and `BitsRegrouped` say what the decoders make of a text without an
encoder; the checksum of bech32 (a polynomial over exclusive or) and the cutting
of lines stay with TLC.

## Not modelled

Allocation failures; the strings behind `lp_id` and `workid` (only which block
an id names is kept); a template that fails half-way and leaves `txs` in the
reply before a fallback; torn reads of the previous hash, whose outcome is that
of reading before or after; `json_rpc_call` beyond its outcome and headers; the
text of an URL; the exit of a mining thread outside a benchmark, which waits at
`dataset_barrier` in the place of one that rebuilds; `getwork`'s decoding; the bytes of a stratum coinbase; blank lines
in the receive buffer; formatting, statistics, signals, `init_randomx_flags`.
Heights are below 2^31 and not negative, and `rx_epoch_duration` is not 0: outside
of this the code loops or divides by zero on a template no node sends. A thread
at the end of its share is assumed to get work with other bytes. SHA-256 and
RandomX themselves are out of reach of model checking; jansson is a third-party
library, the docker scripts only build a command line.

## Plan

1. The checksum of bech32 as a remainder of polynomials; with it and the lemmas of
   Recursion about numbers, `LoadsTheListed` for files of any length.
2. In RandomXDataset, the thread that leaves through the barrier because `get_work`
   failed while the others rebuild.
3. The strings: `lp_id` freed and replaced while it is formatted, `workid`.
