-------------------------- MODULE RandomXDataset ---------------------------
(***************************************************************************)
(* The life of the RandomX dataset in miner_thread.  The key of the        *)
(* dataset is the seed of the work (it changes with every epoch); each     *)
(* thread has a VM of its own on the shared dataset.  A thread whose work  *)
(* has another seed than rx_current_key raises fCreateDataset and waits at *)
(* dataset_barrier for all the others; behind it, VMs are destroyed and    *)
(* whoever gets dataset_lock while fCreateDataset is raised builds the new *)
(* dataset.  rx_current_key and rx_dataset are also read outside the lock. *)
(*                                                                         *)
(* Seeds are numbers; 0 is the all-zero seed that rx_current_key starts    *)
(* with and that work_decode leaves in work obtained with getwork.         *)
(***************************************************************************)
EXTENDS Naturals

CONSTANTS
  Threads,      \* the miner threads
  FirstSeed,    \* seed of the work at the start
  MaxSeed       \* bound on the seed

ASSUME DatasetAssumption ==
  /\ Threads # {}
  /\ FirstSeed \in Nat /\ MaxSeed \in Nat /\ FirstSeed <= MaxSeed
  /\ "free" \notin Threads

VARIABLES
  opt_benchmark, \* one seed, one scan per thread, then exit; never changes
  gseed,         \* seed of g_work
  key,           \* rx_current_key
  ds,            \* rx_dataset: "none" (NULL), "raw" (allocated) or "ready"
  fCreateDataset,
  fCleanup,
  dlock,         \* holder of dataset_lock across steps, or "free"
  bar,           \* dataset_barrier, as in AbstractBarrier
  pc,            \* where each thread is in miner_thread
  seed,          \* seed of each thread's work
  vm,            \* rx_vm: "none", "live", or "dangling" (its dataset is freed)
  vmkey,         \* the key of the dataset rx_vm was made for
  built,         \* history: a dataset was built since the barrier opened
  quits          \* how often workio was told to terminate

vars == <<opt_benchmark, gseed, key, ds, fCreateDataset, fCleanup, dlock, bar,
          pc, seed, vm, vmkey, built, quits>>

Barrier == INSTANCE AbstractBarrier WITH st <- bar

Init ==
  /\ opt_benchmark \in BOOLEAN
  /\ gseed = FirstSeed /\ key = 0 /\ ds = "none"
  /\ fCreateDataset = FALSE /\ fCleanup = FALSE
  /\ dlock = "free"
  /\ Barrier!Init
  /\ pc = [t \in Threads |-> "top"]
  /\ seed = [t \in Threads |-> 0]
  /\ vm = [t \in Threads |-> "none"]
  /\ vmkey = [t \in Threads |-> 0]
  /\ built = FALSE
  /\ quits = 0

Goto(t, l) == pc' = [pc EXCEPT ![t] = l]

-----------------------------------------------------------------------------
(* The node's clock enters the next epoch. *)
NextEpoch ==
  /\ ~ opt_benchmark
  /\ gseed < MaxSeed
  /\ gseed' = gseed + 1
  /\ UNCHANGED <<opt_benchmark, key, ds, fCreateDataset, fCleanup, dlock, bar, pc, seed, vm,
                 vmkey, built, quits>>

(* The thread takes the current work. *)
TakeWork(t) ==
  /\ pc[t] = "top"
  /\ seed' = [seed EXCEPT ![t] = gseed]
  /\ Goto(t, "check")
  /\ UNCHANGED <<gseed, key, ds, fCreateDataset, fCleanup, dlock, bar, vm,
                 vmkey, built, quits>>

(* Mutant: only a thread without a VM looks at the key. *)
KeyMatchesOnce(t) == vm[t] # "none"

KeyMatches(t) == key = seed[t]

(* The thread compares rx_current_key with its seed; no lock is held.  The *)
(* memcmp may overlap the memcpy of a builder, but a key that is half old  *)
(* and half new equals no seed, so it is read as the old or the new key.   *)
CheckKey(t) ==
  /\ pc[t] = "check"
  /\ Goto(t, IF KeyMatches(t) THEN "scan" ELSE "mark")
  /\ UNCHANGED <<gseed, key, ds, fCreateDataset, fCleanup, dlock, bar, seed, vm,
                 vmkey, built, quits>>

Mark(t) ==
  /\ pc[t] = "mark"
  /\ fCreateDataset' = TRUE
  /\ Goto(t, "arrive")
  /\ UNCHANGED <<gseed, key, ds, fCleanup, dlock, bar, seed, vm, vmkey, built,
                 quits>>

(* Mutant: threads walk past the barrier. *)
NoBarrier(t, l, held, next) ==
  /\ pc[t] = l
  /\ Goto(t, next)
  /\ built' = FALSE
  /\ UNCHANGED bar

(* pthread_barrier_wait, called at l: t is held, or is the last to arrive, *)
(* opens the barrier and goes on to next.                                  *)
Arrive(t, l, held, next) ==
  /\ pc[t] = l
  /\ Barrier!Arrive(t)
  /\ IF Barrier!Last(t)
     THEN Goto(t, next) /\ built' = FALSE
     ELSE Goto(t, held) /\ UNCHANGED built

(* pthread_barrier_wait returns to a thread that was held. *)
Leave(t, held, next) ==
  /\ pc[t] = held
  /\ Barrier!Leave(t)
  /\ Goto(t, next)
  /\ UNCHANGED built

BarrierStep(t) ==
  /\ \/ Arrive(t, "arrive", "held", "destroy")
     \/ Leave(t, "held", "destroy")
     \/ Arrive(t, "exit", "exitheld", "exitvm")
     \/ Leave(t, "exitheld", "exitvm")
  /\ UNCHANGED <<gseed, key, ds, fCreateDataset, fCleanup, dlock, seed, vm,
                 vmkey, quits>>

(* randomx_destroy_vm, past the barrier at l. *)
DestroyVm(t, l, next) ==
  /\ pc[t] = l
  /\ vm' = [vm EXCEPT ![t] = "none"]
  /\ Goto(t, next)
  /\ UNCHANGED <<gseed, key, ds, fCreateDataset, fCleanup, dlock, bar, seed,
                 vmkey, built, quits>>

(* randomx_release_dataset: the VMs made on it are left dangling. *)
ReleaseDataset ==
  /\ ds' = "none"
  /\ vm' = [t \in Threads |-> IF vm[t] = "live" THEN "dangling" ELSE vm[t]]

(* Mutant: the flag stays raised, everybody builds a dataset. *)
LowerFlagNot == UNCHANGED fCreateDataset

LowerFlag == fCreateDataset' = FALSE

(* Mutant: rx_current_key is not replaced. *)
SetKeyNot(t) == UNCHANGED key

SetKey(t) == key' = seed[t]

(* dataset_lock is taken and fCreateDataset is raised: the old dataset is  *)
(* released and the key is replaced; the lock is kept.                     *)
StartBuild(t) ==
  /\ pc[t] = "lock" /\ dlock = "free"
  /\ fCreateDataset
  /\ LowerFlag
  /\ ReleaseDataset
  /\ SetKey(t)
  /\ dlock' = t
  /\ built' = TRUE
  /\ Goto(t, "alloc")
  /\ UNCHANGED <<gseed, fCleanup, bar, seed, vmkey, quits>>

(* Mutant: only the builder makes itself a new VM. *)
SkipBuildAndVm(t) ==
  /\ pc[t] = "lock" /\ dlock = "free"
  /\ ~ fCreateDataset
  /\ Goto(t, "scan")
  /\ UNCHANGED <<gseed, key, ds, fCreateDataset, fCleanup, dlock, bar, seed, vm,
                 vmkey, built, quits>>

(* dataset_lock is taken and somebody else has built the dataset. *)
SkipBuild(t) ==
  /\ pc[t] = "lock" /\ dlock = "free"
  /\ ~ fCreateDataset
  /\ Goto(t, "newvm")
  /\ UNCHANGED <<gseed, key, ds, fCreateDataset, fCleanup, dlock, bar, seed, vm,
                 vmkey, built, quits>>

Alloc(t) ==
  /\ pc[t] = "alloc"
  /\ ds' = "raw"
  /\ Goto(t, "init")
  /\ UNCHANGED <<gseed, key, fCreateDataset, fCleanup, dlock, bar, seed, vm,
                 vmkey, built, quits>>

(* Mutant: the init threads are not joined. *)
JoinNot == UNCHANGED ds

(* The init threads have been joined: the dataset is complete. *)
Join == ds' = "ready"

(* Mutant: dataset_lock is not released. *)
UnlockNot == UNCHANGED dlock

Unlock == dlock' = "free"

(* The dataset is filled by the init threads; dataset_lock is released. *)
InitDataset(t) ==
  /\ pc[t] = "init"
  /\ Join
  /\ Unlock
  /\ Goto(t, "newvm")
  /\ UNCHANGED <<gseed, key, fCreateDataset, fCleanup, bar, seed, vm, vmkey,
                 built, quits>>

(* randomx_create_vm on whatever rx_dataset is now; the lock is not held.  *)
(* Without a dataset it fails and the process exits: there is no next step *)
(* of t in that case.                                                      *)
CreateVm(t) ==
  /\ pc[t] = "newvm"
  /\ ds # "none"
  /\ vm' = [vm EXCEPT ![t] = "live"]
  /\ vmkey' = [vmkey EXCEPT ![t] = key]
  /\ Goto(t, "scan")
  /\ UNCHANGED <<gseed, key, ds, fCreateDataset, fCleanup, dlock, bar, seed,
                 built, quits>>

(* The scan ends; in benchmark mode so does the thread. *)
EndScan(t) ==
  /\ pc[t] = "scan"
  /\ Goto(t, IF opt_benchmark THEN "exit" ELSE "top")
  /\ UNCHANGED <<gseed, key, ds, fCreateDataset, fCleanup, dlock, bar, seed, vm,
                 vmkey, built, quits>>

(* Mutant: fCleanup is not raised. *)
RaiseCleanupNot == UNCHANGED fCleanup

RaiseCleanup == fCleanup' = TRUE

(* The end of miner_thread: the first thread to get dataset_lock releases  *)
(* the dataset and tells workio to terminate.                              *)
Cleanup(t) ==
  /\ pc[t] = "cleanup" /\ dlock = "free"
  /\ IF fCleanup
     THEN UNCHANGED <<ds, vm, fCleanup, quits>>
     ELSE ReleaseDataset /\ RaiseCleanup /\ quits' = quits + 1
  /\ Goto(t, "done")
  /\ UNCHANGED <<gseed, key, fCreateDataset, dlock, bar, seed, vmkey, built>>

Step(t) ==
  \/ TakeWork(t) \/ CheckKey(t) \/ Mark(t) \/ BarrierStep(t)
  \/ DestroyVm(t, "destroy", "lock") \/ DestroyVm(t, "exitvm", "cleanup")
  \/ StartBuild(t) \/ SkipBuild(t) \/ Alloc(t) \/ InitDataset(t)
  \/ CreateVm(t) \/ EndScan(t) \/ Cleanup(t)

Thread(t) == Step(t) /\ UNCHANGED opt_benchmark

(* In benchmark mode the program is over when all threads are. *)
Finished ==
  /\ \A t \in Threads : pc[t] = "done"
  /\ UNCHANGED vars

Next == NextEpoch \/ (\E t \in Threads : Thread(t)) \/ Finished

Spec == Init /\ [][Next]_vars

(* Every thread runs, and gets a mutex that is free again and again. *)
Fairness ==
  \A t \in Threads :
    /\ WF_vars(Thread(t))
    /\ SF_vars(/\ UNCHANGED opt_benchmark
               /\ StartBuild(t) \/ SkipBuild(t) \/ Cleanup(t))

FairSpec == Spec /\ Fairness

-----------------------------------------------------------------------------
(* The state keeps its types: dataset_lock belongs to the one thread that  *)
(* builds, and exactly the threads inside pthread_barrier_wait are held.   *)
TypeOK ==
  /\ opt_benchmark \in BOOLEAN
  /\ gseed \in FirstSeed .. MaxSeed
  /\ key \in 0 .. MaxSeed
  /\ ds \in {"none", "raw", "ready"}
  /\ fCreateDataset \in BOOLEAN /\ fCleanup \in BOOLEAN
  /\ dlock \in Threads \cup {"free"}
  /\ bar \in [Threads -> {"out", "waiting", "released"}]
  /\ pc \in [Threads -> {"top", "check", "mark", "arrive", "held", "destroy",
                         "lock", "alloc", "init", "newvm", "scan", "exit",
                         "exitheld", "exitvm", "cleanup", "done"}]
  /\ seed \in [Threads -> 0 .. MaxSeed]
  /\ vm \in [Threads -> {"none", "live", "dangling"}]
  /\ vmkey \in [Threads -> 0 .. MaxSeed]
  /\ built \in BOOLEAN
  /\ quits \in Nat
  /\ \A t \in Threads :
       /\ dlock = t <=> pc[t] \in {"alloc", "init"}
       /\ bar[t] # "out" <=> pc[t] \in {"held", "exitheld"}

(* A thread that scans has a VM, and the VM's dataset has not been         *)
(* released or replaced: that is what the barrier is for.                  *)
NoUseAfterFree == \A t \in Threads : pc[t] = "scan" => vm[t] # "dangling"

(* A thread that scans has a VM at all. *)
ScanHasVm == \A t \in Threads : pc[t] = "scan" => vm[t] # "none"

(* As long as the epoch does not change, a thread hashes with the key of   *)
(* its own work.                                                           *)
HashesWithOwnKey ==
  \A t \in Threads :
    pc[t] = "scan" /\ gseed = FirstSeed => vmkey[t] = seed[t]

(* A VM is made on a complete dataset for the current key. *)
VmOnCompleteDataset ==
  \A t \in Threads : pc[t] = "newvm" => ds = "ready"

(* As long as the epoch does not change, only the first thread to get the  *)
(* mutex after the barrier builds.                                         *)
FirstThreadBuilds ==
  [][\A t \in Threads : StartBuild(t) /\ gseed = FirstSeed => ~ built]_vars

(* When epochs stop changing, a thread that goes on scanning does so only  *)
(* with the key of its own work from some time on (a mismatch heals), and  *)
(* the program goes on scanning: never do all threads wait for each other. *)
EventuallyOwnKey ==
  /\ \A t \in Threads : <>[](pc[t] = "scan" => vmkey[t] = seed[t])
  /\ opt_benchmark \/ []<>(\E t \in Threads : pc[t] = "scan")

(* A benchmark ends: every thread finishes, and workio is told once.       *)
BenchmarkEnds ==
  opt_benchmark => <>[]((\A t \in Threads : pc[t] = "done") /\ quits = 1)
=============================================================================
