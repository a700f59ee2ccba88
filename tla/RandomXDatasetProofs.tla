----------------------- MODULE RandomXDatasetProofs -----------------------
(* Theorems about the dataset and the VMs of miner_thread, for any number  *)
(* of threads and epochs; where two threads are meant it is said.          *)
EXTENDS RandomXDataset, Integers, TLAPS

(* The three things that may come of pthread_barrier_wait. *)
Holds(t) ==
  /\ bar[t] = "out" /\ bar' = [bar EXCEPT ![t] = "waiting"]
  /\ built' = built
  /\ \/ pc[t] = "arrive" /\ Goto(t, "held")
     \/ pc[t] = "exit" /\ Goto(t, "exitheld")

Opens(t) ==
  /\ \A u \in Threads \ {t} : bar[u] = "waiting"
  /\ bar' = [u \in Threads |-> IF u = t THEN "out" ELSE "released"]
  /\ built' = FALSE
  /\ \/ pc[t] = "arrive" /\ Goto(t, "destroy")
     \/ pc[t] = "exit" /\ Goto(t, "exitvm")

Leaves(t) ==
  /\ bar[t] = "released" /\ bar' = [bar EXCEPT ![t] = "out"]
  /\ built' = built
  /\ \/ pc[t] = "held" /\ Goto(t, "destroy")
     \/ pc[t] = "exitheld" /\ Goto(t, "exitvm")

LEMMA BarrierSteps ==
  ASSUME NEW t \in Threads, BarrierStep(t)
  PROVE  Holds(t) \/ Opens(t) \/ Leaves(t)
<1>1. ASSUME NEW l, NEW held, NEW next, Arrive(t, l, held, next)
      PROVE  /\ pc[t] = l
             /\ \/ /\ bar[t] = "out" /\ bar' = [bar EXCEPT ![t] = "waiting"]
                   /\ Goto(t, held) /\ built' = built
                \/ /\ \A u \in Threads \ {t} : bar[u] = "waiting"
                   /\ bar' = [u \in Threads |-> IF u = t THEN "out" ELSE "released"]
                   /\ Goto(t, next) /\ built' = FALSE
  BY <1>1 DEF Arrive, Barrier!Arrive, Barrier!Last
<1>2. ASSUME NEW held, NEW next, Leave(t, held, next)
      PROVE  /\ pc[t] = held /\ bar[t] = "released"
             /\ bar' = [bar EXCEPT ![t] = "out"]
             /\ Goto(t, next) /\ built' = built
  BY <1>2 DEF Leave, Barrier!Leave
<1>3. CASE Arrive(t, "arrive", "held", "destroy")
  BY <1>1, <1>3 DEF Holds, Opens
<1>4. CASE Arrive(t, "exit", "exitheld", "exitvm")
  BY <1>1, <1>4 DEF Holds, Opens
<1>5. CASE Leave(t, "held", "destroy") \/ Leave(t, "exitheld", "exitvm")
  BY <1>2, <1>5 DEF Leaves
<1> QED
  BY <1>3, <1>4, <1>5 DEF BarrierStep

-----------------------------------------------------------------------------
(* Types. *)

LEMMA TypeInit == Init => TypeOK
<1> SUFFICES ASSUME Init PROVE TypeOK
  OBVIOUS
<1>1. /\ gseed \in FirstSeed .. MaxSeed /\ key \in 0 .. MaxSeed
      /\ seed \in [Threads -> 0 .. MaxSeed]
      /\ vmkey \in [Threads -> 0 .. MaxSeed]
  BY DatasetAssumption DEF Init
<1>2. \A t \in Threads : ~ (dlock = t) /\ pc[t] = "top" /\ bar[t] = "out"
  BY DatasetAssumption DEF Init, Barrier!Init
<1> QED
  BY <1>1, <1>2 DEF Init, TypeOK, Barrier!Init

Labels == {"top", "check", "mark", "arrive", "held", "destroy", "lock", "alloc",
           "init", "newvm", "scan", "exit", "exitheld", "exitvm", "cleanup",
           "done"}

(* TypeOK in three parts: flags, where threads are, and the rest. *)
Flags ==
  /\ opt_benchmark \in BOOLEAN /\ fCreateDataset \in BOOLEAN
  /\ fCleanup \in BOOLEAN /\ built \in BOOLEAN

Where ==
  /\ dlock \in Threads \cup {"free"}
  /\ bar \in [Threads -> {"out", "waiting", "released"}]
  /\ pc \in [Threads -> Labels]
  /\ \A t \in Threads :
       /\ dlock = t <=> pc[t] \in {"alloc", "init"}
       /\ bar[t] # "out" <=> pc[t] \in {"held", "exitheld"}

Data ==
  /\ gseed \in FirstSeed .. MaxSeed
  /\ key \in 0 .. MaxSeed
  /\ ds \in {"none", "raw", "ready"}
  /\ seed \in [Threads -> 0 .. MaxSeed]
  /\ vm \in [Threads -> {"none", "live", "dangling"}]
  /\ vmkey \in [Threads -> 0 .. MaxSeed]
  /\ quits \in Nat

LEMMA TypeParts == TypeOK <=> Flags /\ Where /\ Data
BY DEF TypeOK, Flags, Where, Data, Labels

LEMMA TypePartsNext == TypeOK' <=> Flags' /\ Where' /\ Data'
BY DEF TypeOK, Flags, Where, Data, Labels

LEMMA FlagsNext ==
  ASSUME TypeOK, NEW t \in Threads, Thread(t)
  PROVE  Flags'
<1>1. Flags
  BY TypeParts
<1>2. UNCHANGED opt_benchmark
  BY DEF Thread
<1>3. CASE BarrierStep(t)
  <2>1. built' \in BOOLEAN
    BY <1>1, <1>3, BarrierSteps DEF Flags, Holds, Opens, Leaves
  <2> QED
    BY <1>1, <1>2, <1>3, <2>1 DEF Flags, BarrierStep
<1>4. CASE ~ BarrierStep(t)
  BY <1>1, <1>2, <1>4 DEF Thread, Step, Flags, TakeWork, CheckKey, Mark,
     DestroyVm, StartBuild, LowerFlag, SkipBuild, Alloc, InitDataset, CreateVm,
     EndScan, Cleanup, RaiseCleanup
<1> QED
  BY <1>3, <1>4

LEMMA DataNext ==
  ASSUME TypeOK, NEW t \in Threads, Thread(t)
  PROVE  Data'
<1>1. Data
  BY TypeParts
<1> USE DEF Data
<1>2. CASE TakeWork(t)
  BY <1>1, <1>2, DatasetAssumption DEF TakeWork
<1>3. CASE CheckKey(t) \/ Mark(t) \/ BarrierStep(t) \/ SkipBuild(t) \/ EndScan(t)
  BY <1>1, <1>3 DEF CheckKey, Mark, BarrierStep, SkipBuild, EndScan
<1>4. CASE DestroyVm(t, "destroy", "lock") \/ DestroyVm(t, "exitvm", "cleanup")
  BY <1>1, <1>4 DEF DestroyVm
<1>5. CASE StartBuild(t)
  BY <1>1, <1>5 DEF StartBuild, ReleaseDataset, SetKey
<1>6. CASE Alloc(t) \/ InitDataset(t) \/ CreateVm(t)
  BY <1>1, <1>6 DEF Alloc, InitDataset, Join, CreateVm
<1>7. CASE Cleanup(t)
  BY <1>1, <1>7 DEF Cleanup, ReleaseDataset
<1> QED
  BY <1>2, <1>3, <1>4, <1>5, <1>6, <1>7 DEF Thread, Step

LEMMA WhereNext ==
  ASSUME TypeOK, NEW t \in Threads, Thread(t)
  PROVE  Where'
<1>1. Where
  BY TypeParts
<1> USE DEF Where, Labels, Goto
<1>2. CASE Holds(t) /\ UNCHANGED dlock
  BY <1>1, <1>2 DEF Holds
<1>3. CASE Opens(t) /\ UNCHANGED dlock
  <2>1. \A u \in Threads \ {t} : pc[u] \in {"held", "exitheld"}
    BY <1>1, <1>3 DEF Opens
  <2> QED
    BY <1>1, <1>3, <2>1 DEF Opens
<1>4. CASE Leaves(t) /\ UNCHANGED dlock
  BY <1>1, <1>4 DEF Leaves
<1>5. CASE TakeWork(t) \/ CheckKey(t) \/ Mark(t) \/ DestroyVm(t, "destroy", "lock")
           \/ DestroyVm(t, "exitvm", "cleanup") \/ SkipBuild(t) \/ Alloc(t)
           \/ CreateVm(t) \/ EndScan(t) \/ Cleanup(t)
  <2>1. UNCHANGED <<dlock, bar>>
    BY <1>5 DEF TakeWork, CheckKey, Mark, DestroyVm, SkipBuild, Alloc,
       CreateVm, EndScan, Cleanup
  <2>2. \E l \in Labels : Goto(t, l) /\ l \notin {"held", "exitheld"}
                         /\ (l \in {"alloc", "init"} <=> pc[t] \in {"alloc", "init"})
    BY <1>5 DEF TakeWork, CheckKey, Mark, DestroyVm, SkipBuild, Alloc,
       CreateVm, EndScan, Cleanup
  <2>3. pc[t] \notin {"held", "exitheld"}
    BY <1>5 DEF TakeWork, CheckKey, Mark, DestroyVm, SkipBuild, Alloc,
       CreateVm, EndScan, Cleanup
  <2> QED
    BY <1>1, <2>1, <2>2, <2>3
<1>6. CASE StartBuild(t)
  BY <1>1, <1>6, DatasetAssumption DEF StartBuild
<1>7. CASE InitDataset(t)
  BY <1>1, <1>7, DatasetAssumption DEF InitDataset, Unlock
<1>8. BarrierStep(t) => UNCHANGED dlock
  BY DEF BarrierStep
<1> QED
  BY <1>2, <1>3, <1>4, <1>5, <1>6, <1>7, <1>8, BarrierSteps DEF Thread, Step

LEMMA TypeNext == TypeOK /\ [Next]_vars => TypeOK'
<1> SUFFICES ASSUME TypeOK, [Next]_vars PROVE TypeOK'
  OBVIOUS
<1>1. CASE NextEpoch
  BY <1>1, DatasetAssumption DEF NextEpoch, TypeOK
<1>2. ASSUME NEW t \in Threads, Thread(t) PROVE TypeOK'
  BY <1>2, FlagsNext, WhereNext, DataNext, TypePartsNext
<1>3. CASE UNCHANGED vars \/ Finished
  BY <1>3 DEF Finished, vars, TypeOK
<1> QED
  BY <1>1, <1>2, <1>3 DEF Next

(* The state keeps its types, and dataset_lock and the barrier agree with  *)
(* where the threads are.                                                  *)
THEOREM TypeCorrect == Spec => []TypeOK
BY TypeInit, TypeNext, PTL DEF Spec

-----------------------------------------------------------------------------
(* A VM for whoever scans. *)

(* Work from getwork has the all-zero seed that rx_current_key starts with; *)
(* the theorems below are about work that has a real one.                  *)
RealSeeds == FirstSeed > 0

(* Threads that have not been through the barrier have seen nobody through *)
(* it, and no key.                                                         *)
Untouched(t) ==
  /\ vm[t] = "none"
  /\ pc[t] \in {"top", "check", "mark", "arrive"} \/ bar[t] = "waiting"

HasVmInv ==
  /\ \A t \in Threads : pc[t] # "top" => seed[t] >= FirstSeed
  /\ \A t \in Threads : pc[t] \in {"scan", "exit", "exitheld"} => vm[t] # "none"
  /\ \A t \in Threads : Untouched(t) =>
       /\ key = 0
       /\ \A u \in Threads : /\ pc[u] \in {"top", "check", "mark", "arrive", "held"}
                              /\ bar[u] # "released"

LEMMA HasVmInit == RealSeeds /\ Init => HasVmInv
BY DEF Init, HasVmInv, Barrier!Init

LEMMA HasVmNext ==
  ASSUME RealSeeds, TypeOK, HasVmInv, [Next]_vars
  PROVE  HasVmInv'
<1>0. Where /\ Data
  BY TypeParts
<1> USE DEF HasVmInv, Untouched
<1>1. ASSUME NEW t \in Threads, Thread(t) PROVE HasVmInv'
  <2> USE <1>0 DEF Where, Data, Goto
  <2>1. CASE TakeWork(t)
    BY <2>1, DatasetAssumption DEF TakeWork
  <2>2. CASE CheckKey(t)
    <3>1. KeyMatches(t) => key # 0 /\ vm[t] # "none"
      BY <2>2, DatasetAssumption DEF CheckKey, KeyMatches, RealSeeds
    <3>2. CASE KeyMatches(t)
      BY <2>2, <3>1, <3>2 DEF CheckKey
    <3>3. CASE ~ KeyMatches(t)
      BY <2>2, <3>3 DEF CheckKey
    <3> QED
      BY <3>2, <3>3
  <2>3. CASE Mark(t)
    BY <2>3 DEF Mark
  <2>4. CASE BarrierStep(t)
    <3>1. UNCHANGED <<key, seed, vm>>
      BY <2>4 DEF BarrierStep
    <3>2. CASE Holds(t)
      BY <3>1, <3>2 DEF Holds
    <3>3. CASE Opens(t)
      BY <3>1, <3>3 DEF Opens
    <3>4. CASE Leaves(t)
      BY <3>1, <3>4 DEF Leaves
    <3> QED
      BY <2>4, <3>2, <3>3, <3>4, BarrierSteps
  <2>5. CASE DestroyVm(t, "destroy", "lock") \/ DestroyVm(t, "exitvm", "cleanup")
    BY <2>5 DEF DestroyVm
  <2>6. CASE StartBuild(t)
    BY <2>6 DEF StartBuild, ReleaseDataset
  <2>7. CASE SkipBuild(t) \/ Alloc(t) \/ InitDataset(t) \/ CreateVm(t)
    BY <2>7 DEF SkipBuild, Alloc, InitDataset, CreateVm
  <2>8. CASE EndScan(t)
    BY <2>8 DEF EndScan
  <2>9. CASE Cleanup(t)
    BY <2>9 DEF Cleanup, ReleaseDataset
  <2> QED
    BY <1>1, <2>1, <2>2, <2>3, <2>4, <2>5, <2>6, <2>7, <2>8, <2>9
       DEF Thread, Step
<1>2. CASE NextEpoch
  BY <1>2 DEF NextEpoch
<1>3. CASE UNCHANGED vars \/ Finished
  BY <1>3 DEF Finished, vars
<1> QED
  BY <1>1, <1>2, <1>3 DEF Next

(* A thread whose key matches without a new dataset has a VM from before,  *)
(* for any number of threads and epochs.                                   *)
THEOREM ScanHasVmCorrect == RealSeeds /\ Spec => []ScanHasVm
<1> SUFFICES ASSUME RealSeeds PROVE Spec => []ScanHasVm
  OBVIOUS
<1>1. TypeOK /\ HasVmInv /\ [Next]_vars => TypeOK' /\ HasVmInv'
  BY HasVmNext, TypeNext
<1>2. HasVmInv => ScanHasVm
  BY DEF HasVmInv, ScanHasVm
<1> QED
  BY <1>1, <1>2, TypeInit, HasVmInit, PTL DEF Spec

-----------------------------------------------------------------------------
(* The first epoch. *)

(* Past the barrier before the build, and past the one at the end. *)
Past(t)     == bar[t] = "released" \/ pc[t] \in {"destroy", "lock"}
ExitPast(t) == \/ pc[t] = "exitheld" /\ bar[t] = "released"
               \/ pc[t] \in {"exitvm", "cleanup", "done"}

(* Nobody has built the dataset yet. *)
Unbuilt ==
  /\ ds = "none" /\ ~ built /\ ~ fCleanup
  /\ \A t \in Threads :
       /\ pc[t] \in {"top", "check", "mark", "arrive", "held", "destroy", "lock"}
       /\ vm[t] = "none"
       /\ pc[t] \in {"arrive", "held", "destroy", "lock"} => fCreateDataset
       /\ Past(t) => \A u \in Threads : Past(u)

(* Somebody has, and nobody will again. *)
BuiltOnce ==
  /\ ~ fCreateDataset
  /\ dlock = "free" /\ ~ fCleanup => ds = "ready"
  /\ \A t \in Threads :
       /\ pc[t] \notin {"mark", "arrive"}
       /\ pc[t] = "held" => bar[t] = "released"
       /\ pc[t] \notin {"held", "destroy", "lock", "alloc", "init"} => dlock = "free"
       /\ \/ pc[t] \in {"top", "check", "scan", "exit"}
          \/ pc[t] = "exitheld" /\ bar[t] = "waiting"
          => vm[t] = "live" /\ vmkey[t] = FirstSeed
       /\ ExitPast(t) \/ fCleanup => \A u \in Threads : ExitPast(u)

FirstEpoch ==
  /\ \A t \in Threads : seed[t] = FirstSeed \/ pc[t] = "top"
  /\ \/ key = 0 /\ Unbuilt
     \/ key = FirstSeed /\ BuiltOnce

EpochInv ==
  /\ opt_benchmark => gseed = FirstSeed
  /\ gseed = FirstSeed => FirstEpoch

LEMMA EpochInit == Init => EpochInv
<1> SUFFICES ASSUME Init PROVE EpochInv
  OBVIOUS
<1>1. \A t \in Threads : pc[t] = "top" /\ vm[t] = "none" /\ bar[t] = "out"
  BY DEF Init, Barrier!Init
<1> QED
  BY <1>1 DEF Init, EpochInv, FirstEpoch, Unbuilt, Past

(* Before the build: one thread after the other goes to the barrier, and   *)
(* the first one behind it that gets the mutex builds.                     *)
LEMMA UnbuiltNext ==
  ASSUME RealSeeds, TypeOK, gseed = FirstSeed, FirstEpoch, key = 0, Unbuilt,
         NEW t \in Threads, Thread(t)
  PROVE  FirstEpoch'
<1>0. Where /\ Data
  BY TypeParts
<1>1. ASSUME key' = 0, Unbuilt', \A u \in Threads : seed'[u] = FirstSeed \/ pc'[u] = "top"
      PROVE  FirstEpoch'
  BY <1>1 DEF FirstEpoch
<1>a. \A u \in Threads : seed[u] = FirstSeed \/ pc[u] = "top"
  BY DEF FirstEpoch
<1> USE <1>0, <1>a DEF Where, Data, Goto, Unbuilt, Past
<1>2. CASE TakeWork(t) \/ Mark(t)
  BY <1>1, <1>2 DEF TakeWork, Mark
<1>3. CASE CheckKey(t)
  <2>1. ~ KeyMatches(t)
    BY <1>3, DatasetAssumption DEF CheckKey, KeyMatches, RealSeeds
  <2> QED
    BY <1>1, <1>3, <2>1 DEF CheckKey
<1>4. CASE BarrierStep(t)
  <2>1. UNCHANGED <<key, ds, fCleanup, vm, fCreateDataset, seed>>
    BY <1>4 DEF BarrierStep
  <2>2. CASE Holds(t)
    BY <1>1, <2>1, <2>2 DEF Holds
  <2>3. CASE Opens(t)
    <3>1. \A u \in Threads \ {t} : pc[u] = "held" /\ pc'[u] = "held" /\ bar'[u] = "released"
      BY <2>3 DEF Opens
    <3>2. pc'[t] = "destroy" /\ ~ built' /\ fCreateDataset
      BY <2>3 DEF Opens
    <3>3. Unbuilt'
      BY <2>1, <3>1, <3>2
    <3>4. seed' = seed /\ pc[t] = "arrive"
      BY <2>1, <2>3 DEF Opens
    <3>5. \A u \in Threads : pc[u] # "top"
      BY <3>1, <3>4
    <3>6. \A u \in Threads : seed'[u] = FirstSeed
      BY <3>4, <3>5
    <3> QED
      BY <1>1, <2>1, <3>3, <3>6
  <2>4. CASE Leaves(t)
    BY <1>1, <2>1, <2>4 DEF Leaves
  <2> QED
    BY <1>4, <2>2, <2>3, <2>4, BarrierSteps
<1>5. CASE DestroyVm(t, "destroy", "lock")
  BY <1>1, <1>5 DEF DestroyVm
<1>6. CASE StartBuild(t)
  <2>1. key' = FirstSeed
    BY <1>6 DEF StartBuild, SetKey
  <2>2. \A u \in Threads : Past(u)
    BY <1>6 DEF StartBuild
  <2>3. /\ pc'[t] = "alloc" /\ dlock' = t /\ ~ fCreateDataset' /\ ~ fCleanup'
        /\ UNCHANGED <<bar, seed>>
        /\ \A u \in Threads \ {t} : pc'[u] = pc[u]
    BY <1>6 DEF StartBuild, LowerFlag
  <2>4. \A u \in Threads : /\ pc'[u] \in {"held", "destroy", "lock", "alloc"}
                           /\ pc'[u] = "held" => bar'[u] = "released"
    BY <2>2, <2>3
  <2>5. dlock' # "free"
    BY <2>3, DatasetAssumption
  <2>6. BuiltOnce'
    BY <2>3, <2>4, <2>5 DEF BuiltOnce, ExitPast
  <2>7. seed' = seed /\ \A u \in Threads : pc[u] # "top"
    BY <2>2, <2>3
  <2> QED
    BY <2>1, <2>6, <2>7 DEF FirstEpoch
<1>7. CASE SkipBuild(t) \/ Alloc(t) \/ InitDataset(t) \/ CreateVm(t) \/ EndScan(t)
           \/ Cleanup(t) \/ DestroyVm(t, "exitvm", "cleanup")
  BY <1>7 DEF SkipBuild, Alloc, InitDataset, CreateVm, EndScan, Cleanup, DestroyVm
<1> QED
  BY <1>2, <1>3, <1>4, <1>5, <1>6, <1>7 DEF Thread, Step

(* After it: nobody goes to the barrier again before the end of the run,   *)
(* and behind that one nobody scans.                                       *)
LEMMA BuiltNext ==
  ASSUME RealSeeds, TypeOK, gseed = FirstSeed, FirstEpoch, key = FirstSeed,
         BuiltOnce, NEW t \in Threads, Thread(t)
  PROVE  FirstEpoch'
<1>0. Where /\ Data
  BY TypeParts
<1>a. \A u \in Threads : seed[u] = FirstSeed \/ pc[u] = "top"
  BY DEF FirstEpoch
<1>1. ASSUME key' = key, BuiltOnce', \A u \in Threads : seed'[u] = FirstSeed \/ pc'[u] = "top"
      PROVE  FirstEpoch'
  BY <1>1 DEF FirstEpoch
<1> USE <1>0, <1>a DEF Where, Data, Goto, BuiltOnce, ExitPast
<1>2. CASE TakeWork(t)
  BY <1>1, <1>2 DEF TakeWork
<1>3. CASE CheckKey(t)
  <2>1. KeyMatches(t)
    BY <1>3 DEF CheckKey, KeyMatches
  <2> QED
    BY <1>1, <1>3, <2>1 DEF CheckKey
<1>4. CASE BarrierStep(t)
  <2>1. UNCHANGED <<key, ds, fCleanup, vm, vmkey, fCreateDataset, seed, dlock>>
    BY <1>4 DEF BarrierStep
  <2>2. CASE Holds(t)
    BY <1>1, <2>1, <2>2 DEF Holds
  <2>3. CASE Opens(t)
    <3>1. pc[t] = "exit"
      BY <2>3 DEF Opens
    <3>2. \A u \in Threads \ {t} : pc[u] = "exitheld"
      BY <2>3 DEF Opens
    <3>3. /\ pc'[t] = "exitvm"
          /\ \A u \in Threads \ {t} : pc'[u] = "exitheld" /\ bar'[u] = "released"
      BY <2>3, <3>1, <3>2 DEF Opens
    <3>4. BuiltOnce'
      BY <2>1, <3>1, <3>2, <3>3
    <3>5. \A u \in Threads : seed'[u] = FirstSeed
      BY <2>1, <3>1, <3>2
    <3> QED
      BY <1>1, <2>1, <3>4, <3>5
  <2>4. CASE Leaves(t)
    BY <1>1, <2>1, <2>4 DEF Leaves
  <2> QED
    BY <1>4, <2>2, <2>3, <2>4, BarrierSteps
<1>5. CASE DestroyVm(t, "destroy", "lock") \/ DestroyVm(t, "exitvm", "cleanup")
  BY <1>1, <1>5 DEF DestroyVm
<1>6. CASE Mark(t) \/ StartBuild(t)
  BY <1>6 DEF Mark, StartBuild
<1>7. CASE SkipBuild(t) \/ Alloc(t)
  BY <1>1, <1>7, DatasetAssumption DEF SkipBuild, Alloc
<1>8. CASE InitDataset(t)
  BY <1>1, <1>8 DEF InitDataset, Join, Unlock
<1>9. CASE CreateVm(t) \/ EndScan(t)
  BY <1>1, <1>9 DEF CreateVm, EndScan
<1>10. CASE Cleanup(t)
  <2>1. \A u \in Threads : ExitPast(u)
    BY <1>10 DEF Cleanup
  <2>2. /\ pc' = [pc EXCEPT ![t] = "done"] /\ pc[t] = "cleanup" /\ fCleanup'
        /\ UNCHANGED <<key, seed, bar, dlock, fCreateDataset>>
    BY <1>10 DEF Cleanup, RaiseCleanup
  <2>3. \A u \in Threads : pc'[u] # "top" /\ ExitPast(u)'
    BY <2>1, <2>2
  <2>4. BuiltOnce'
    BY <2>2, <2>3
  <2>5. \A u \in Threads : seed'[u] = FirstSeed
    BY <2>1, <2>2
  <2> QED
    BY <1>1, <2>2, <2>4, <2>5
<1> QED
  BY <1>2, <1>3, <1>4, <1>5, <1>6, <1>7, <1>8, <1>9, <1>10 DEF Thread, Step

LEMMA EpochNext ==
  ASSUME RealSeeds, TypeOK, EpochInv, [Next]_vars
  PROVE  EpochInv'
<1>1. CASE NextEpoch
  BY <1>1, DatasetAssumption DEF NextEpoch, EpochInv, TypeOK
<1>2. ASSUME NEW t \in Threads, Thread(t) PROVE EpochInv'
  <2>1. UNCHANGED <<opt_benchmark, gseed>>
    BY <1>2 DEF Thread, Step, TakeWork, CheckKey, Mark, BarrierStep, DestroyVm,
       StartBuild, SkipBuild, Alloc, InitDataset, CreateVm, EndScan, Cleanup
  <2>2. gseed = FirstSeed => FirstEpoch'
    BY <1>2, UnbuiltNext, BuiltNext DEF EpochInv, FirstEpoch
  <2> QED
    BY <2>1, <2>2 DEF EpochInv
<1>3. CASE UNCHANGED vars \/ Finished
  BY <1>3 DEF Finished, vars, EpochInv, FirstEpoch, Unbuilt, BuiltOnce, Past, ExitPast
<1> QED
  BY <1>1, <1>2, <1>3 DEF Next

LEMMA EpochCorrect == RealSeeds /\ Spec => [](TypeOK /\ EpochInv)
<1> SUFFICES ASSUME RealSeeds PROVE Spec => [](TypeOK /\ EpochInv)
  OBVIOUS
<1>1. TypeOK /\ EpochInv /\ [Next]_vars => TypeOK' /\ EpochInv'
  BY EpochNext, TypeNext
<1> QED
  BY <1>1, TypeInit, EpochInit, PTL DEF Spec

(* In the first epoch a thread hashes with the key of its own work.        *)
THEOREM OwnKeyCorrect == RealSeeds /\ Spec => []HashesWithOwnKey
<1> SUFFICES ASSUME RealSeeds PROVE Spec => []HashesWithOwnKey
  OBVIOUS
<1>1. TypeOK /\ EpochInv => HashesWithOwnKey
  BY DEF RealSeeds, EpochInv, FirstEpoch, Unbuilt, BuiltOnce, HashesWithOwnKey
<1> QED
  BY <1>1, EpochCorrect, PTL

(* In the first epoch the dataset is built once, however many threads find *)
(* that their key is out of date.                                          *)
THEOREM FirstBuildsCorrect == RealSeeds /\ Spec => FirstThreadBuilds
<1> SUFFICES ASSUME RealSeeds PROVE Spec => FirstThreadBuilds
  OBVIOUS
<1>1. TypeOK /\ EpochInv =>
        \A t \in Threads : StartBuild(t) /\ gseed = FirstSeed => ~ built
  BY DEF RealSeeds, EpochInv, FirstEpoch, Unbuilt, BuiltOnce, StartBuild
<1> QED
  BY <1>1, EpochCorrect, PTL DEF FirstThreadBuilds

LEMMA FirstEpochState ==
  ASSUME TypeOK, EpochInv, opt_benchmark \/ gseed = FirstSeed
  PROVE  NoUseAfterFree /\ VmOnCompleteDataset
<1>1. gseed = FirstSeed /\ FirstEpoch
  BY DEF EpochInv
<1>2. CASE Unbuilt
  BY <1>2 DEF Unbuilt, NoUseAfterFree, VmOnCompleteDataset
<1>3. CASE BuiltOnce
  BY <1>3 DEF BuiltOnce, ExitPast, NoUseAfterFree, VmOnCompleteDataset
<1> QED
  BY <1>1, <1>2, <1>3 DEF FirstEpoch

(* In the first epoch, and so in every benchmark, no VM is used without    *)
(* its dataset and none is made on an incomplete one, for any number of    *)
(* threads.                                                                *)
THEOREM FirstEpochSafe ==
  RealSeeds /\ Spec =>
    [](opt_benchmark \/ gseed = FirstSeed => NoUseAfterFree /\ VmOnCompleteDataset)
<1>1. TypeOK /\ EpochInv =>
        (opt_benchmark \/ gseed = FirstSeed => NoUseAfterFree /\ VmOnCompleteDataset)
  BY FirstEpochState
<1> QED
  BY <1>1, EpochCorrect, PTL

-----------------------------------------------------------------------------
(* Two threads, any epochs. *)

(* While one of them is past the barrier and has not built, the flag that  *)
(* the other one may have raised meanwhile holds that one at the barrier.  *)
TwoInv ==
  /\ \A t \in Threads :
       /\ pc[t] \notin {"exit", "exitheld", "exitvm", "cleanup", "done"}
       /\ pc[t] = "lock" => vm[t] = "none"
       /\ vm[t] = "dangling" => pc[t] \in {"arrive", "held", "destroy"}
       /\ pc[t] = "newvm" => dlock = "free"
       /\ key = 0 => pc[t] \in {"top", "check", "mark", "arrive", "held", "destroy", "lock"}
       /\ key = 0 /\ pc[t] \in {"arrive", "held", "destroy", "lock"} => fCreateDataset
       /\ \A u \in Threads \ {t} :
            Past(t) /\ pc[u] \in {"alloc", "init", "newvm", "scan", "top", "check", "mark"}
              => ~ fCreateDataset
  /\ key # 0 /\ dlock = "free" => ds = "ready"

LEMMA TwoInit == Init => TwoInv
<1> SUFFICES ASSUME Init PROVE TwoInv
  OBVIOUS
<1>1. \A t \in Threads : pc[t] = "top" /\ vm[t] = "none" /\ bar[t] = "out"
  BY DEF Init, Barrier!Init
<1> QED
  BY <1>1 DEF Init, TwoInv, Past

LEMMA TwoNext ==
  ASSUME RealSeeds, TypeOK, HasVmInv, TwoInv, ~ opt_benchmark,
         NEW a, NEW b, Threads = {a, b}, NEW t \in Threads, Thread(t)
  PROVE  TwoInv'
<1>0. Where /\ Data
  BY TypeParts
<1>b. \A u \in Threads : pc[u] # "top" => seed[u] # 0
  BY DatasetAssumption DEF HasVmInv, RealSeeds, TypeOK
<1> USE <1>0 DEF Where, Data, Goto, TwoInv, Past
<1>1. CASE TakeWork(t)
  BY <1>1 DEF TakeWork
<1>2. CASE CheckKey(t)
  <2>1. KeyMatches(t) => key # 0
    BY <1>2, <1>b DEF CheckKey, KeyMatches
  <2>2. KeyMatches(t) => vm[t] # "dangling"
    BY <1>2 DEF CheckKey
  <2> QED
    BY <1>2, <2>1, <2>2 DEF CheckKey
<1>3. CASE Mark(t)
  BY <1>3 DEF Mark
<1>4. CASE BarrierStep(t)
  <2>1. UNCHANGED <<key, ds, vm, fCreateDataset, dlock>>
    BY <1>4 DEF BarrierStep
  <2>2. CASE Holds(t)
    BY <2>1, <2>2 DEF Holds
  <2>3. CASE Opens(t)
    BY <2>1, <2>3 DEF Opens
  <2>4. CASE Leaves(t)
    BY <2>1, <2>4 DEF Leaves
  <2> QED
    BY <1>4, <2>2, <2>3, <2>4, BarrierSteps
<1>5. CASE DestroyVm(t, "destroy", "lock") \/ DestroyVm(t, "exitvm", "cleanup")
  BY <1>5 DEF DestroyVm
<1>6. CASE StartBuild(t)
  <2>1. /\ pc[t] = "lock" /\ fCreateDataset /\ ~ fCreateDataset'
        /\ pc' = [pc EXCEPT ![t] = "alloc"] /\ dlock' = t /\ bar' = bar
        /\ vm' = [u \in Threads |-> IF vm[u] = "live" THEN "dangling" ELSE vm[u]]
        /\ key' = seed[t]
    BY <1>6 DEF StartBuild, LowerFlag, ReleaseDataset, SetKey
  <2>2. key' # 0 /\ dlock' # "free"
    BY <1>b, <2>1, DatasetAssumption
  <2>3. vm'[t] = "none" /\ pc'[t] = "alloc"
    BY <2>1
  <2>4. \A u \in Threads \ {t} : /\ pc'[u] = pc[u]
                                 /\ pc[u] \in {"arrive", "held", "destroy", "lock"}
                                 /\ pc[u] = "lock" => vm'[u] = "none"
    <3> SUFFICES ASSUME NEW u \in Threads \ {t}
                 PROVE  /\ pc'[u] = pc[u]
                        /\ pc[u] \in {"arrive", "held", "destroy", "lock"}
                        /\ pc[u] = "lock" => vm'[u] = "none"
      OBVIOUS
    <3>1. pc[u] \notin {"alloc", "init", "newvm", "scan", "top", "check", "mark"}
      BY <2>1
    <3>2. pc[u] \in Labels /\ pc[u] \notin {"exit", "exitheld", "exitvm", "cleanup", "done"}
      OBVIOUS
    <3>3. pc[u] = "lock" => vm[u] = "none"
      OBVIOUS
    <3> QED
      BY <2>1, <3>1, <3>2, <3>3 DEF Labels
  <2> QED
    BY <2>1, <2>2, <2>3, <2>4
<1>7. CASE SkipBuild(t)
  BY <1>7 DEF SkipBuild
<1>8. CASE Alloc(t)
  BY <1>8, DatasetAssumption DEF Alloc
<1>9. CASE InitDataset(t)
  BY <1>9 DEF InitDataset, Join, Unlock
<1>10. CASE CreateVm(t)
  BY <1>10 DEF CreateVm
<1>11. CASE EndScan(t) \/ Cleanup(t)
  BY <1>11 DEF EndScan, Cleanup
<1> QED
  BY <1>1, <1>2, <1>3, <1>4, <1>5, <1>6, <1>7, <1>8, <1>9, <1>10, <1>11
     DEF Thread, Step

(* As long as there are at most two threads no dataset is released in use, *)
(* and no VM is made on an incomplete one, whenever the epochs change: the *)
(* thread that could raise the flag again too early waits for the other.   *)
(* With a third thread this is false.                                      *)
THEOREM TwoThreadsSafe ==
  ASSUME RealSeeds, NEW a, NEW b, Threads = {a, b}
  PROVE  Spec => [](NoUseAfterFree /\ VmOnCompleteDataset)
<1> DEFINE Two == opt_benchmark \/ TwoInv
<1>1. TypeOK /\ HasVmInv /\ Two /\ [Next]_vars => Two'
  <2> SUFFICES ASSUME TypeOK, HasVmInv, Two, [Next]_vars PROVE Two'
    OBVIOUS
  <2>0. Where
    BY TypeParts
  <2>1. ASSUME NEW t \in Threads, Thread(t) PROVE Two'
    BY <2>1, TwoNext DEF Thread
  <2>2. CASE NextEpoch
    BY <2>2 DEF NextEpoch, TwoInv, Past
  <2>3. CASE UNCHANGED vars \/ Finished
    BY <2>3 DEF Finished, vars, TwoInv, Past
  <2> QED
    BY <2>1, <2>2, <2>3 DEF Next
<1>2. TypeOK /\ EpochInv /\ Two => NoUseAfterFree /\ VmOnCompleteDataset
  <2> SUFFICES ASSUME TypeOK, EpochInv, Two PROVE NoUseAfterFree /\ VmOnCompleteDataset
    OBVIOUS
  <2>1. CASE TwoInv
    BY <2>1 DEF TwoInv, NoUseAfterFree, VmOnCompleteDataset
  <2>2. CASE opt_benchmark
    BY <2>2, FirstEpochState
  <2> QED
    BY <2>1, <2>2
<1>3. TypeOK /\ HasVmInv /\ [Next]_vars => TypeOK' /\ HasVmInv'
  BY HasVmNext, TypeNext
<1>4. Init => Two
  BY TwoInit
<1> HIDE DEF Two
<1>5. Spec => [](TypeOK /\ EpochInv)
  BY EpochCorrect
<1> QED
  BY <1>1, <1>2, <1>3, <1>4, <1>5, TypeInit, HasVmInit, PTL DEF Spec
============================================================================
