---------------------------- MODULE ReplicasProofs ----------------------------
(***************************************************************************)
(* Theorems about Replicas, for every number of replicas, with leader      *)
(* election and without, and for every number of faults.                   *)
(***************************************************************************)
EXTENDS Replicas, TLAPS

PVs == {"none", "bound", "released", "gone"}
Steps == {"idle", "launch", "poll", "exitOk", "exitErr", "write"}
PodType == [phase : {"None", "Running", "Succeeded"}, ran : BOOLEAN, deleted : BOOLEAN]
CallType == [pc : Steps, kind : Kinds]

TypeOK ==
  /\ election \in ElectionValues /\ leader \in ReplicaSet
  /\ seen \in [ReplicaSet -> PVs]
  /\ op \in [ReplicaSet -> CallType]
  /\ pod \in [Kinds -> PodType]
  /\ dir \in BOOLEAN /\ claim \in {"present", "deleted"} /\ pv \in PVs
  /\ late \in BOOLEAN /\ faults \in 0..MaxFaults /\ lost \in BOOLEAN

\* What a replica relies on after it has seen its pod succeed.
HasDone(r, kind) == op[r].kind = kind /\ op[r].pc \in {"exitOk", "write"}

(***************************************************************************)
(* No replica reclaims a volume before its PV was released: neither what   *)
(* it has seen nor a cleanup pod can be ahead of the PV.  The PV is        *)
(* released only after the claim is deleted.                               *)
(***************************************************************************)
CacheIsBehind ==
  /\ claim = "present" =>
       /\ pv \in {"none", "bound"}
       /\ \A r \in ReplicaSet : seen[r] \in {"none", "bound"}
  /\ pv = "none" => \A r \in ReplicaSet : seen[r] = "none"
  /\ pv = "none" \/ claim = "present" =>
       /\ \A r \in ReplicaSet : op[r].kind = "init"
       /\ pod["cleanup"].phase = "None"

PodsReport == \A k \in Kinds : pod[k].phase = "Succeeded" => pod[k].ran

\* As long as there is a claim, what an init pod has made is still there.
InitIsDone ==
  claim = "present" =>
    /\ pod["init"].phase # "None" /\ pod["init"].ran => dir
    /\ \A r \in ReplicaSet : HasDone(r, "init") => dir
    /\ pv = "bound" => dir

\* Without a late init pod, what a cleanup pod has removed stays away.
CleanupIsDone ==
  ~late =>
    /\ pod["cleanup"].phase # "None" /\ pod["cleanup"].ran => ~dir
    /\ \A r \in ReplicaSet : HasDone(r, "cleanup") => ~dir
    /\ pv = "gone" => ~dir

(***************************************************************************)
(* With leader election only the leader works; when there is a PV it knows *)
(* of one, so that no init pod of it, or of one it took over from, is      *)
(* still to run.                                                           *)
(***************************************************************************)
LeaderKnows ==
  isLeaderElectionEnabled =>
    /\ ~late
    /\ \A r \in ReplicaSet : op[r].pc # "idle" => r = leader
    /\ HasDone(leader, "init") => pod["init"].phase # "Running"
    /\ pv # "none" =>
         /\ seen[leader] # "none"
         /\ op[leader].pc # "idle" => op[leader].kind = "cleanup"
         /\ pod["init"].phase # "Running"

Inv == TypeOK /\ CacheIsBehind /\ PodsReport /\ InitIsDone /\ CleanupIsDone /\ LeaderKnows
-------------------------------------------------------------------------------
USE ReplicasAssumption

\* The constructors keep to the types.
LEMMA Constructors ==
  /\ NoPod \in PodType /\ NewPod \in PodType /\ Idle \in CallType
  /\ \A x, y \in BOOLEAN : Pod("Running", x, y) \in PodType /\ Pod("Succeeded", x, y) \in PodType
  /\ \A s \in Steps, k \in Kinds : At(s, k) \in CallType
BY DEF PodType, CallType, NoPod, NewPod, Idle, Pod, At, Steps, Kinds

(***************************************************************************)
(* Every variable keeps its type.                                          *)
(***************************************************************************)
LEMMA InitType == Init => TypeOK
<1>1. Idle \in CallType /\ NoPod \in PodType
  BY Constructors
<1>2. Init => dir \in BOOLEAN /\ late \in BOOLEAN /\ lost \in BOOLEAN
  BY Zenon DEF Init
<1>3. Init => op \in [ReplicaSet -> CallType] /\ pod \in [Kinds -> PodType]
  BY <1>1 DEF Init
<1>4. Init => faults \in 0..MaxFaults
  BY DEF Init
<1> QED BY <1>2, <1>3, <1>4 DEF Init, TypeOK, PVs

LEMMA NextType == TypeOK /\ [Next]_vars => TypeOK'
<1> SUFFICES ASSUME TypeOK, [Next]_vars PROVE TypeOK'
  OBVIOUS
<1> USE DEF TypeOK
<1>i. Idle \in CallType /\ NoPod \in PodType /\ NewPod \in PodType
  BY Constructors
<1>s. ASSUME NEW s \in Steps, NEW k \in Kinds PROVE At(s, k) \in CallType
  BY Constructors
<1>k. ASSUME NEW r \in ReplicaSet PROVE op[r].kind \in Kinds
  BY DEF CallType
<1>f. ASSUME NEW e \in BOOLEAN, Fault(e) PROVE faults' \in 0..MaxFaults /\ lost' \in BOOLEAN
  BY <1>f DEF Fault
<1>d. ASSUME NEW k \in Kinds PROVE DeletePod(k) => pod' \in [Kinds -> PodType]
  <2>1. pod[k].ran \in BOOLEAN
    BY DEF PodType
  <2>2. Pod("Running", pod[k].ran, TRUE) \in PodType
    BY <2>1, Constructors
  <2> QED BY <1>i, <2>2 DEF DeletePod
<1>1. ASSUME NEW r \in ReplicaSet, Provision(r) \/ Delete(r) PROVE TypeOK'
  <2>1. op' \in [ReplicaSet -> CallType]
    BY <1>1, <1>s DEF Provision, Delete, Start, Steps, Kinds
  <2> QED BY <1>1, <2>1 DEF Provision, Delete, Start
<1>2. ASSUME NEW r \in ReplicaSet, LaunchPod(r) PROVE TypeOK'
  BY <1>2, <1>i, <1>s, <1>k DEF LaunchPod, Steps
<1>3. ASSUME NEW r \in ReplicaSet, LaunchFails(r) PROVE TypeOK'
  <2>1. pod' \in [Kinds -> PodType] /\ faults' \in 0..MaxFaults /\ lost' \in BOOLEAN
    BY <1>3, <1>i, <1>k, <1>f DEF LaunchFails
  <2> QED BY <1>3, <1>i, <2>1 DEF LaunchFails
<1>4. ASSUME NEW r \in ReplicaSet, Poll(r) PROVE TypeOK'
  <2>1. op' \in [ReplicaSet -> CallType]
    BY <1>4, <1>s, <1>k DEF Poll, Steps
  <2> QED BY <1>4, <2>1 DEF Poll
<1>5. ASSUME NEW r \in ReplicaSet, GiveUp(r) PROVE TypeOK'
  <2>1. op' \in [ReplicaSet -> CallType]
    BY <1>5, <1>s, <1>k DEF GiveUp, Steps
  <2> QED BY <1>5, <1>f, <2>1 DEF GiveUp
<1>6. ASSUME NEW r \in ReplicaSet, ExitPod(r) PROVE TypeOK'
  <2>1. op' \in [ReplicaSet -> CallType]
    BY <1>6, <1>i, <1>s, <1>k DEF ExitPod, Return, Steps
  <2> QED BY <1>6, <1>d, <1>k, <2>1 DEF ExitPod
<1>7. ASSUME NEW r \in ReplicaSet, Write(r) PROVE TypeOK'
  <2>1. pv' \in PVs
    BY <1>7 DEF Write, PVs
  <2> QED BY <1>7, <1>i, <2>1 DEF Write
<1>8. ASSUME NEW r \in ReplicaSet, Sync(r) PROVE TypeOK'
  BY <1>8 DEF Sync
<1>9. ASSUME NEW r \in ReplicaSet, TakeOver(r) PROVE TypeOK'
  BY <1>9, <1>i, <1>f DEF TakeOver
<1>10. ASSUME NEW k \in Kinds, Execute(k) PROVE TypeOK'
  <2>1. pod[k].deleted \in BOOLEAN
    BY DEF PodType
  <2>2. Pod("Running", TRUE, pod[k].deleted) \in PodType
    BY <2>1, Constructors
  <2> QED BY <1>10, <2>2 DEF Execute
<1>11. ASSUME NEW k \in Kinds, Report(k) PROVE TypeOK'
  <2>1. Pod("Succeeded", TRUE, FALSE) \in PodType
    BY Constructors
  <2> QED BY <1>11, <1>i, <2>1 DEF Report
<1>12. ASSUME NEW k \in Kinds, RemovePod(k) PROVE TypeOK'
  BY <1>12, <1>d, <1>f DEF RemovePod
<1>13. CASE DeleteClaim \/ ReleasePV \/ UNCHANGED vars
  BY <1>13 DEF DeleteClaim, ReleasePV, vars, PVs
<1> QED
  BY <1>1, <1>2, <1>3, <1>4, <1>5, <1>6, <1>7, <1>8, <1>9, <1>10, <1>11, <1>12, <1>13
  DEF Next, Work

-------------------------------------------------------------------------------
(***************************************************************************)
(* The invariant, one action at a time.                                    *)
(***************************************************************************)
LEMMA InitInv == Init => Inv
<1> SUFFICES ASSUME Init PROVE Inv
  OBVIOUS
<1>1. TypeOK
  BY InitType
<1> QED
  BY <1>1 DEF Init, Inv, CacheIsBehind, PodsReport, InitIsDone, CleanupIsDone, LeaderKnows, HasDone,
              Kinds, Pod, NoPod, At, Idle

\* Inv without the types.
Parts == CacheIsBehind /\ PodsReport /\ InitIsDone /\ CleanupIsDone /\ LeaderKnows

LEMMA StartInv ==
  ASSUME Inv, NEW r \in ReplicaSet, Provision(r) \/ Delete(r)
  PROVE  Parts'
<1> USE DEF Inv, TypeOK
<1>1. PICK k \in Kinds : /\ op' = [op EXCEPT ![r] = At("launch", k)] /\ MayWork(r)
                         /\ k = "cleanup" => seen[r] = "released"
                         /\ k = "init" => seen[r] = "none"
  BY DEF Provision, Delete, Start, Kinds
<1>2. UNCHANGED <<election, leader, seen, pod, dir, claim, pv, late, faults, lost>>
  BY DEF Provision, Delete, Start
<1>3. CacheIsBehind'
  BY <1>1, <1>2 DEF CacheIsBehind, At, Kinds
<1>4. PodsReport'
  BY <1>2 DEF PodsReport
<1>5. InitIsDone' /\ CleanupIsDone'
  BY <1>1, <1>2 DEF InitIsDone, CleanupIsDone, HasDone, At
<1>6. LeaderKnows'
  BY <1>1, <1>2 DEF LeaderKnows, HasDone, At, MayWork, isLeaderElectionEnabled, Kinds
<1> QED BY <1>3, <1>4, <1>5, <1>6 DEF Parts

LEMMA LaunchInv ==
  ASSUME Inv, NEW r \in ReplicaSet, LaunchPod(r) \/ LaunchFails(r)
  PROVE  Parts'
<1> USE DEF Inv, TypeOK
<1>0. op[r].kind \in Kinds
  BY DEF CallType
<1>1. /\ op[r].pc = "launch"
      /\ op' = [op EXCEPT ![r] = Idle] \/ op' = [op EXCEPT ![r] = At("poll", op[r].kind)]
      /\ pod' = pod \/ pod' = [pod EXCEPT ![op[r].kind] = NewPod]
      /\ UNCHANGED <<election, leader, seen, dir, claim, pv, late>>
  BY DEF LaunchPod, LaunchFails
<1>3. CacheIsBehind'
  BY <1>0, <1>1 DEF CacheIsBehind, At, Idle, Kinds, NewPod, Pod
<1>4. PodsReport'
  BY <1>0, <1>1 DEF PodsReport, NewPod, Pod
<1>5. InitIsDone' /\ CleanupIsDone'
  BY <1>0, <1>1 DEF InitIsDone, CleanupIsDone, HasDone, At, Idle, NewPod, Pod, Kinds
<1>6. LeaderKnows'
  BY <1>0, <1>1 DEF LeaderKnows, HasDone, At, Idle, NewPod, Pod, Kinds, isLeaderElectionEnabled
<1> QED BY <1>3, <1>4, <1>5, <1>6 DEF Parts

LEMMA PollInv ==
  ASSUME Inv, NEW r \in ReplicaSet, Poll(r) \/ GiveUp(r)
  PROVE  Parts'
<1> USE DEF Inv, TypeOK
<1>0. op[r].kind \in Kinds
  BY DEF CallType
<1>1. /\ op[r].pc = "poll"
      /\ \/ op' = [op EXCEPT ![r] = At("exitErr", op[r].kind)]
         \/ /\ op' = [op EXCEPT ![r] = At("exitOk", op[r].kind)]
            /\ pod[op[r].kind].phase = "Succeeded" /\ pod[op[r].kind].ran
      /\ UNCHANGED <<election, leader, seen, pod, dir, claim, pv, late>>
  BY <1>0 DEF Poll, GiveUp, PodsReport
<1>3. CacheIsBehind'
  BY <1>0, <1>1 DEF CacheIsBehind, At
<1>4. PodsReport'
  BY <1>0, <1>1 DEF PodsReport
<1>5. InitIsDone' /\ CleanupIsDone'
  BY <1>0, <1>1 DEF InitIsDone, CleanupIsDone, HasDone, At, Kinds
<1>6. LeaderKnows'
  BY <1>0, <1>1 DEF LeaderKnows, HasDone, At, Kinds, isLeaderElectionEnabled
<1> QED BY <1>3, <1>4, <1>5, <1>6 DEF Parts

\* Deleting a pod, by exitPod or by somebody else.
LEMMA DeletePodInv ==
  ASSUME Inv, NEW k \in Kinds, DeletePod(k)
  PROVE  /\ pod["cleanup"].phase = "None" => pod'["cleanup"].phase = "None"
         /\ \A j \in Kinds : pod'[j].phase # "Succeeded" \/ pod'[j] = pod[j]
         /\ \A j \in Kinds : pod'[j].phase = "Running" => pod[j].phase = "Running"
         /\ \A j \in Kinds : pod'[j].phase # "None" /\ pod'[j].ran =>
                              pod[j].phase # "None" /\ pod[j].ran
BY DEF Inv, TypeOK, DeletePod, Pod, NoPod, Kinds

LEMMA ExitPodInv ==
  ASSUME Inv, NEW r \in ReplicaSet, ExitPod(r)
  PROVE  Parts'
<1> USE DEF Inv, TypeOK
<1>0. op[r].kind \in Kinds
  BY DEF CallType
<1>1. /\ op[r].pc \in {"exitOk", "exitErr"}
      /\ \/ op' = [op EXCEPT ![r] = Idle]
         \/ op[r].pc = "exitOk" /\ op' = [op EXCEPT ![r] = At("write", op[r].kind)]
      /\ UNCHANGED <<election, leader, seen, dir, claim, pv, late>>
  BY <1>0 DEF ExitPod, Return
<1>2. DeletePod(op[r].kind)
  BY DEF ExitPod
<1>3. CacheIsBehind'
  BY <1>0, <1>1, <1>2, DeletePodInv DEF CacheIsBehind, At, Idle
<1>4. PodsReport'
  BY <1>0, <1>2, DeletePodInv DEF PodsReport
<1>5. InitIsDone'
  BY <1>0, <1>1, <1>2, DeletePodInv DEF InitIsDone, HasDone, At, Idle, Kinds
<1>7. CleanupIsDone'
  BY <1>0, <1>1, <1>2, DeletePodInv DEF CleanupIsDone, HasDone, At, Idle, Kinds
<1>6. LeaderKnows'
  BY <1>0, <1>1, <1>2, DeletePodInv DEF LeaderKnows, HasDone, At, Idle, Kinds,
                                            isLeaderElectionEnabled
<1> QED BY <1>3, <1>4, <1>5, <1>6, <1>7 DEF Parts

LEMMA WriteInv ==
  ASSUME Inv, NEW r \in ReplicaSet, Write(r)
  PROVE  Parts'
<1> USE DEF Inv, TypeOK
<1>0. op[r].kind \in Kinds
  BY DEF CallType
<1>1. /\ op[r].pc = "write"
      /\ op' = [op EXCEPT ![r] = Idle] /\ seen' = [seen EXCEPT ![r] = pv']
      /\ UNCHANGED <<election, leader, pod, dir, claim, late>>
  BY DEF Write
<1>2. \/ op[r].kind = "init" /\ pv' \in {pv, "bound"} /\ pv' # "none" /\ pv' # "gone"
      \/ op[r].kind = "cleanup" /\ pv' = "gone"
  BY <1>0 DEF Write, PVs, Kinds
<1>3. CacheIsBehind'
  BY <1>1, <1>2 DEF CacheIsBehind, At, Idle
<1>4. PodsReport'
  BY <1>1 DEF PodsReport
<1>5. InitIsDone' /\ CleanupIsDone'
  BY <1>1, <1>2 DEF InitIsDone, CleanupIsDone, HasDone, At, Idle, CacheIsBehind
<1>6. LeaderKnows'
  <2> SUFFICES ASSUME isLeaderElectionEnabled PROVE LeaderKnows'
    BY <1>1 DEF LeaderKnows, isLeaderElectionEnabled
  <2>1. r = leader
    BY <1>1 DEF LeaderKnows
  <2>2. op'[leader].pc = "idle" /\ seen'[leader] # "none"
    BY <1>1, <1>2, <2>1 DEF At, Idle
  <2>3. pod["init"].phase # "Running"
    BY <1>1, <1>2, <2>1 DEF LeaderKnows, HasDone, CacheIsBehind
  <2>4. \A q \in ReplicaSet : op'[q].pc # "idle" => q = leader
    BY <1>1 DEF LeaderKnows, At, Idle
  <2> QED BY <1>1, <2>2, <2>3, <2>4 DEF LeaderKnows, HasDone
<1> QED BY <1>3, <1>4, <1>5, <1>6 DEF Parts

\* Caches catch up and replicas take over: no object changes.
LEMMA ReplicaInv ==
  ASSUME Inv, NEW r \in ReplicaSet, Sync(r) \/ TakeOver(r)
  PROVE  Parts'
<1> USE DEF Inv, TypeOK
<1>1. /\ UNCHANGED <<election, pod, dir, claim, pv, late>>
      /\ \A q \in ReplicaSet : op'[q] = op[q] \/ op'[q] = Idle
      /\ \A q \in ReplicaSet : seen'[q] = seen[q] \/ seen'[q] = pv
      /\ \/ leader' = leader
         \/ isLeaderElectionEnabled /\ op'[leader] = Idle /\ leader' \in ReplicaSet /\ seen'[leader'] = pv
  BY DEF Sync, TakeOver
<1>3. CacheIsBehind'
  BY <1>1 DEF CacheIsBehind, At, Idle
<1>4. PodsReport'
  BY <1>1 DEF PodsReport
<1>5. InitIsDone' /\ CleanupIsDone'
  BY <1>1 DEF InitIsDone, CleanupIsDone, HasDone, At, Idle
<1>6. LeaderKnows'
  BY <1>1 DEF LeaderKnows, HasDone, At, Idle, isLeaderElectionEnabled
<1> QED BY <1>3, <1>4, <1>5, <1>6 DEF Parts

LEMMA ExecuteInv ==
  ASSUME Inv, NEW k \in Kinds, Execute(k)
  PROVE  Parts'
<1> USE DEF Inv, TypeOK, Execute
<1>3. CacheIsBehind'
  BY DEF CacheIsBehind, Kinds, Pod
<1>4. PodsReport'
  BY DEF PodsReport, Pod
<1>5. InitIsDone'
  BY DEF InitIsDone, CacheIsBehind, HasDone, Kinds, Pod
<1>6. CleanupIsDone'
  BY DEF CleanupIsDone, CacheIsBehind, HasDone, Kinds, Pod
<1>7. LeaderKnows'
  BY DEF LeaderKnows, HasDone, Pod, Kinds, isLeaderElectionEnabled
<1> QED BY <1>3, <1>4, <1>5, <1>6, <1>7 DEF Parts

\* The pods change, and nothing runs.
LEMMA PodInv ==
  ASSUME Inv, NEW k \in Kinds, Report(k) \/ RemovePod(k)
  PROVE  Parts'
<1> USE DEF Inv, TypeOK
<1>1. UNCHANGED <<election, leader, seen, op, dir, claim, pv, late>>
  BY DEF Report, RemovePod
<1>2. /\ pod["cleanup"].phase = "None" => pod'["cleanup"].phase = "None"
      /\ \A j \in Kinds : pod'[j].phase = "Succeeded" => pod'[j].ran
      /\ \A j \in Kinds : pod'[j].phase = "Running" => pod[j].phase = "Running"
      /\ \A j \in Kinds : pod'[j].phase # "None" /\ pod'[j].ran => pod[j].phase # "None" /\ pod[j].ran
  <2>1. CASE Report(k)
    BY <2>1 DEF Report, Pod, NoPod, Kinds, PodsReport
  <2>2. CASE RemovePod(k)
    BY <2>2, DeletePodInv DEF RemovePod, PodsReport, DeletePod, Pod, NoPod, Kinds
  <2> QED BY <2>1, <2>2
<1>3. CacheIsBehind'
  BY <1>1, <1>2 DEF CacheIsBehind
<1>4. PodsReport'
  BY <1>2 DEF PodsReport
<1>5. InitIsDone' /\ CleanupIsDone'
  BY <1>1, <1>2 DEF InitIsDone, CleanupIsDone, HasDone, Kinds
<1>6. LeaderKnows'
  BY <1>1, <1>2 DEF LeaderKnows, HasDone, isLeaderElectionEnabled, Kinds
<1> QED BY <1>3, <1>4, <1>5, <1>6 DEF Parts

LEMMA NextInv == Inv /\ [Next]_vars => Inv'
<1> SUFFICES ASSUME Inv, [Next]_vars PROVE Inv'
  OBVIOUS
<1>1. TypeOK'
  BY NextType DEF Inv
<1>2. CASE DeleteClaim
  <2>1. pv \in PVs
    BY DEF Inv, TypeOK
  <2> QED
  BY <1>1, <1>2, <2>1 DEF DeleteClaim, Inv, CacheIsBehind, PodsReport, InitIsDone, CleanupIsDone,
          LeaderKnows, HasDone, isLeaderElectionEnabled
<1>3. CASE ReleasePV
  BY <1>1, <1>3 DEF ReleasePV, Inv, CacheIsBehind, PodsReport, InitIsDone, CleanupIsDone,
          LeaderKnows, HasDone, isLeaderElectionEnabled
<1>4. CASE UNCHANGED vars
  BY <1>1, <1>4 DEF vars, Inv, CacheIsBehind, PodsReport, InitIsDone, CleanupIsDone,
          LeaderKnows, HasDone, isLeaderElectionEnabled
<1>5. Parts' => Inv'
  BY <1>1 DEF Parts, Inv
<1> QED
  BY <1>2, <1>3, <1>4, <1>5, StartInv, LaunchInv, PollInv, ExitPodInv, WriteInv, ReplicaInv,
     ExecuteInv, PodInv DEF Next, Work

(***************************************************************************)
(* Inv holds always.                                                       *)
(***************************************************************************)
THEOREM Invariance == Spec => []Inv
BY InitInv, NextInv, PTL DEF Spec

-------------------------------------------------------------------------------
(***************************************************************************)
(* A PV whose claim exists has its directory, however many replicas create,*)
(* see and delete each other's helper pods under the same names.           *)
(***************************************************************************)
THEOREM DirectoryInService == Spec => []InServiceHasDirectory
<1>1. Inv => InServiceHasDirectory
  BY DEF Inv, InitIsDone, InServiceHasDirectory
<1> QED BY <1>1, Invariance, PTL

(***************************************************************************)
(* Replicas that reclaim the same PV never drop it before its directory: a *)
(* directory without a PV is the work of an init pod that ran late.        *)
(***************************************************************************)
THEOREM StrayIsLateInit == Spec => []StrayOnlyByLateInit
<1>1. Inv => StrayOnlyByLateInit
  BY DEF Inv, CleanupIsDone, StrayOnlyByLateInit
<1> QED BY <1>1, Invariance, PTL

(***************************************************************************)
(* With leader election no init pod runs late, so that nothing is left of  *)
(* a volume whose PV is gone, whenever the leader is replaced.             *)
(***************************************************************************)
THEOREM LeaderReclaims == Spec => []ReclaimLeavesNothing
<1>1. Inv => ReclaimLeavesNothing
  BY DEF Inv, CleanupIsDone, LeaderKnows, isLeaderElectionEnabled, ReclaimLeavesNothing
<1> QED BY <1>1, Invariance, PTL

-------------------------------------------------------------------------------
(***************************************************************************)
(* With leader election several replicas keep the promise of one: what     *)
(* VolumeLifecycle says, of one volume that is to be deleted.              *)
(***************************************************************************)
OneVolume == {"volume"}

DataOf(d) == [v \in OneVolume |-> IF d THEN "present" ELSE "absent"]

StatusOf(p) ==
  [v \in OneVolume |-> CASE p = "none" -> "None"
                        [] p = "bound" -> "Bound"
                        [] p = "released" -> "Released"
                        [] OTHER -> "Gone"]

Lifecycle ==
  INSTANCE VolumeLifecycle WITH Volumes <- OneVolume, Policy <- [v \in OneVolume |-> "Delete"],
                                data <- DataOf(dir), status <- StatusOf(pv)

(***************************************************************************)
(* With leader election a PV that is gone does not come back, so that no   *)
(* replica reclaims before there was a PV that was released; until then    *)
(* what an init pod has made is there, also without the claim.             *)
(***************************************************************************)
InOrder ==
  isLeaderElectionEnabled =>
    /\ pv \in {"none", "bound"} =>
         /\ pod["cleanup"].phase = "None"
         /\ \A r \in ReplicaSet : op[r].kind = "init" /\ seen[r] \in {"none", "bound"}
    /\ pv = "none" =>
         /\ pod["init"].phase # "None" /\ pod["init"].ran => dir
         /\ HasDone(leader, "init") => dir

\* The setting of leader election does not change.
LEMMA ElectionStays == [Next]_vars => election' = election
BY DEF Next, Work, Provision, Delete, Start, LaunchPod, LaunchFails, Poll, GiveUp, ExitPod, Write,
       Sync, TakeOver, Execute, Report, RemovePod, DeleteClaim, ReleasePV, vars

\* InOrder is kept, one action at a time.
LEMMA InOrderStep == Inv /\ InOrder /\ [Next]_vars => InOrder'
<1> SUFFICES ASSUME Inv, InOrder, [Next]_vars, isLeaderElectionEnabled PROVE InOrder'
  BY ElectionStays DEF InOrder, isLeaderElectionEnabled
<1> USE DEF Inv, TypeOK, HasDone
<1>0. \A r \in ReplicaSet : op[r].kind \in Kinds
  BY DEF CallType
<1>1. ASSUME NEW r \in ReplicaSet, Provision(r) \/ Delete(r) PROVE InOrder'
  <2>1. PICK k \in Kinds : /\ op' = [op EXCEPT ![r] = At("launch", k)]
                           /\ k = "cleanup" => seen[r] = "released"
    BY <1>1 DEF Provision, Delete, Start, Kinds
  <2>2. UNCHANGED <<election, leader, seen, pod, dir, pv>>
    BY <1>1 DEF Provision, Delete, Start
  <2> QED BY <2>1, <2>2 DEF InOrder, At, Kinds, isLeaderElectionEnabled
<1>2. ASSUME NEW r \in ReplicaSet, LaunchPod(r) \/ LaunchFails(r) PROVE InOrder'
  <2>1. /\ op' = [op EXCEPT ![r] = Idle] \/ op' = [op EXCEPT ![r] = At("poll", op[r].kind)]
        /\ pod' = pod \/ pod' = [pod EXCEPT ![op[r].kind] = NewPod]
        /\ UNCHANGED <<election, leader, seen, dir, pv>>
    BY <1>2 DEF LaunchPod, LaunchFails
  <2> QED BY <1>0, <2>1 DEF InOrder, At, Idle, Kinds, NewPod, Pod, isLeaderElectionEnabled
<1>3. ASSUME NEW r \in ReplicaSet, Poll(r) \/ GiveUp(r) PROVE InOrder'
  <2>1. /\ \/ op' = [op EXCEPT ![r] = At("exitErr", op[r].kind)]
           \/ /\ op' = [op EXCEPT ![r] = At("exitOk", op[r].kind)]
              /\ pod[op[r].kind].phase = "Succeeded" /\ pod[op[r].kind].ran
        /\ UNCHANGED <<election, leader, seen, pod, dir, pv>>
    BY <1>0, <1>3 DEF Poll, GiveUp, PodsReport
  <2> QED BY <1>0, <2>1 DEF InOrder, At, Kinds, isLeaderElectionEnabled
<1>4. ASSUME NEW r \in ReplicaSet, ExitPod(r) PROVE InOrder'
  <2>1. /\ \/ op' = [op EXCEPT ![r] = Idle]
           \/ op[r].pc = "exitOk" /\ op' = [op EXCEPT ![r] = At("write", op[r].kind)]
        /\ UNCHANGED <<election, leader, seen, dir, pv>>
    BY <1>4 DEF ExitPod, Return
  <2>2. DeletePod(op[r].kind)
    BY <1>4 DEF ExitPod
  <2> QED BY <1>0, <2>1, <2>2, DeletePodInv DEF InOrder, At, Idle, Kinds, isLeaderElectionEnabled
<1>5. ASSUME NEW r \in ReplicaSet, Write(r) PROVE InOrder'
  <2>1. /\ op[r].pc = "write" /\ op' = [op EXCEPT ![r] = Idle] /\ seen' = [seen EXCEPT ![r] = pv']
        /\ UNCHANGED <<election, leader, pod, dir>>
    BY <1>5 DEF Write
  <2>2. r = leader /\ (op[r].kind = "init" => pv = "none")
    BY <1>0, <2>1 DEF LeaderKnows
  <2>3. (op[r].kind = "init" /\ pv = "none" /\ pv' = "bound") \/ pv' = "gone"
    BY <1>0, <1>5, <2>2 DEF Write, Kinds
  <2> QED BY <2>1, <2>3 DEF InOrder, At, Idle, isLeaderElectionEnabled
<1>6. ASSUME NEW r \in ReplicaSet, Sync(r) \/ TakeOver(r) PROVE InOrder'
  <2>1. /\ UNCHANGED <<election, pod, dir, pv>>
        /\ \A q \in ReplicaSet : op'[q] = op[q] \/ op'[q] = Idle
        /\ \A q \in ReplicaSet : seen'[q] = seen[q] \/ seen'[q] = pv
        /\ leader' \in ReplicaSet
    BY <1>6 DEF Sync, TakeOver
  <2>2. leader' # leader => op[leader'].pc = "idle"
    BY <2>1 DEF LeaderKnows
  <2> QED BY <2>1, <2>2 DEF InOrder, At, Idle, isLeaderElectionEnabled
<1>7. ASSUME NEW k \in Kinds, Execute(k) PROVE InOrder'
  BY <1>7 DEF Execute, InOrder, Kinds, Pod, isLeaderElectionEnabled
<1>8. ASSUME NEW k \in Kinds, Report(k) \/ RemovePod(k) PROVE InOrder'
  <2>1. UNCHANGED <<election, leader, seen, op, dir, pv>>
    BY <1>8 DEF Report, RemovePod
  <2>2. /\ pod["cleanup"].phase = "None" => pod'["cleanup"].phase = "None"
        /\ pod'["init"].phase # "None" /\ pod'["init"].ran => pod["init"].phase # "None" /\ pod["init"].ran
    <3>1. CASE Report(k)
      BY <3>1 DEF Report, Pod, NoPod, Kinds
    <3>2. CASE RemovePod(k)
      BY <3>2, DeletePodInv DEF RemovePod, Kinds
    <3> QED BY <1>8, <3>1, <3>2
  <2> QED BY <2>1, <2>2 DEF InOrder, isLeaderElectionEnabled
<1>9. CASE DeleteClaim \/ ReleasePV \/ UNCHANGED vars
  BY <1>9 DEF DeleteClaim, ReleasePV, vars, InOrder, isLeaderElectionEnabled
<1> QED BY <1>1, <1>2, <1>3, <1>4, <1>5, <1>6, <1>7, <1>8, <1>9 DEF Next, Work

\* The steps that the directory and the PV show.
Visible ==
  \/ pv = "none" /\ dir' = TRUE /\ pv' = pv
  \/ pv = "none" /\ dir = TRUE /\ pv' = "bound" /\ dir' = dir
  \/ pv = "bound" /\ pv' = "released" /\ dir' = dir
  \/ pv = "released" /\ dir' = FALSE /\ pv' = pv
  \/ pv = "released" /\ dir = FALSE /\ pv' = "gone" /\ dir' = dir

\* With leader election every other step changes neither.
LEMMA VisibleSteps ==
  ASSUME Inv, InOrder, [Next]_vars, isLeaderElectionEnabled
  PROVE  (dir' = dir /\ pv' = pv) \/ Visible
<1> USE DEF Inv, TypeOK
<1>0. \A r \in ReplicaSet : op[r].kind \in Kinds
  BY DEF CallType
<1>1. ASSUME NEW k \in Kinds, Execute(k) PROVE (dir' = dir /\ pv' = pv) \/ Visible
  <2>1. pv' = pv /\ dir' = (k = "init") /\ pod[k].phase = "Running"
    BY <1>1 DEF Execute
  <2>2. CASE k = "init"
    <3>1. dir' = TRUE
      BY <2>1, <2>2
    <3>2. pv = "none"
      BY <2>1, <2>2 DEF LeaderKnows
    <3> QED BY <2>1, <3>1, <3>2 DEF Visible
  <2>3. CASE k = "cleanup"
    <3>1. dir' = FALSE
      BY <2>1, <2>3
    <3>2. pv \in {"released", "gone"}
      BY <2>1, <2>3 DEF InOrder, PVs
    <3>3. pv = "gone" => dir = FALSE
      BY DEF LeaderKnows, CleanupIsDone
    <3> QED BY <2>1, <3>1, <3>2, <3>3 DEF Visible
  <2> QED BY <2>2, <2>3 DEF Kinds
<1>2. ASSUME NEW r \in ReplicaSet, Write(r) PROVE (dir' = dir /\ pv' = pv) \/ Visible
  <2>1. op[r].pc = "write" /\ dir' = dir
    BY <1>2 DEF Write
  <2>2. r = leader
    BY <2>1 DEF LeaderKnows
  <2>3. CASE op[r].kind = "init"
    <3>1. pv = "none" /\ dir = TRUE
      BY <2>1, <2>2, <2>3 DEF LeaderKnows, InOrder, HasDone
    <3> QED BY <1>2, <2>1, <2>3, <3>1 DEF Write, Visible
  <2>4. CASE op[r].kind = "cleanup"
    <3>1. pv' = "gone" /\ pv \in {"released", "gone"}
      BY <1>2, <2>4 DEF Write, InOrder, PVs
    <3>2. dir = FALSE
      BY <2>1, <2>4 DEF LeaderKnows, CleanupIsDone, HasDone
    <3> QED BY <2>1, <3>1, <3>2 DEF Visible
  <2> QED BY <1>0, <2>3, <2>4 DEF Kinds
<1>3. CASE ReleasePV
  BY <1>3 DEF ReleasePV, Visible
<1>4. ASSUME NEW r \in ReplicaSet,
             \/ Provision(r) \/ Delete(r) \/ LaunchPod(r) \/ Poll(r) \/ ExitPod(r)
             \/ LaunchFails(r) \/ GiveUp(r) \/ Sync(r) \/ TakeOver(r)
      PROVE  dir' = dir /\ pv' = pv
  BY <1>4 DEF Provision, Delete, Start, LaunchPod, LaunchFails, Poll, GiveUp, ExitPod, Sync, TakeOver
<1>5. ASSUME NEW k \in Kinds, Report(k) \/ RemovePod(k) PROVE dir' = dir /\ pv' = pv
  BY <1>5 DEF Report, RemovePod
<1>6. CASE DeleteClaim \/ UNCHANGED vars
  BY <1>6 DEF DeleteClaim, vars
<1> QED BY <1>1, <1>2, <1>3, <1>4, <1>5, <1>6 DEF Next, Work

\* Each of them is a step of the lifecycle.
LEMMA VisibleRefines ==
  ASSUME Visible
  PROVE  Lifecycle!Next
<1> DEFINE v == "volume"
<1>0. v \in OneVolume /\ [w \in OneVolume |-> "Delete"][v] # "Retain"
  BY DEF OneVolume
<1>d. /\ dir = TRUE => DataOf(dir)[v] = "present"
      /\ dir = FALSE => DataOf(dir)[v] = "absent"
      /\ dir' = TRUE => DataOf(dir)' = [DataOf(dir) EXCEPT ![v] = "present"]
      /\ dir' = FALSE => DataOf(dir)' = [DataOf(dir) EXCEPT ![v] = "absent"]
      /\ dir' = dir => DataOf(dir)' = DataOf(dir)
  <2>1. dir = TRUE => DataOf(dir)[v] = "present"
    BY DEF DataOf, OneVolume
  <2>2. dir = FALSE => DataOf(dir)[v] = "absent"
    BY DEF DataOf, OneVolume
  <2>3. dir' = TRUE => DataOf(dir)' = [DataOf(dir) EXCEPT ![v] = "present"]
    BY DEF DataOf, OneVolume
  <2>4. dir' = FALSE => DataOf(dir)' = [DataOf(dir) EXCEPT ![v] = "absent"]
    BY DEF DataOf, OneVolume
  <2>5. dir' = dir => DataOf(dir)' = DataOf(dir)
    BY DEF DataOf, OneVolume
  <2> QED BY <2>1, <2>2, <2>3, <2>4, <2>5
<1>s. ASSUME NEW p, NEW q PROVE StatusOf(q) = [StatusOf(p) EXCEPT ![v] = StatusOf(q)[v]]
  BY DEF StatusOf, OneVolume
<1>v. /\ StatusOf("none")[v] = "None" /\ StatusOf("bound")[v] = "Bound"
      /\ StatusOf("released")[v] = "Released" /\ StatusOf("gone")[v] = "Gone"
  BY DEF StatusOf, OneVolume
<1>1. CASE pv = "none" /\ dir' = TRUE /\ pv' = pv
  <2>1. Lifecycle!Prepare(v)
    BY <1>1, <1>d, <1>v DEF Lifecycle!Prepare
  <2> QED BY <1>0, <2>1 DEF Lifecycle!Next
<1>2. CASE pv = "none" /\ dir = TRUE /\ pv' = "bound" /\ dir' = dir
  <2>1. DataOf(dir)[v] = "present" /\ DataOf(dir)' = DataOf(dir)
    BY <1>2, <1>d
  <2>2. StatusOf(pv)[v] = "None" /\ StatusOf(pv)' = [StatusOf(pv) EXCEPT ![v] = "Bound"]
    BY <1>2, <1>s, <1>v
  <2>3. Lifecycle!Publish(v)
    BY <2>1, <2>2 DEF Lifecycle!Publish
  <2> QED BY <1>0, <2>3 DEF Lifecycle!Next
<1>3. CASE pv = "bound" /\ pv' = "released" /\ dir' = dir
  <2>1. Lifecycle!Release(v)
    BY <1>3, <1>s, <1>v DEF Lifecycle!Release
  <2> QED BY <1>0, <2>1 DEF Lifecycle!Next
<1>4. CASE pv = "released" /\ dir' = FALSE /\ pv' = pv
  <2>1. Lifecycle!Erase(v)
    BY <1>0, <1>4, <1>d, <1>v DEF Lifecycle!Erase
  <2> QED BY <1>0, <2>1 DEF Lifecycle!Next
<1>5. CASE pv = "released" /\ dir = FALSE /\ pv' = "gone" /\ dir' = dir
  <2>1. Lifecycle!Retire(v)
    BY <1>0, <1>5, <1>d, <1>s, <1>v DEF Lifecycle!Retire
  <2> QED BY <1>0, <2>1 DEF Lifecycle!Next
<1> QED BY <1>1, <1>2, <1>3, <1>4, <1>5 DEF Visible

(***************************************************************************)
(* With leader election any number of replicas, with a take-over at any    *)
(* moment and any faults, implement the volume lifecycle that HostPath     *)
(* implements for one process: a PV is published over a directory, which   *)
(* stays until it is released, and goes after it.                          *)
(***************************************************************************)
THEOREM ReplicasRefineLifecycle == Spec /\ isLeaderElectionEnabled => Lifecycle!Spec
<1>1. Init => Lifecycle!Init /\ InOrder
  BY DEF Init, Lifecycle!Init, DataOf, StatusOf, InOrder, At, Idle, NoPod, Pod, Kinds, HasDone
<1>2. isLeaderElectionEnabled /\ [Next]_vars => isLeaderElectionEnabled'
  BY ElectionStays DEF isLeaderElectionEnabled
<1>3. Inv /\ InOrder /\ [Next]_vars => InOrder'
  BY InOrderStep
<1>4. Inv /\ InOrder /\ [Next]_vars /\ isLeaderElectionEnabled => [Lifecycle!Next]_(Lifecycle!vars)
  <2> SUFFICES ASSUME Inv, InOrder, [Next]_vars, isLeaderElectionEnabled
               PROVE  Lifecycle!Next \/ Lifecycle!vars' = Lifecycle!vars
    OBVIOUS
  <2>1. CASE dir' = dir /\ pv' = pv
    BY <2>1 DEF Lifecycle!vars
  <2>2. CASE Visible
    BY <2>2, VisibleRefines
  <2> QED BY <2>1, <2>2, VisibleSteps
<1> QED BY <1>1, <1>2, <1>3, <1>4, Invariance, PTL DEF Spec, Lifecycle!Spec
===============================================================================
