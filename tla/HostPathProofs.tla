---------------------------- MODULE HostPathProofs ----------------------------
(***************************************************************************)
(* Theorems about HostPath, for every cluster, every set of volumes, every *)
(* timeout and every number of faults.                                     *)
(***************************************************************************)
EXTENDS HostPath, TLAPS

(***************************************************************************)
(* The operation of a volume and its PV agree: Provision runs only while   *)
(* there is no PV, Delete only while it is released; and every program     *)
(* counter but "idle" belongs to a helper pod.                             *)
(***************************************************************************)
OpMatchesPV(v) ==
  /\ op[v].kind \in {"init", "quota"} => pv[v].phase = "None"
  /\ op[v].kind = "cleanup" => pv[v].phase = "Released" /\ Policy[v] # "Retain"
  /\ op[v].pc # "idle" => op[v].kind # "none"
  /\ op[v].pc = "save" => op[v].kind # "cleanup"
  /\ op[v].pc = "reclaim" => op[v].kind = "cleanup"
  /\ op[v].kind = "init" => op[v].quotas = Quotas[v]
  /\ op[v].kind = "quota" => Quotas[v] > 0
  /\ op[v].kind = "init" /\ op[v].pc = "save" => Quotas[v] = 0

(***************************************************************************)
(* The pods an operation has waited for stay finished: from the moment     *)
(* exitPod sees the init pod succeed until the next attempt, and then for  *)
(* as long as there is a PV, the init pod is gone or has succeeded; the    *)
(* same for the quota pod.                                                 *)
(***************************************************************************)
InitIsOver(v) ==
  \/ op[v].kind = "quota"
  \/ op[v].pc = "save"
  \/ op[v].kind = "init" /\ op[v].pc = "exitOk"
  \/ pv[v].phase # "None"

QuotaIsOver(v) ==
  \/ op[v].pc = "save"
  \/ op[v].kind = "quota" /\ op[v].pc = "exitOk"
  \/ pv[v].phase # "None"

PodsStayFinished(v) ==
  /\ Quotas[v] = 0 => pod[<<"quota", v>>].phase = "None"
  /\ InitIsOver(v) => pod[<<"init", v>>].phase \in {"None", "Succeeded"}
  /\ QuotaIsOver(v) => pod[<<"quota", v>>].phase \in {"None", "Succeeded"}
  /\ pod[<<"cleanup", v>>].phase # "None" =>
       pv[v].phase \in {"Released", "Gone"} /\ Policy[v] # "Retain"

\* A pod that has started is on a node.
PodsHaveNodes(v) ==
  \A k \in Kinds :
    pod[<<k, v>>].phase \notin {"None", "Pending"} => pod[<<k, v>>].node \in Nodes

SafeAt(v) == OpMatchesPV(v) /\ PodsStayFinished(v) /\ PodsHaveNodes(v)

SafeInv == TypeOK /\ \A v \in Volumes : SafeAt(v)

(***************************************************************************)
(* The pods of a volume run on its selected node only, and its directory   *)
(* can be nowhere else.                                                    *)
(***************************************************************************)
Aff(v) == NodeAffinityLabels(InitLabels, v)
Home(v) == <<Selected[v], v>>

AtHome(v) ==
  /\ op[v].kind # "none" => op[v].aff = Aff(v)
  /\ pv[v].phase # "None" => pv[v].aff = Aff(v)
  /\ \A n \in Nodes : <<n, v>> \in dirs => n = Selected[v]
  /\ \A k \in Kinds :
       /\ pod[<<k, v>>].phase # "None" => pod[<<k, v>>].aff = Aff(v)
       /\ pod[<<k, v>>].phase \notin {"None", "Pending"} =>
            pod[<<k, v>>].node = Selected[v]

(***************************************************************************)
(* What a finished pod has done is still there when its operation relies   *)
(* on it.  A quota script that does not know the filesystem of the         *)
(* selected node never succeeds, and no PV comes of it.                    *)
(***************************************************************************)
Finished == {"Done", "Succeeded"}
Known(v) == Quotas[v] = 0 \/ Filesystem[Selected[v]] # "other"

NeedsDirectory(v) ==
  \/ pod[<<"init", v>>].phase \in Finished
  \/ pod[<<"quota", v>>].phase # "None"
  \/ op[v].kind = "init" /\ op[v].pc = "exitOk"
  \/ op[v].kind = "quota"
  \/ op[v].pc = "save"

NeedsLimit(v) ==
  \/ pod[<<"quota", v>>].phase \in Finished
  \/ op[v].kind = "quota" /\ op[v].pc = "exitOk"
  \/ op[v].pc = "save" /\ Quotas[v] > 0

IsCleaned(v) ==
  \/ pod[<<"cleanup", v>>].phase \in Finished
  \/ op[v].kind = "cleanup" /\ op[v].pc \in {"exitOk", "reclaim"}
  \/ pv[v].phase = "Gone"

EffectsLast(v) ==
  /\ ~Known(v) =>
       /\ pod[<<"quota", v>>].phase \notin Finished
       /\ op[v].pc # "save"
       /\ ~(op[v].kind = "quota" /\ op[v].pc = "exitOk")
       /\ pv[v].phase = "None"
  /\ Known(v) /\ pv[v].phase = "None" =>
       /\ NeedsDirectory(v) => Home(v) \in dirs
       /\ NeedsLimit(v) => Home(v) \in limited
  /\ pv[v].phase = "Bound" =>
       /\ Home(v) \in dirs
       /\ Quotas[v] > 0 => Home(v) \in limited
  /\ IsCleaned(v) => Home(v) \notin dirs

StableAt(v) == AtHome(v) /\ EffectsLast(v)

StableInv ==
  /\ SafeInv
  /\ labels = InitLabels
  /\ \A v \in Volumes : StableAt(v)

-----------------------------------------------------------------------------
(***************************************************************************)
(* Type correctness.                                                       *)
(***************************************************************************)

USE ClusterAssumption, VolumeAssumption, BoundAssumption

(***************************************************************************)
(* DELETE of a helper pod keeps the types of the pods.                     *)
(***************************************************************************)
LEMMA DeletePodType ==
  ASSUME TypeOK, NEW p \in Kinds \X Volumes, DeletePod(p)
  PROVE  /\ pod' \in [Kinds \X Volumes -> PodType]
         /\ terminating' \subseteq Kinds \X Volumes
BY DEF TypeOK, DeletePod, PodType, NoPod, Phases

(***************************************************************************)
(* A fault keeps to its bound.                                             *)
(***************************************************************************)
LEMMA FaultType ==
  ASSUME TypeOK, NEW k, Fault(k)
  PROVE  faults' \in 0..MaxFaults
BY DEF TypeOK, Fault

(***************************************************************************)
(* Every step of the specification keeps TypeOK, given that an operation   *)
(* in progress has a helper pod.                                           *)
(***************************************************************************)
LEMMA TypeStep ==
  ASSUME TypeOK, \A v \in Volumes : SafeAt(v), [Next]_vars
  PROVE  TypeOK'
<1> USE DEF TypeOK
<1>h. ASSUME NEW v \in Volumes, op[v].pc # "idle"
      PROVE  HelperPod(v) \in Kinds \X Volumes
  BY <1>h DEF SafeAt, OpMatchesPV, HelperPod, OpType
<1>o. NoOp \in OpType
  BY DEF NoOp, OpType, PCs
<1>n. ASSUME NEW v \in Volumes PROVE NewPod(v) \in PodType
  BY DEF NewPod, PodType, Phases, OpType
<1>a. ASSUME NEW v \in Volumes, NEW c \in PCs PROVE At(op[v], c) \in OpType
  BY DEF At, OpType
<1>q. ASSUME NEW v \in Volumes, op[v].quotas > 0 PROVE QuotaStep(op[v]) \in OpType
  BY <1>q DEF QuotaStep, OpType, PCs, Kinds
<1>1. ASSUME NEW v \in Volumes, LaunchPod(v) PROVE TypeOK'
  <2>1. op' \in [Volumes -> OpType]
    BY <1>1 DEF LaunchPod, At, OpType, PCs
  <2>2. pod' \in [Kinds \X Volumes -> PodType]
    BY <1>1, <1>h, <1>n DEF LaunchPod
  <2> QED BY <1>1, <2>1, <2>2 DEF LaunchPod, cluster, disk, objects
<1>2. ASSUME NEW v \in Volumes, LaunchExists(v) PROVE TypeOK'
  BY <1>2, <1>o DEF LaunchExists, cluster, disk, pods, objects
<1>3. ASSUME NEW v \in Volumes, LaunchFails(v) PROVE TypeOK'
  <2>1. pod' \in [Kinds \X Volumes -> PodType]
    BY <1>3, <1>h, <1>n DEF LaunchFails
  <2>2. faults' \in 0..MaxFaults
    BY <1>3, FaultType DEF LaunchFails
  <2> QED BY <1>3, <1>o, <2>1, <2>2 DEF LaunchFails, cluster, disk, objects
<1>4. ASSUME NEW v \in Volumes, PollEnds(v) PROVE TypeOK'
  <2>1. op' \in [Volumes -> OpType]
    BY <1>4, <1>a DEF PollEnds, PCs
  <2> QED BY <1>4, <2>1 DEF PollEnds, cluster, disk, pods, objects
<1>5. ASSUME NEW v \in Volumes, PollAgain(v) PROVE TypeOK'
  <2>1. op' \in [Volumes -> OpType]
    BY <1>5 DEF PollAgain, Polled, OpType, PCs
  <2> QED BY <1>5, <2>1 DEF PollAgain, cluster, disk, pods, objects
<1>6. ASSUME NEW v \in Volumes, PollTimeout(v) PROVE TypeOK'
  <2>1. faults' \in 0..MaxFaults
    BY <1>6, FaultType DEF PollTimeout
  <2> QED BY <1>6, <2>1 DEF PollTimeout, At, OpType, PCs, cluster, disk, pods, objects
<1>7. ASSUME NEW v \in Volumes, PollFails(v) PROVE TypeOK'
  <2>1. faults' \in 0..MaxFaults
    BY <1>7, FaultType DEF PollFails
  <2> QED BY <1>7, <2>1 DEF PollFails, At, OpType, PCs, cluster, disk, pods, objects
<1>8. ASSUME NEW v \in Volumes, NextStep(v) PROVE op' \in [Volumes -> OpType]
  BY <1>8, <1>o, <1>a, <1>q DEF NextStep, PCs
<1>9. ASSUME NEW v \in Volumes, ExitPod(v) PROVE TypeOK'
  <2>1. op[v].pc # "idle"
    BY <1>9 DEF ExitPod, NextStep
  <2> QED BY <1>8, <1>9, <1>h, <2>1, DeletePodType DEF ExitPod, cluster, disk, objects
<1>10. ASSUME NEW v \in Volumes, ExitPodFails(v) PROVE TypeOK'
  BY <1>8, <1>10, FaultType DEF ExitPodFails, cluster, disk, pods, objects
<1>11. ASSUME NEW v \in Volumes, ProvisionHostPath(v) PROVE TypeOK'
  <2>1. NodeAffinityLabels(labels, v) \subseteq LabelPairs
    BY DEF NodeAffinityLabels
  <2>2. op' \in [Volumes -> OpType]
    BY <1>11, <2>1 DEF ProvisionHostPath, OpType, PCs, Kinds
  <2> QED BY <1>11, <2>2 DEF ProvisionHostPath, cluster, disk, pods, objects
<1>12. ASSUME NEW v \in Volumes, DeleteHostPath(v) PROVE TypeOK'
  <2>1. op' \in [Volumes -> OpType]
    BY <1>12 DEF DeleteHostPath, OpType, PVType, PCs, Kinds
  <2> QED BY <1>12, <2>1 DEF DeleteHostPath, cluster, disk, pods, objects
<1>13. ASSUME NEW v \in Volumes, SavePV(v) \/ RemovePV(v) \/ ReleasePV(v) PROVE TypeOK'
  <2>1. op[v].aff \subseteq LabelPairs /\ pv[v].aff \subseteq LabelPairs
    BY DEF OpType, PVType
  <2>2. ASSUME NEW a \in SUBSET LabelPairs, NEW f \in {"Bound", "Released", "Gone"}
        PROVE  [pv EXCEPT ![v] = [phase |-> f, aff |-> a]] \in [Volumes -> PVType]
    BY DEF PVType
  <2>3. CASE SavePV(v)
    <3>1. pv' = [pv EXCEPT ![v] = [phase |-> "Bound", aff |-> op[v].aff]]
      BY <2>3 DEF SavePV
    <3>2. pv' \in [Volumes -> PVType]
      BY <2>1, <2>2, <3>1, Zenon
    <3> QED BY <2>3, <1>o, <3>2 DEF SavePV, cluster, disk, pods
  <2>4. CASE RemovePV(v)
    <3>1. pv' = [pv EXCEPT ![v] = [phase |-> "Gone", aff |-> pv[v].aff]]
      BY <2>4 DEF RemovePV
    <3>2. pv' \in [Volumes -> PVType]
      BY <2>1, <2>2, <3>1, Zenon
    <3> QED BY <2>4, <1>o, <3>2 DEF RemovePV, cluster, disk, pods
  <2>5. CASE ReleasePV(v)
    <3>1. pv' = [pv EXCEPT ![v] = [phase |-> "Released", aff |-> pv[v].aff]]
      BY <2>5 DEF ReleasePV
    <3>2. pv' \in [Volumes -> PVType]
      BY <2>1, <2>2, <3>1, Zenon
    <3> QED BY <2>5, <3>2 DEF ReleasePV, cluster, disk, pods
  <2> QED BY <1>13, <2>3, <2>4, <2>5
<1>14. ASSUME NEW v \in Volumes, DeleteClaim(v) PROVE TypeOK'
  BY <1>14 DEF DeleteClaim, cluster, disk, pods
<1>15. ASSUME Shutdown PROVE TypeOK'
  BY <1>15, <1>o, FaultType DEF Shutdown, cluster, disk, pods, objects
<1>16. ASSUME NEW p \in Kinds \X Volumes, Schedule(p) PROVE TypeOK'
  <2>1. Schedulable(p) \subseteq Nodes
    BY DEF Schedulable, NodesWithLabels
  <2>2. pod' \in [Kinds \X Volumes -> PodType]
    BY <1>16, <2>1 DEF Schedule, InPhase, PodType, Phases
  <2> QED BY <1>16, <2>2 DEF Schedule, cluster, disk, objects
<1>17. ASSUME NEW p \in Kinds \X Volumes, Execute(p) PROVE TypeOK'
  <2>1. pod' \in [Kinds \X Volumes -> PodType]
    BY <1>17 DEF Execute, InPhase, PodType, Phases
  <2>2. dirs' \subseteq Nodes \X Volumes /\ limited' \subseteq Nodes \X Volumes
    <3>1. PICK end \in {"Done", "Broken"} : Command(p[1], pod[p].node, p[2], end)
      BY <1>17 DEF Execute
    <3>2. p[2] \in Volumes
      OBVIOUS
    <3>3. pod[p].node \in Nodes
      <4>1. p = <<p[1], p[2]>> /\ p[1] \in Kinds /\ p[2] \in Volumes
        OBVIOUS
      <4> QED BY <1>17, <4>1 DEF Execute, SafeAt, PodsHaveNodes
    <3> QED BY <3>1, <3>2, <3>3 DEF Command, MakeDirectory, RemoveDirectory, ApplyQuota
  <2> QED BY <1>17, <2>1, <2>2 DEF Execute, cluster, objects
<1>18. ASSUME NEW p \in Kinds \X Volumes, ExecuteFails(p) PROVE TypeOK'
  BY <1>18, FaultType DEF ExecuteFails, InPhase, PodType, Phases, cluster, disk, objects
<1>19. ASSUME NEW p \in Kinds \X Volumes, Report(p) PROVE TypeOK'
  <2>1. InPhase(pod[p], "Succeeded", pod[p].node) \in PodType
    BY DEF InPhase, PodType, Phases
  <2>2. InPhase(pod[p], "Failed", pod[p].node) \in PodType
    BY DEF InPhase, PodType, Phases
  <2> QED BY <1>19, <2>1, <2>2 DEF Report, cluster, disk, objects
<1>20. ASSUME NEW p \in Kinds \X Volumes, Terminate(p) PROVE TypeOK'
  BY <1>20 DEF Terminate, NoPod, PodType, Phases, cluster, disk, objects
<1>21. ASSUME NEW p \in Kinds \X Volumes, Evict(p) PROVE TypeOK'
  BY <1>21, FaultType, DeletePodType DEF Evict, cluster, disk, objects
<1>22. ASSUME NEW n \in Nodes, Relabel(n) PROVE TypeOK'
  BY <1>22, FaultType DEF Relabel, disk, pods, objects
<1>23. ASSUME NEW n \in Nodes, Retaint(n) PROVE TypeOK'
  BY <1>23, FaultType DEF Retaint, disk, pods, objects
<1>24. CASE UNCHANGED vars
  BY <1>24 DEF vars
<1> QED
  BY <1>1, <1>2, <1>3, <1>4, <1>5, <1>6, <1>7, <1>9, <1>10, <1>11, <1>12, <1>13, <1>14,
     <1>15, <1>16, <1>17, <1>18, <1>19, <1>20, <1>21, <1>22, <1>23, <1>24
  DEF Next, Step, Start, Kubelet

-----------------------------------------------------------------------------
(***************************************************************************)
(* Helper pods and operations.  Every action is about one volume: the      *)
(* lemmas say what it does to SafeAt of that volume, and that SafeAt of    *)
(* any other volume depends on nothing it changes.                         *)
(***************************************************************************)

SameVolume(w) ==
  op'[w] = op[w] /\ pv'[w] = pv[w] /\ \A k \in Kinds : pod'[<<k, w>>] = pod[<<k, w>>]

\* The pods of v stay as they are or go.
PodsShrink(v) ==
  \A k \in Kinds : pod'[<<k, v>>] = pod[<<k, v>>] \/ pod'[<<k, v>>] = NoPod

(***************************************************************************)
(* SafeAt of a volume depends on its operation, its PV and its pods only.  *)
(***************************************************************************)
LEMMA SafeFrame ==
  ASSUME NEW w \in Volumes, SafeAt(w), SameVolume(w)
  PROVE  SafeAt(w)'
BY DEF SafeAt, SameVolume, OpMatchesPV, PodsStayFinished, PodsHaveNodes,
       InitIsOver, QuotaIsOver, Kinds

(***************************************************************************)
(* Deleting pods keeps SafeAt.                                             *)
(***************************************************************************)
LEMMA SafeShrink ==
  ASSUME NEW v \in Volumes, SafeAt(v), PodsShrink(v),
         op'[v] = op[v], pv'[v] = pv[v]
  PROVE  SafeAt(v)'
BY DEF SafeAt, PodsShrink, NoPod, OpMatchesPV, PodsStayFinished, PodsHaveNodes,
       InitIsOver, QuotaIsOver, Kinds

(***************************************************************************)
(* So does an operation that ends, whatever becomes of the PV meanwhile.   *)
(***************************************************************************)
LEMMA SafeEnd ==
  ASSUME NEW v \in Volumes, SafeAt(v), PodsShrink(v), op'[v] = NoOp, pv'[v] = pv[v]
  PROVE  SafeAt(v)'
BY DEF SafeAt, PodsShrink, NoPod, NoOp, OpMatchesPV, PodsStayFinished, PodsHaveNodes,
       InitIsOver, QuotaIsOver, Kinds

(***************************************************************************)
(* What follows exitPod keeps SafeAt, its Delete failed or not.            *)
(***************************************************************************)
LEMMA SafeNextStep ==
  ASSUME TypeOK, NEW v \in Volumes, SafeAt(v), PodsShrink(v), NextStep(v), pv'[v] = pv[v]
  PROVE  SafeAt(v)'
<1> USE DEF TypeOK, SafeAt
<1>1. CASE op'[v] = NoOp
  BY <1>1, SafeEnd
<1>2. CASE op[v].pc = "exitOk" /\ op[v].kind = "cleanup" /\ op'[v] = At(op[v], "reclaim")
  BY <1>2 DEF PodsShrink, NoPod, At, OpMatchesPV, PodsStayFinished, PodsHaveNodes,
     InitIsOver, QuotaIsOver, Kinds
<1>3. CASE /\ op[v].pc = "exitOk" /\ op[v].kind # "cleanup"
           /\ op[v].quotas = 0 /\ op'[v] = At(op[v], "save")
  <2>1. op[v].kind \in {"init", "quota"}
    BY <1>3 DEF OpMatchesPV, OpType, Kinds
  <2> QED BY <1>3, <2>1 DEF PodsShrink, NoPod, At, OpMatchesPV, PodsStayFinished,
     PodsHaveNodes, InitIsOver, QuotaIsOver, Kinds
<1>4. CASE /\ op[v].pc = "exitOk" /\ op[v].kind # "cleanup"
           /\ op[v].quotas > 0 /\ op'[v] = QuotaStep(op[v])
  <2>1. op[v].kind \in {"init", "quota"}
    BY <1>4 DEF OpMatchesPV, OpType, Kinds
  <2> QED BY <1>4, <2>1 DEF PodsShrink, NoPod, QuotaStep, OpMatchesPV, PodsStayFinished,
     PodsHaveNodes, InitIsOver, QuotaIsOver, Kinds
<1> QED BY <1>1, <1>2, <1>3, <1>4 DEF NextStep

(***************************************************************************)
(* A pod of v that has not ended moves on in the hands of the cluster.     *)
(***************************************************************************)
LEMMA SafeProgress ==
  ASSUME NEW v \in Volumes, SafeAt(v), NEW k \in Kinds,
         pod[<<k, v>>].phase \notin {"None", "Succeeded"},
         pod'[<<k, v>>].phase # "None", pod'[<<k, v>>].node \in Nodes,
         \A j \in Kinds \ {k} : pod'[<<j, v>>] = pod[<<j, v>>],
         op'[v] = op[v], pv'[v] = pv[v]
  PROVE  SafeAt(v)'
BY DEF SafeAt, OpMatchesPV, PodsStayFinished, PodsHaveNodes, InitIsOver, QuotaIsOver, Kinds

(***************************************************************************)
(* A new helper pod keeps SafeAt, whether its operation learns of it or    *)
(* ends: the operation is at a point where its kind of pod may run.        *)
(***************************************************************************)
LEMMA SafeLaunch ==
  ASSUME NEW v \in Volumes, SafeAt(v), NEW k \in Kinds,
         op[v].kind = k, op[v].pc = "launch", pv'[v] = pv[v],
         op'[v] = At(op[v], "poll") \/ op'[v] = NoOp,
         pod'[<<k, v>>].phase = "Pending",
         \A j \in Kinds \ {k} : pod'[<<j, v>>] = pod[<<j, v>>]
  PROVE  SafeAt(v)'
<1>1. OpMatchesPV(v)'
  BY DEF SafeAt, At, NoOp, OpMatchesPV, Kinds
<1>2. PodsHaveNodes(v)'
  BY DEF SafeAt, PodsHaveNodes
<1>3. CASE k = "init"
  <2>1. /\ pod'[<<"quota", v>>] = pod[<<"quota", v>>]
        /\ pod'[<<"cleanup", v>>] = pod[<<"cleanup", v>>]
    BY <1>3 DEF Kinds
  <2>2. ~InitIsOver(v)' /\ ~QuotaIsOver(v)'
    BY <1>3 DEF SafeAt, At, NoOp, OpMatchesPV, InitIsOver, QuotaIsOver
  <2>3. PodsStayFinished(v)'
    BY <2>1, <2>2 DEF SafeAt, PodsStayFinished
  <2> QED BY <1>1, <1>2, <2>3 DEF SafeAt
<1>4. CASE k = "quota"
  <2>1. /\ pod'[<<"init", v>>] = pod[<<"init", v>>]
        /\ pod'[<<"cleanup", v>>] = pod[<<"cleanup", v>>]
    BY <1>4 DEF Kinds
  <2>2. ~QuotaIsOver(v)' /\ InitIsOver(v) /\ Quotas[v] # 0
    BY <1>4 DEF SafeAt, At, NoOp, OpMatchesPV, InitIsOver, QuotaIsOver
  <2>3. PodsStayFinished(v)'
    BY <2>1, <2>2 DEF SafeAt, PodsStayFinished
  <2> QED BY <1>1, <1>2, <2>3 DEF SafeAt
<1>5. CASE k = "cleanup"
  <2>1. /\ pod'[<<"init", v>>] = pod[<<"init", v>>]
        /\ pod'[<<"quota", v>>] = pod[<<"quota", v>>]
    BY <1>5 DEF Kinds
  <2>2. /\ InitIsOver(v) /\ QuotaIsOver(v)
        /\ pv[v].phase = "Released" /\ Policy[v] # "Retain"
    BY <1>5 DEF SafeAt, OpMatchesPV, InitIsOver, QuotaIsOver
  <2>3. PodsStayFinished(v)'
    BY <2>1, <2>2 DEF SafeAt, PodsStayFinished
  <2> QED BY <1>1, <1>2, <2>3 DEF SafeAt
<1> QED BY <1>3, <1>4, <1>5 DEF Kinds

(***************************************************************************)
(* A poll keeps SafeAt: it sees a success only of a pod that succeeded.    *)
(***************************************************************************)
LEMMA SafePoll ==
  ASSUME NEW v \in Volumes, SafeAt(v), op[v].pc = "poll", op[v].kind \in Kinds,
         pv'[v] = pv[v], \A j \in Kinds : pod'[<<j, v>>] = pod[<<j, v>>],
         op'[v].kind = op[v].kind, op'[v].quotas = op[v].quotas,
         op'[v].pc \in {"poll", "exitOk", "exitErr"},
         op'[v].pc = "exitOk" => pod[<<op[v].kind, v>>].phase = "Succeeded"
  PROVE  SafeAt(v)'
<1>1. OpMatchesPV(v)'
  BY DEF SafeAt, OpMatchesPV, Kinds
<1>2. PodsHaveNodes(v)'
  BY DEF SafeAt, PodsHaveNodes
<1>3. /\ pod'[<<"init", v>>] = pod[<<"init", v>>]
      /\ pod'[<<"quota", v>>] = pod[<<"quota", v>>]
      /\ pod'[<<"cleanup", v>>] = pod[<<"cleanup", v>>]
  BY DEF Kinds
<1>4. InitIsOver(v)' => InitIsOver(v) \/ pod[<<"init", v>>].phase = "Succeeded"
  BY DEF InitIsOver
<1>5. QuotaIsOver(v)' => QuotaIsOver(v) \/ pod[<<"quota", v>>].phase = "Succeeded"
  BY DEF QuotaIsOver
<1>6. PodsStayFinished(v)'
  BY <1>3, <1>4, <1>5 DEF SafeAt, PodsStayFinished
<1> QED BY <1>1, <1>2, <1>6 DEF SafeAt

(***************************************************************************)
(* DELETE of a helper pod affects no other pod.                            *)
(***************************************************************************)
LEMMA DeletePodShrinks ==
  ASSUME TypeOK, NEW v \in Volumes, NEW k \in Kinds, DeletePod(<<k, v>>)
  PROVE  PodsShrink(v) /\ \A w \in Volumes \ {v}, j \in Kinds : pod'[<<j, w>>] = pod[<<j, w>>]
BY DEF TypeOK, DeletePod, PodsShrink

(***************************************************************************)
(* Every step keeps SafeAt of every volume.                                *)
(***************************************************************************)
LEMMA SafeStep ==
  ASSUME TypeOK, \A v \in Volumes : SafeAt(v), [Next]_vars, NEW w \in Volumes
  PROVE  SafeAt(w)'
<1> USE DEF TypeOK
<1>s. ASSUME SameVolume(w) PROVE SafeAt(w)'
  BY <1>s, SafeFrame
<1>h. ASSUME NEW v \in Volumes, op[v].pc # "idle"
      PROVE  op[v].kind \in Kinds /\ HelperPod(v) = <<op[v].kind, v>>
  BY <1>h DEF SafeAt, OpMatchesPV, HelperPod, OpType
<1>1. ASSUME NEW v \in Volumes, LaunchPod(v) PROVE SafeAt(w)'
  <2>1. CASE w # v
    BY <1>1, <1>s, <1>h, <2>1 DEF LaunchPod, SameVolume, objects
  <2>2. CASE w = v
    <3>1. op[v].kind \in Kinds /\ op[v].pc = "launch" /\ op'[v] = At(op[v], "poll") /\ pv' = pv
      BY <1>1, <1>h DEF LaunchPod, objects
    <3>2. /\ pod'[<<op[v].kind, v>>].phase = "Pending"
          /\ \A j \in Kinds \ {op[v].kind} : pod'[<<j, v>>] = pod[<<j, v>>]
      BY <1>1, <1>h DEF LaunchPod, NewPod
    <3> QED BY <2>2, <3>1, <3>2, SafeLaunch
  <2> QED BY <2>1, <2>2
<1>2. ASSUME NEW v \in Volumes, LaunchExists(v) PROVE SafeAt(w)'
  <2>1. op'[v] = NoOp /\ PodsShrink(v) /\ pv'[v] = pv[v] /\ (w # v => SameVolume(w))
    BY <1>2 DEF LaunchExists, PodsShrink, SameVolume, pods, objects
  <2> QED BY <1>s, <2>1, SafeEnd
<1>3. ASSUME NEW v \in Volumes, LaunchFails(v) PROVE SafeAt(w)'
  <2>1. CASE w # v
    BY <1>3, <1>s, <1>h, <2>1 DEF LaunchFails, SameVolume, objects
  <2>2. CASE w = v
    <3>1. op[v].kind \in Kinds /\ op[v].pc = "launch" /\ op'[v] = NoOp /\ pv' = pv
      BY <1>3, <1>h DEF LaunchFails, objects
    <3>2. CASE pod' = pod
      BY <2>2, <3>1, <3>2, SafeEnd DEF PodsShrink
    <3>3. CASE pod' = [pod EXCEPT ![HelperPod(v)] = NewPod(v)]
      <4>1. /\ pod'[<<op[v].kind, v>>].phase = "Pending"
            /\ \A j \in Kinds \ {op[v].kind} : pod'[<<j, v>>] = pod[<<j, v>>]
        BY <3>1, <3>3, <1>h DEF NewPod
      <4> QED BY <2>2, <3>1, <4>1, SafeLaunch
    <3> QED BY <1>3, <3>2, <3>3 DEF LaunchFails
  <2> QED BY <2>1, <2>2
<1>4. ASSUME NEW v \in Volumes,
             PollEnds(v) \/ PollAgain(v) \/ PollTimeout(v) \/ PollFails(v)
      PROVE  SafeAt(w)'
  <2>1. CASE w # v
    BY <1>4, <1>s, <2>1
    DEF PollEnds, PollAgain, PollTimeout, PollFails, SameVolume, pods, objects
  <2>2. CASE w = v
    <3>1. op[v].pc = "poll" /\ pod' = pod /\ pv' = pv
      BY <1>4 DEF PollEnds, PollAgain, PollTimeout, PollFails, pods, objects
    <3>2. op[v].kind \in Kinds /\ HelperPod(v) = <<op[v].kind, v>>
      BY <3>1, <1>h
    <3>3. CASE PollEnds(v)
      BY <2>2, <3>1, <3>2, <3>3, SafePoll DEF PollEnds, At
    <3>4. CASE PollAgain(v)
      BY <2>2, <3>1, <3>2, <3>4, SafePoll DEF PollAgain, Polled
    <3>5. CASE PollTimeout(v)
      BY <2>2, <3>1, <3>2, <3>5, SafePoll DEF PollTimeout, At
    <3>6. CASE PollFails(v)
      BY <2>2, <3>1, <3>2, <3>6, SafePoll DEF PollFails, At
    <3> QED BY <1>4, <3>3, <3>4, <3>5, <3>6
  <2> QED BY <2>1, <2>2
<1>5. ASSUME NEW v \in Volumes, ExitPod(v) PROVE SafeAt(w)'
  <2>1. NextStep(v) /\ DeletePod(HelperPod(v)) /\ pv' = pv /\ op[v].pc # "idle"
    BY <1>5 DEF ExitPod, NextStep, objects
  <2>2. PodsShrink(v) /\ (w # v => \A j \in Kinds : pod'[<<j, w>>] = pod[<<j, w>>])
    <3>1. op[v].kind \in Kinds /\ HelperPod(v) = <<op[v].kind, v>>
      BY <2>1, <1>h
    <3>2. DeletePod(<<op[v].kind, v>>)
      BY <2>1, <3>1
    <3> QED BY <3>1, <3>2, DeletePodShrinks
  <2>3. w # v => op'[w] = op[w]
    BY <2>1 DEF NextStep
  <2> QED BY <1>s, <2>1, <2>2, <2>3, SafeNextStep DEF SameVolume
<1>6. ASSUME NEW v \in Volumes, ExitPodFails(v) PROVE SafeAt(w)'
  <2>1. NextStep(v) /\ PodsShrink(v) /\ pv'[v] = pv[v] /\ (w # v => SameVolume(w))
    BY <1>6 DEF ExitPodFails, NextStep, PodsShrink, SameVolume, pods, objects
  <2> QED BY <1>s, <2>1, SafeNextStep
<1>7. ASSUME NEW v \in Volumes, ProvisionHostPath(v) PROVE SafeAt(w)'
  <2>1. CASE w # v
    BY <1>7, <1>s, <2>1 DEF ProvisionHostPath, SameVolume, pods, objects
  <2>2. CASE w = v
    <3>1. /\ pod' = pod /\ pv' = pv /\ pv[v].phase = "None"
          /\ op'[v].pc = "launch" /\ op'[v].kind = "init" /\ op'[v].quotas = Quotas[v]
      BY <1>7 DEF ProvisionHostPath, pods, objects
    <3>2. SafeAt(v)
      OBVIOUS
    <3> QED BY <2>2, <3>1, <3>2 DEF SafeAt, OpMatchesPV, PodsStayFinished,
         PodsHaveNodes, InitIsOver, QuotaIsOver, Kinds
  <2> QED BY <2>1, <2>2
<1>8. ASSUME NEW v \in Volumes, DeleteHostPath(v) PROVE SafeAt(w)'
  <2>1. CASE w # v
    BY <1>8, <1>s, <2>1 DEF DeleteHostPath, SameVolume, pods, objects
  <2>2. CASE w = v
    <3>1. /\ pod' = pod /\ pv' = pv /\ pv[v].phase = "Released" /\ Policy[v] # "Retain"
          /\ op'[v].pc = "launch" /\ op'[v].kind = "cleanup"
      BY <1>8 DEF DeleteHostPath, pods, objects
    <3>2. SafeAt(v)
      OBVIOUS
    <3> QED BY <2>2, <3>1, <3>2 DEF SafeAt, OpMatchesPV, PodsStayFinished,
         PodsHaveNodes, InitIsOver, QuotaIsOver, Kinds
  <2> QED BY <2>1, <2>2
<1>9. ASSUME NEW v \in Volumes, SavePV(v) PROVE SafeAt(w)'
  <2>1. CASE w # v
    BY <1>9, <1>s, <2>1 DEF SavePV, SameVolume, pods
  <2>2. CASE w = v
    <3>1. pod' = pod /\ op[v].pc = "save" /\ op'[v] = NoOp /\ pv'[v].phase = "Bound"
      BY <1>9 DEF SavePV, pods
    <3>2. SafeAt(v) /\ op[v].kind \in {"init", "quota"}
      BY <3>1, <1>h DEF SafeAt, OpMatchesPV, Kinds
    <3> QED BY <2>2, <3>1, <3>2 DEF SafeAt, NoOp, OpMatchesPV, PodsStayFinished,
         PodsHaveNodes, InitIsOver, QuotaIsOver, Kinds
  <2> QED BY <2>1, <2>2
<1>10. ASSUME NEW v \in Volumes, RemovePV(v) PROVE SafeAt(w)'
  <2>1. CASE w # v
    BY <1>10, <1>s, <2>1 DEF RemovePV, SameVolume, pods
  <2>2. CASE w = v
    <3>1. pod' = pod /\ op[v].pc = "reclaim" /\ op'[v] = NoOp /\ pv'[v].phase = "Gone"
      BY <1>10 DEF RemovePV, pods
    <3>2. SafeAt(v)
      OBVIOUS
    <3> QED BY <2>2, <3>1, <3>2 DEF SafeAt, NoOp, OpMatchesPV, PodsStayFinished,
         PodsHaveNodes, InitIsOver, QuotaIsOver, Kinds
  <2> QED BY <2>1, <2>2
<1>11. ASSUME NEW v \in Volumes, ReleasePV(v) PROVE SafeAt(w)'
  <2>1. CASE w # v
    BY <1>11, <1>s, <2>1 DEF ReleasePV, SameVolume, pods
  <2>2. CASE w = v
    <3>1. pod' = pod /\ op' = op /\ pv[v].phase = "Bound" /\ pv'[v].phase = "Released"
      BY <1>11 DEF ReleasePV, pods
    <3>2. SafeAt(v)
      OBVIOUS
    <3> QED BY <2>2, <3>1, <3>2 DEF SafeAt, OpMatchesPV, PodsStayFinished,
         PodsHaveNodes, InitIsOver, QuotaIsOver, Kinds
  <2> QED BY <2>1, <2>2
<1>12. ASSUME Shutdown PROVE SafeAt(w)'
  <2>1. op'[w] = NoOp /\ pv' = pv /\ PodsShrink(w)
    BY <1>12 DEF Shutdown, PodsShrink, pods, objects
  <2> QED BY <2>1, SafeEnd
<1>13. ASSUME NEW v \in Volumes, NEW k \in Kinds, Schedule(<<k, v>>) PROVE SafeAt(w)'
  <2>1. /\ op' = op /\ pv' = pv /\ pod[<<k, v>>].phase = "Pending"
        /\ pod'[<<k, v>>].phase = "Running" /\ pod'[<<k, v>>].node \in Nodes
        /\ \A j \in Kinds, u \in Volumes : <<j, u>> # <<k, v>> => pod'[<<j, u>>] = pod[<<j, u>>]
    BY <1>13 DEF Schedule, Schedulable, NodesWithLabels, InPhase, objects
  <2> QED BY <1>s, <2>1, SafeProgress DEF SameVolume
<1>14. ASSUME NEW v \in Volumes, NEW k \in Kinds,
              Execute(<<k, v>>) \/ ExecuteFails(<<k, v>>) \/ Report(<<k, v>>)
       PROVE  SafeAt(w)'
  <2>1. /\ op' = op /\ pv' = pv /\ pod[<<k, v>>].phase \in {"Running", "Done", "Broken"}
        /\ pod'[<<k, v>>].phase # "None" /\ pod'[<<k, v>>].node = pod[<<k, v>>].node
        /\ \A j \in Kinds, u \in Volumes : <<j, u>> # <<k, v>> => pod'[<<j, u>>] = pod[<<j, u>>]
    BY <1>14 DEF Execute, ExecuteFails, Report, InPhase, objects
  <2>2. pod[<<k, v>>].node \in Nodes
    BY <2>1 DEF SafeAt, PodsHaveNodes
  <2> QED BY <1>s, <2>1, <2>2, SafeProgress DEF SameVolume
<1>15. ASSUME NEW v \in Volumes, NEW k \in Kinds, Terminate(<<k, v>>) PROVE SafeAt(w)'
  <2>1. op' = op /\ pv' = pv /\ PodsShrink(w)
    BY <1>15 DEF Terminate, PodsShrink, objects
  <2> QED BY <2>1, SafeShrink
<1>16. ASSUME NEW v \in Volumes, NEW k \in Kinds, Evict(<<k, v>>) PROVE SafeAt(w)'
  <2>1. op' = op /\ pv' = pv /\ DeletePod(<<k, v>>)
    BY <1>16 DEF Evict, objects
  <2> QED BY <1>s, <2>1, DeletePodShrinks, SafeShrink DEF SameVolume
<1>17. ASSUME (\E n \in Nodes : Relabel(n) \/ Retaint(n)) \/ (\E v \in Volumes : DeleteClaim(v))
       PROVE  SafeAt(w)'
  <2>1. SameVolume(w)
    BY <1>17 DEF Relabel, Retaint, DeleteClaim, SameVolume, pods, objects
  <2> QED BY <1>s, <2>1
<1>18. CASE UNCHANGED vars
  BY <1>18, <1>s DEF vars, SameVolume
<1> QED
  BY <1>1, <1>2, <1>3, <1>4, <1>5, <1>6, <1>7, <1>8, <1>9, <1>10, <1>11, <1>12, <1>13,
     <1>14, <1>15, <1>16, <1>17, <1>18
  DEF Next, Step, Start, Kubelet

(***************************************************************************)
(* SafeInv is an invariant: no assumption on labels or faults is needed.   *)
(***************************************************************************)
THEOREM SafeInvariance == Spec => []SafeInv
<1>1. Init => SafeInv
  <2> SUFFICES ASSUME Init PROVE SafeInv
    OBVIOUS
  <2>1. TypeOK
    BY DEF Init, TypeOK, PodType, NoPod, Phases, OpType, NoOp, PCs, PVType
  <2>2. ASSUME NEW v \in Volumes PROVE SafeAt(v)
    BY DEF Init, NoPod, NoOp, Kinds, SafeAt, OpMatchesPV, PodsStayFinished, PodsHaveNodes,
       InitIsOver, QuotaIsOver
  <2> QED BY <2>1, <2>2 DEF SafeInv
<1>2. SafeInv /\ [Next]_vars => SafeInv'
  BY TypeStep, SafeStep DEF SafeInv
<1> QED BY <1>1, <1>2, PTL DEF Spec

(***************************************************************************)
(* Every variable keeps its type and the faults keep to their bound.       *)
(***************************************************************************)
THEOREM TypeCorrect == Spec => []TypeOK
<1>1. SafeInv => TypeOK
  BY DEF SafeInv
<1> QED BY <1>1, SafeInvariance, PTL

(***************************************************************************)
(* No helper pod acts on a volume in use, for any faults whatever: neither *)
(* launchPod's errors nor exitPod's timeouts, failed Deletes or a shutdown *)
(* leave a pod behind that could.                                          *)
(***************************************************************************)
THEOREM HelpersQuiesceInvariance == Spec => []HelpersQuiesce
<1>1. SafeInv => HelpersQuiesce
  BY DEF SafeInv, SafeAt, PodsStayFinished, InitIsOver, QuotaIsOver, HelpersQuiesce, Unfinished
<1> QED BY <1>1, SafeInvariance, PTL

(***************************************************************************)
(* A directory disappears only by the command of a running pod, and the    *)
(* pods that run are not those of a volume in use: with a PV in place,     *)
(* only Delete of a released, not retained volume removes data.            *)
(***************************************************************************)
THEOREM RemovalIsReclaim == Spec => OnlyReclaimedDataIsRemoved
<1> DEFINE Lost(n, v) == <<n, v>> \in dirs \ dirs' /\ pv[v].phase # "None"
           Reclaimed(v) == pv[v].phase \in {"Released", "Gone"} /\ Policy[v] # "Retain"
<1>1. ASSUME SafeInv, [Next]_vars, NEW n \in Nodes, NEW v \in Volumes, Lost(n, v)
      PROVE  Reclaimed(v)
  <2>1. PICK p \in Kinds \X Volumes : Execute(p)
    <3>1. dirs' # dirs
      BY <1>1
    <3> QED BY <1>1, <3>1 DEF Next, Start, Step, Kubelet, vars, disk,
         LaunchPod, LaunchExists, LaunchFails, PollEnds, PollAgain, PollTimeout, PollFails,
         ExitPod, ExitPodFails, ProvisionHostPath, DeleteHostPath, SavePV, RemovePV,
         Shutdown, Schedule, ExecuteFails, Report, Terminate, Evict, Relabel, Retaint,
         DeleteClaim, ReleasePV
  <2>2. PICK k \in Kinds, w \in Volumes : p = <<k, w>>
    BY <2>1
  <2>3. /\ pod[<<k, w>>].phase = "Running"
        /\ \E end \in {"Done", "Broken"} : Command(k, pod[<<k, w>>].node, w, end)
    BY <2>1, <2>2 DEF Execute
  <2>4. w = v /\ k # "init"
    BY <1>1, <2>3 DEF Command, MakeDirectory, RemoveDirectory, ApplyQuota
  <2>5. k # "quota"
    BY <1>1, <2>3, <2>4 DEF SafeInv, SafeAt, PodsStayFinished, QuotaIsOver
  <2> QED BY <1>1, <2>3, <2>4, <2>5 DEF SafeInv, SafeAt, PodsStayFinished, Kinds
<1>2. SafeInv /\ [Next]_vars => [\A n \in Nodes, v \in Volumes : Lost(n, v) => Reclaimed(v)]_vars
  BY <1>1
<1> QED BY <1>2, SafeInvariance, PTL DEF Spec, OnlyReclaimedDataIsRemoved

-----------------------------------------------------------------------------
(***************************************************************************)
(* Directories, when labels are stable and name one node.                  *)
(***************************************************************************)

SameDisk(w) ==
  \A n \in Nodes :
    /\ <<n, w>> \in dirs' <=> <<n, w>> \in dirs
    /\ <<n, w>> \in limited' <=> <<n, w>> \in limited

(***************************************************************************)
(* StableAt of a volume depends on its operation, its PV, its pods and its *)
(* directories only.                                                       *)
(***************************************************************************)
LEMMA StableFrame ==
  ASSUME NEW w \in Volumes, StableAt(w), SameVolume(w), SameDisk(w)
  PROVE  StableAt(w)'
<1>1. Home(w) \in dirs' <=> Home(w) \in dirs
  BY DEF SameDisk, Home
<1>2. Home(w) \in limited' <=> Home(w) \in limited
  BY DEF SameDisk, Home
<1>3. AtHome(w)'
  BY DEF StableAt, AtHome, SameVolume, SameDisk, Aff
<1>4. /\ NeedsDirectory(w)' <=> NeedsDirectory(w)
      /\ NeedsLimit(w)' <=> NeedsLimit(w)
      /\ IsCleaned(w)' <=> IsCleaned(w)
  BY DEF SameVolume, Kinds, NeedsDirectory, NeedsLimit, IsCleaned
<1>5. EffectsLast(w)'
  BY <1>1, <1>2, <1>4 DEF StableAt, EffectsLast, SameVolume, Kinds, Known, Home
<1> QED BY <1>3, <1>5 DEF StableAt

(***************************************************************************)
(* Deleting pods, and ending the operation, keeps StableAt.                *)
(***************************************************************************)
LEMMA StableShrink ==
  ASSUME NEW v \in Volumes, StableAt(v), PodsShrink(v), SameDisk(v),
         op'[v] = op[v] \/ op'[v] = NoOp, pv'[v] = pv[v]
  PROVE  StableAt(v)'
<1>1. /\ Home(v) \in dirs' <=> Home(v) \in dirs
      /\ Home(v) \in limited' <=> Home(v) \in limited
  BY DEF SameDisk, Home
<1>2. AtHome(v)'
  BY DEF StableAt, AtHome, PodsShrink, SameDisk, Aff, NoPod, NoOp
<1>3. /\ NeedsDirectory(v)' => NeedsDirectory(v)
      /\ NeedsLimit(v)' => NeedsLimit(v)
      /\ IsCleaned(v)' => IsCleaned(v)
  BY DEF PodsShrink, Kinds, NoPod, NoOp, NeedsDirectory, NeedsLimit, IsCleaned, Finished
<1>4. EffectsLast(v)'
  BY <1>1, <1>3 DEF StableAt, EffectsLast, PodsShrink, Kinds, NoPod, NoOp, Known, Home, Finished
<1> QED BY <1>2, <1>4 DEF StableAt

(***************************************************************************)
(* A new helper pod, before it runs, keeps StableAt.                       *)
(***************************************************************************)
LEMMA StableLaunch ==
  ASSUME NEW v \in Volumes, StableAt(v), SameDisk(v), NEW k \in Kinds,
         op[v].kind = k, op[v].pc = "launch", pv'[v] = pv[v],
         op'[v] = At(op[v], "poll") \/ op'[v] = NoOp,
         pod'[<<k, v>>].phase = "Pending", pod'[<<k, v>>].aff = op[v].aff,
         \A j \in Kinds \ {k} : pod'[<<j, v>>] = pod[<<j, v>>]
  PROVE  StableAt(v)'
<1>1. /\ Home(v) \in dirs' <=> Home(v) \in dirs
      /\ Home(v) \in limited' <=> Home(v) \in limited
  BY DEF SameDisk, Home
<1>2. AtHome(v)'
  BY DEF StableAt, AtHome, SameDisk, Aff, At, NoOp, Kinds
<1>3. /\ NeedsDirectory(v)' => NeedsDirectory(v)
      /\ NeedsLimit(v)' => NeedsLimit(v)
      /\ IsCleaned(v)' => IsCleaned(v)
      /\ pod'[<<"quota", v>>].phase \in Finished => pod[<<"quota", v>>].phase \in Finished
  BY DEF Kinds, At, NoOp, NeedsDirectory, NeedsLimit, IsCleaned, Finished
<1>4. EffectsLast(v)'
  BY <1>1, <1>3 DEF StableAt, EffectsLast, At, NoOp, Known, Home
<1> QED BY <1>2, <1>4 DEF StableAt

(***************************************************************************)
(* A poll that sees a success finds the effects of the pod in place.       *)
(***************************************************************************)
LEMMA StablePoll ==
  ASSUME NEW v \in Volumes, StableAt(v), SameDisk(v), op[v].pc = "poll", op[v].kind \in Kinds,
         pv'[v] = pv[v], \A j \in Kinds : pod'[<<j, v>>] = pod[<<j, v>>],
         op'[v].kind = op[v].kind, op'[v].aff = op[v].aff,
         op'[v].pc \in {"poll", "exitOk", "exitErr"},
         op'[v].pc = "exitOk" => pod[<<op[v].kind, v>>].phase = "Succeeded"
  PROVE  StableAt(v)'
<1>1. /\ Home(v) \in dirs' <=> Home(v) \in dirs
      /\ Home(v) \in limited' <=> Home(v) \in limited
  BY DEF SameDisk, Home
<1>2. AtHome(v)'
  BY DEF StableAt, AtHome, SameDisk, Aff
<1>3. /\ NeedsDirectory(v)' => NeedsDirectory(v)
      /\ NeedsLimit(v)' => NeedsLimit(v)
      /\ IsCleaned(v)' => IsCleaned(v)
      /\ pod'[<<"quota", v>>] = pod[<<"quota", v>>]
  BY DEF Kinds, NeedsDirectory, NeedsLimit, IsCleaned, Finished
<1>4. EffectsLast(v)'
  BY <1>1, <1>3 DEF StableAt, EffectsLast, Known, Home, Finished
<1> QED BY <1>2, <1>4 DEF StableAt

(***************************************************************************)
(* What follows exitPod relies on effects that are in place.               *)
(***************************************************************************)
LEMMA StableNextStep ==
  ASSUME TypeOK, NEW v \in Volumes, SafeAt(v), StableAt(v), SameDisk(v),
         PodsShrink(v), NextStep(v), pv'[v] = pv[v]
  PROVE  StableAt(v)'
<1>1. /\ Home(v) \in dirs' <=> Home(v) \in dirs
      /\ Home(v) \in limited' <=> Home(v) \in limited
  BY DEF SameDisk, Home
<1>2. CASE op'[v] = NoOp
  BY <1>2, StableShrink
<1>3. CASE /\ op[v].pc = "exitOk" /\ op'[v].aff = op[v].aff
           /\ \/ op[v].kind = "cleanup" /\ op'[v] = At(op[v], "reclaim")
              \/ op[v].kind # "cleanup" /\ op[v].quotas = 0 /\ op'[v] = At(op[v], "save")
              \/ op[v].kind # "cleanup" /\ op'[v] = QuotaStep(op[v])
  <2>1. op[v].kind \in Kinds
    BY <1>3 DEF TypeOK, OpType, SafeAt, OpMatchesPV
  <2>2. AtHome(v)'
    BY <1>3, <2>1 DEF StableAt, AtHome, SameDisk, Aff, PodsShrink, NoPod, Kinds
  <2>3. /\ NeedsDirectory(v)' => NeedsDirectory(v)
        /\ NeedsLimit(v)' => NeedsLimit(v)
        /\ IsCleaned(v)' => IsCleaned(v)
        /\ pod'[<<"quota", v>>].phase \in Finished => pod[<<"quota", v>>].phase \in Finished
    BY <1>3, <2>1 DEF PodsShrink, NoPod, At, QuotaStep, Kinds, NeedsDirectory, NeedsLimit,
       IsCleaned, Finished, SafeAt, OpMatchesPV
  <2>4. op'[v].pc = "save" => Known(v)
    BY <1>3, <2>1 DEF StableAt, EffectsLast, SafeAt, OpMatchesPV, At, QuotaStep, Known, Kinds
  <2>5. ~(op'[v].kind = "quota" /\ op'[v].pc = "exitOk")
    BY <1>3 DEF At, QuotaStep
  <2>6. EffectsLast(v)'
    BY <1>1, <2>3, <2>4, <2>5 DEF StableAt, EffectsLast, Known, Home
  <2> QED BY <2>2, <2>6 DEF StableAt
<1>4. \/ op'[v] = NoOp
      \/ /\ op[v].pc = "exitOk" /\ op'[v].aff = op[v].aff
         /\ \/ op[v].kind = "cleanup" /\ op'[v] = At(op[v], "reclaim")
            \/ op[v].kind # "cleanup" /\ op[v].quotas = 0 /\ op'[v] = At(op[v], "save")
            \/ op[v].kind # "cleanup" /\ op'[v] = QuotaStep(op[v])
  BY DEF TypeOK, NextStep, At, QuotaStep
<1> QED BY <1>2, <1>3, <1>4

(***************************************************************************)
(* A pod that starts, fails or reports, its effects done, keeps StableAt.  *)
(***************************************************************************)
LEMMA StableProgress ==
  ASSUME NEW v \in Volumes, StableAt(v), SameDisk(v), NEW k \in Kinds,
         pod[<<k, v>>].phase # "None", pod'[<<k, v>>].node = Selected[v],
         pod'[<<k, v>>].phase # "None", pod'[<<k, v>>].aff = pod[<<k, v>>].aff,
         pod'[<<k, v>>].phase \in Finished => pod[<<k, v>>].phase \in Finished,
         \A j \in Kinds \ {k} : pod'[<<j, v>>] = pod[<<j, v>>],
         op'[v] = op[v], pv'[v] = pv[v]
  PROVE  StableAt(v)'
<1>1. /\ Home(v) \in dirs' <=> Home(v) \in dirs
      /\ Home(v) \in limited' <=> Home(v) \in limited
  BY DEF SameDisk, Home
<1>2. AtHome(v)'
  BY DEF StableAt, AtHome, SameDisk, Aff
<1>3. /\ NeedsDirectory(v)' => NeedsDirectory(v)
      /\ NeedsLimit(v)' => NeedsLimit(v)
      /\ IsCleaned(v)' => IsCleaned(v)
      /\ pod'[<<"quota", v>>].phase \in Finished => pod[<<"quota", v>>].phase \in Finished
  BY DEF Kinds, NeedsDirectory, NeedsLimit, IsCleaned
<1>4. EffectsLast(v)'
  BY <1>1, <1>3 DEF StableAt, EffectsLast, Known, Home
<1> QED BY <1>2, <1>4 DEF StableAt

(***************************************************************************)
(* The commands.  mkdir runs before there is a PV, the quota script finds  *)
(* the directory there or removes it and fails, rm runs after the release. *)
(***************************************************************************)
LEMMA StableExecute ==
  ASSUME TypeOK, NEW v \in Volumes, SafeAt(v), StableAt(v), NEW k \in Kinds,
         Execute(<<k, v>>)
  PROVE  StableAt(v)'
<1>1. /\ op' = op /\ pv' = pv
      /\ pod[<<k, v>>].phase = "Running" /\ pod[<<k, v>>].node = Selected[v]
      /\ \A j \in Kinds \ {k} : pod'[<<j, v>>] = pod[<<j, v>>]
      /\ pod'[<<k, v>>].aff = pod[<<k, v>>].aff /\ pod'[<<k, v>>].node = Selected[v]
  BY DEF TypeOK, Execute, InPhase, objects, StableAt, AtHome
<1>2. PICK end \in {"Done", "Broken"} :
        Command(k, Selected[v], v, end) /\ pod'[<<k, v>>].phase = end
  BY <1>1 DEF TypeOK, Execute, InPhase
<1>3. \A n \in Nodes : <<n, v>> \in dirs' => n = Selected[v]
  BY <1>2 DEF Command, MakeDirectory, RemoveDirectory, ApplyQuota, StableAt, AtHome
<1>4. AtHome(v)'
  BY <1>1, <1>2, <1>3 DEF StableAt, AtHome, Aff
<1>5. CASE k = "init"
  <2>1. /\ Home(v) \in dirs' /\ limited' = limited /\ end = "Done"
    BY <1>2, <1>5 DEF Command, MakeDirectory, Home
  <2>2. pv[v].phase = "None" /\ ~IsCleaned(v)'
    BY <1>1, <1>5 DEF SafeAt, OpMatchesPV, PodsStayFinished, InitIsOver, IsCleaned, Kinds, Finished
  <2>3. pod'[<<"quota", v>>] = pod[<<"quota", v>>]
    BY <1>1, <1>5 DEF Kinds
  <2>4. EffectsLast(v)'
    BY <1>1, <2>1, <2>2, <2>3 DEF StableAt, EffectsLast, NeedsLimit, Known, Home
  <2> QED BY <1>4, <2>4 DEF StableAt
<1>6. CASE k = "quota"
  <2>1. pv[v].phase = "None" /\ ~IsCleaned(v)' /\ Quotas[v] # 0
    BY <1>1, <1>6 DEF SafeAt, OpMatchesPV, PodsStayFinished, QuotaIsOver, IsCleaned, Kinds, Finished
  <2>2. CASE Filesystem[Selected[v]] # "other"
    <3>1. dirs' = dirs /\ limited' = limited \cup ({Home(v)} \cap dirs) /\ end = "Done"
      BY <1>2, <1>6, <2>2 DEF Command, ApplyQuota, Home
    <3>2. Known(v) /\ Home(v) \in dirs
      BY <1>1, <1>6, <2>1, <2>2 DEF StableAt, EffectsLast, NeedsDirectory, Known
    <3>3. Home(v) \in dirs' /\ Home(v) \in limited' /\ Known(v)
      BY <3>1, <3>2
    <3> QED BY <1>1, <1>4, <2>1, <3>3 DEF StableAt, EffectsLast, Known, Home
  <2>3. CASE Filesystem[Selected[v]] = "other"
    <3>1. end = "Broken" /\ ~Known(v)
      BY <1>2, <1>6, <2>1, <2>3 DEF Command, ApplyQuota, Known
    <3> QED BY <1>1, <1>2, <1>4, <1>6, <2>1, <3>1 DEF StableAt, EffectsLast, Known, Finished
  <2> QED BY <2>2, <2>3
<1>7. CASE k = "cleanup"
  <2>1. Home(v) \notin dirs'
    BY <1>2, <1>7 DEF Command, RemoveDirectory, Home
  <2>2. pv[v].phase \in {"Released", "Gone"}
    BY <1>1, <1>7 DEF SafeAt, PodsStayFinished
  <2>3. EffectsLast(v)'
    BY <1>1, <2>1, <2>2 DEF StableAt, EffectsLast, Known, Home
  <2> QED BY <1>4, <2>3 DEF StableAt
<1> QED BY <1>5, <1>6, <1>7 DEF Kinds

(***************************************************************************)
(* A pod acts on the directory of its own volume only.                     *)
(***************************************************************************)
LEMMA ExecuteIsLocal ==
  ASSUME TypeOK, NEW v \in Volumes, NEW k \in Kinds, Execute(<<k, v>>), NEW w \in Volumes, w # v
  PROVE  SameVolume(w) /\ SameDisk(w)
<1>1. SameVolume(w)
  BY DEF TypeOK, Execute, SameVolume, objects
<1>2. PICK end \in {"Done", "Broken"} : Command(k, pod[<<k, v>>].node, v, end)
  BY DEF Execute
<1>3. SameDisk(w)
  BY <1>2 DEF Command, MakeDirectory, RemoveDirectory, ApplyQuota, SameDisk
<1> QED BY <1>1, <1>3

(***************************************************************************)
(* Every step keeps StableAt of every volume.                              *)
(***************************************************************************)
LEMMA StableStep ==
  ASSUME StableLabels, UniqueAffinity, StableInv, [Next]_vars, NEW w \in Volumes
  PROVE  StableAt(w)'
<1>t. TypeOK /\ labels = InitLabels /\ \A v \in Volumes : SafeAt(v) /\ StableAt(v)
  BY DEF StableInv, SafeInv
<1> USE DEF TypeOK
<1>s. ASSUME SameVolume(w), SameDisk(w) PROVE StableAt(w)'
  BY <1>t, <1>s, StableFrame
<1>h. ASSUME NEW v \in Volumes, op[v].pc # "idle"
      PROVE  op[v].kind \in Kinds /\ HelperPod(v) = <<op[v].kind, v>>
  BY <1>t, <1>h DEF SafeAt, OpMatchesPV, HelperPod, OpType
<1>d. ASSUME UNCHANGED disk, NEW v \in Volumes PROVE SameDisk(v)
  BY <1>d DEF disk, SameDisk
<1>1. ASSUME NEW v \in Volumes, LaunchPod(v) \/ LaunchFails(v) PROVE StableAt(w)'
  <2>1. op[v].pc = "launch" /\ UNCHANGED disk /\ pv' = pv
    BY <1>1 DEF LaunchPod, LaunchFails, objects
  <2>2. op[v].kind \in Kinds /\ HelperPod(v) = <<op[v].kind, v>>
    BY <2>1, <1>h
  <2>3. /\ op'[v] = At(op[v], "poll") \/ op'[v] = NoOp
        /\ w # v => op'[w] = op[w]
    BY <1>t, <1>1 DEF LaunchPod, LaunchFails
  <2>4. CASE pod' = [pod EXCEPT ![HelperPod(v)] = NewPod(v)]
    <3>1. /\ pod'[<<op[v].kind, v>>].phase = "Pending"
          /\ pod'[<<op[v].kind, v>>].aff = op[v].aff
          /\ \A j \in Kinds, u \in Volumes :
               <<j, u>> # <<op[v].kind, v>> => pod'[<<j, u>>] = pod[<<j, u>>]
      BY <1>t, <2>2, <2>4 DEF NewPod
    <3>2. CASE w = v
      BY <1>t, <1>d, <2>1, <2>2, <2>3, <3>1, <3>2, StableLaunch
    <3>3. CASE w # v
      BY <1>s, <1>d, <2>1, <2>3, <3>1, <3>3 DEF SameVolume
    <3> QED BY <3>2, <3>3
  <2>5. CASE pod' = pod /\ op'[v] = NoOp
    <3>1. CASE w = v
      BY <1>t, <1>d, <2>1, <2>5, <3>1, StableShrink DEF PodsShrink
    <3>2. CASE w # v
      BY <1>s, <1>d, <2>1, <2>3, <2>5, <3>2 DEF SameVolume
    <3> QED BY <3>1, <3>2
  <2>6. \/ pod' = [pod EXCEPT ![HelperPod(v)] = NewPod(v)]
        \/ pod' = pod /\ op'[v] = NoOp
    BY <1>t, <1>1 DEF LaunchPod, LaunchFails
  <2> QED BY <2>4, <2>5, <2>6
<1>2. ASSUME NEW v \in Volumes, LaunchExists(v) PROVE StableAt(w)'
  <2>1. op'[v] = NoOp /\ PodsShrink(v) /\ pv'[v] = pv[v] /\ (w # v => SameVolume(w))
    BY <1>t, <1>2 DEF LaunchExists, PodsShrink, SameVolume, pods, objects
  <2>2. SameDisk(w)
    BY <1>2, <1>d DEF LaunchExists
  <2> QED BY <1>t, <1>s, <2>1, <2>2, StableShrink
<1>3. ASSUME NEW v \in Volumes,
             PollEnds(v) \/ PollAgain(v) \/ PollTimeout(v) \/ PollFails(v)
      PROVE  StableAt(w)'
  <2>1. /\ op[v].pc = "poll" /\ pod' = pod /\ pv' = pv /\ UNCHANGED disk
        /\ w # v => op'[w] = op[w]
    BY <1>t, <1>3 DEF PollEnds, PollAgain, PollTimeout, PollFails, pods, objects
  <2>2. op[v].kind \in Kinds /\ HelperPod(v) = <<op[v].kind, v>> /\ SameDisk(w)
    BY <2>1, <1>h, <1>d
  <2>3. CASE w # v
    BY <1>s, <2>1, <2>2, <2>3 DEF SameVolume
  <2>4. CASE w = v
    <3>1. CASE PollEnds(v)
      BY <1>t, <2>1, <2>2, <2>4, <3>1, StablePoll DEF PollEnds, At
    <3>2. CASE PollAgain(v)
      BY <1>t, <2>1, <2>2, <2>4, <3>2, StablePoll DEF PollAgain, Polled
    <3>3. CASE PollTimeout(v)
      BY <1>t, <2>1, <2>2, <2>4, <3>3, StablePoll DEF PollTimeout, At
    <3>4. CASE PollFails(v)
      BY <1>t, <2>1, <2>2, <2>4, <3>4, StablePoll DEF PollFails, At
    <3> QED BY <1>3, <3>1, <3>2, <3>3, <3>4
  <2> QED BY <2>3, <2>4
<1>4. ASSUME NEW v \in Volumes, ExitPod(v) PROVE StableAt(w)'
  <2>1. NextStep(v) /\ DeletePod(HelperPod(v)) /\ pv' = pv /\ op[v].pc # "idle"
    BY <1>4 DEF ExitPod, NextStep, objects
  <2>2. op[v].kind \in Kinds /\ HelperPod(v) = <<op[v].kind, v>> /\ SameDisk(w)
    BY <1>4, <2>1, <1>h, <1>d DEF ExitPod
  <2>3. DeletePod(<<op[v].kind, v>>)
    BY <2>1, <2>2
  <2>4. PodsShrink(v) /\ (w # v => \A j \in Kinds : pod'[<<j, w>>] = pod[<<j, w>>])
    BY <1>t, <2>2, <2>3, DeletePodShrinks
  <2>5. w # v => op'[w] = op[w]
    BY <1>t, <2>1 DEF NextStep
  <2> QED BY <1>t, <1>s, <2>1, <2>2, <2>4, <2>5, StableNextStep DEF SameVolume
<1>5. ASSUME NEW v \in Volumes, ExitPodFails(v) PROVE StableAt(w)'
  <2>1. NextStep(v) /\ PodsShrink(v) /\ pv'[v] = pv[v] /\ (w # v => SameVolume(w))
    BY <1>t, <1>5 DEF ExitPodFails, NextStep, PodsShrink, SameVolume, pods, objects
  <2>2. SameDisk(w)
    BY <1>5, <1>d DEF ExitPodFails
  <2> QED BY <1>t, <1>s, <2>1, <2>2, StableNextStep
<1>6. ASSUME NEW v \in Volumes, ProvisionHostPath(v) \/ DeleteHostPath(v) PROVE StableAt(w)'
  <2>1. pod' = pod /\ pv' = pv /\ SameDisk(w) /\ (w # v => op'[w] = op[w])
    BY <1>t, <1>6, <1>d DEF ProvisionHostPath, DeleteHostPath, pods, objects
  <2>2. CASE w # v
    BY <1>s, <2>1, <2>2 DEF SameVolume
  <2>3. CASE w = v
    <3>1. /\ op'[v].pc = "launch" /\ op'[v].kind \in {"init", "cleanup"}
          /\ op'[v].aff = Aff(v)
      BY <1>t, <1>6 DEF ProvisionHostPath, DeleteHostPath, StableAt, AtHome, Aff
    <3>2. AtHome(v)'
      BY <1>t, <2>1, <2>3, <3>1 DEF StableAt, AtHome, SameDisk, Aff
    <3>3. EffectsLast(v)'
      BY <1>t, <2>1, <2>3, <3>1 DEF StableAt, EffectsLast, SameDisk, Home, Known,
         NeedsDirectory, NeedsLimit, IsCleaned
    <3> QED BY <2>3, <3>2, <3>3 DEF StableAt
  <2> QED BY <2>2, <2>3
<1>7. ASSUME NEW v \in Volumes, SavePV(v) PROVE StableAt(w)'
  <2>1. pod' = pod /\ dirs' = dirs /\ limited' = limited /\ op[v].pc = "save"
    BY <1>7 DEF SavePV, pods, disk
  <2>2. CASE w # v
    BY <1>t, <1>7, <1>s, <2>1, <2>2 DEF SavePV, SameVolume, SameDisk
  <2>3. CASE w = v
    <3>1. op'[v] = NoOp /\ pv'[v] = [phase |-> "Bound", aff |-> op[v].aff]
      BY <1>t, <1>7 DEF SavePV
    <3>2. op[v].kind \in {"init", "quota"} /\ pv[v].phase = "None"
      BY <1>t, <1>h, <2>1 DEF SafeAt, OpMatchesPV, Kinds
    <3>3. AtHome(v)'
      BY <1>t, <2>1, <3>1, <3>2 DEF StableAt, AtHome, Aff, NoOp
    <3>4. Known(v) /\ NeedsDirectory(v) /\ (Quotas[v] > 0 => NeedsLimit(v)) /\ ~IsCleaned(v)
      BY <1>t, <2>1, <3>2 DEF StableAt, EffectsLast, NeedsDirectory, NeedsLimit, IsCleaned,
         SafeAt, PodsStayFinished, Finished
    <3>5. ~IsCleaned(v)'
      BY <2>1, <3>1, <3>4 DEF IsCleaned, NoOp
    <3>6. EffectsLast(v)
      BY <1>t DEF StableAt
    <3>7. Home(v) \in dirs /\ (Quotas[v] > 0 => Home(v) \in limited)
      BY <3>2, <3>4, <3>6 DEF EffectsLast
    <3>8. pv'[v].phase = "Bound"
      BY <3>1
    <3>9. EffectsLast(v)'
      BY <2>1, <3>4, <3>5, <3>7, <3>8 DEF EffectsLast, Home, Known
    <3> QED BY <2>3, <3>3, <3>9 DEF StableAt
  <2> QED BY <2>2, <2>3
<1>8. ASSUME NEW v \in Volumes, RemovePV(v) PROVE StableAt(w)'
  <2>1. pod' = pod /\ dirs' = dirs /\ limited' = limited /\ op[v].pc = "reclaim"
    BY <1>8 DEF RemovePV, pods, disk
  <2>2. CASE w # v
    BY <1>t, <1>8, <1>s, <2>1, <2>2 DEF RemovePV, SameVolume, SameDisk
  <2>3. CASE w = v
    <3>1. op'[v] = NoOp /\ pv'[v] = [phase |-> "Gone", aff |-> pv[v].aff]
      BY <1>t, <1>8 DEF RemovePV
    <3>2. op[v].kind = "cleanup" /\ pv[v].phase = "Released"
      BY <1>t, <2>1 DEF SafeAt, OpMatchesPV
    <3>3. AtHome(v)'
      BY <1>t, <2>1, <3>1, <3>2 DEF StableAt, AtHome, Aff, NoOp
    <3>4. IsCleaned(v)
      BY <2>1, <3>2 DEF IsCleaned
    <3>5. EffectsLast(v)
      BY <1>t DEF StableAt
    <3>6. Home(v) \notin dirs /\ Known(v)
      BY <3>2, <3>4, <3>5 DEF EffectsLast
    <3>7. pv'[v].phase = "Gone"
      BY <3>1
    <3>8. EffectsLast(v)'
      BY <2>1, <3>6, <3>7 DEF EffectsLast, Home, Known
    <3> QED BY <2>3, <3>3, <3>8 DEF StableAt
  <2> QED BY <2>2, <2>3
<1>9. ASSUME NEW v \in Volumes, ReleasePV(v) PROVE StableAt(w)'
  <2>1. pod' = pod /\ dirs' = dirs /\ limited' = limited /\ op' = op /\ pv[v].phase = "Bound"
    BY <1>9 DEF ReleasePV, pods, disk
  <2>2. CASE w # v
    BY <1>t, <1>9, <1>s, <2>1, <2>2 DEF ReleasePV, SameVolume, SameDisk
  <2>3. CASE w = v
    <3>1. pv'[v] = [phase |-> "Released", aff |-> pv[v].aff]
      BY <1>t, <1>9 DEF ReleasePV
    <3>2. AtHome(v)'
      BY <1>t, <2>1, <3>1 DEF StableAt, AtHome, Aff
    <3>3. IsCleaned(v)' => IsCleaned(v)
      BY <2>1, <3>1 DEF IsCleaned
    <3>4. EffectsLast(v)
      BY <1>t DEF StableAt
    <3>5. Known(v) /\ (IsCleaned(v) => Home(v) \notin dirs)
      BY <2>1, <3>4 DEF EffectsLast
    <3>6. pv'[v].phase = "Released"
      BY <3>1
    <3>7. EffectsLast(v)'
      BY <2>1, <3>3, <3>5, <3>6 DEF EffectsLast, Home, Known
    <3> QED BY <2>3, <3>2, <3>7 DEF StableAt
  <2> QED BY <2>2, <2>3
<1>10. ASSUME Shutdown PROVE StableAt(w)'
  <2>1. op'[w] = NoOp /\ pv' = pv /\ PodsShrink(w) /\ SameDisk(w)
    BY <1>10, <1>d DEF Shutdown, PodsShrink, pods, objects
  <2> QED BY <1>t, <2>1, StableShrink
<1>11. ASSUME NEW v \in Volumes, NEW k \in Kinds, Schedule(<<k, v>>) PROVE StableAt(w)'
  <2>1. /\ op' = op /\ pv' = pv /\ SameDisk(w) /\ pod[<<k, v>>].phase = "Pending"
        /\ \A j \in Kinds, u \in Volumes : <<j, u>> # <<k, v>> => pod'[<<j, u>>] = pod[<<j, u>>]
    BY <1>t, <1>11, <1>d DEF Schedule, objects
  <2>2. PICK n \in NodesWithLabels(labels, pod[<<k, v>>].aff) :
          pod'[<<k, v>>] = InPhase(pod[<<k, v>>], "Running", n)
    BY <1>t, <1>11 DEF Schedule, Schedulable
  <2>3. pod[<<k, v>>].aff = Aff(v)
    BY <1>t, <2>1 DEF StableAt, AtHome
  <2>4. n = Selected[v]
    BY <1>t, <2>2, <2>3 DEF UniqueAffinity, Aff
  <2>5. CASE w = v
    BY <1>t, <2>1, <2>2, <2>4, <2>5, StableProgress DEF InPhase, Finished
  <2>6. CASE w # v
    BY <1>s, <2>1, <2>6 DEF SameVolume
  <2> QED BY <2>5, <2>6
<1>12. ASSUME NEW v \in Volumes, NEW k \in Kinds, Execute(<<k, v>>) PROVE StableAt(w)'
  BY <1>t, <1>s, <1>12, StableExecute, ExecuteIsLocal
<1>13. ASSUME NEW v \in Volumes, NEW k \in Kinds, ExecuteFails(<<k, v>>) \/ Report(<<k, v>>)
       PROVE  StableAt(w)'
  <2>1. /\ op' = op /\ pv' = pv /\ SameDisk(w)
        /\ pod[<<k, v>>].phase \in {"Running", "Done", "Broken"}
        /\ \A j \in Kinds, u \in Volumes : <<j, u>> # <<k, v>> => pod'[<<j, u>>] = pod[<<j, u>>]
    BY <1>t, <1>13, <1>d DEF ExecuteFails, Report, objects
  <2>2. pod[<<k, v>>].node = Selected[v]
    BY <1>t, <2>1 DEF StableAt, AtHome
  <2>3. \/ pod'[<<k, v>>] = InPhase(pod[<<k, v>>], "Broken", Selected[v])
        \/ pod'[<<k, v>>] = InPhase(pod[<<k, v>>], "Failed", Selected[v])
        \/ /\ pod'[<<k, v>>] = InPhase(pod[<<k, v>>], "Succeeded", Selected[v])
           /\ pod[<<k, v>>].phase = "Done"
    BY <1>t, <1>13, <2>2 DEF ExecuteFails, Report
  <2>4. CASE w = v
    BY <1>t, <2>1, <2>3, <2>4, StableProgress DEF InPhase, Finished
  <2>5. CASE w # v
    BY <1>s, <2>1, <2>5 DEF SameVolume
  <2> QED BY <2>4, <2>5
<1>14. ASSUME NEW v \in Volumes, NEW k \in Kinds, Terminate(<<k, v>>) PROVE StableAt(w)'
  <2>1. op' = op /\ pv' = pv /\ PodsShrink(w) /\ SameDisk(w)
    BY <1>t, <1>14, <1>d DEF Terminate, PodsShrink, objects
  <2> QED BY <1>t, <2>1, StableShrink
<1>15. ASSUME NEW v \in Volumes, NEW k \in Kinds, Evict(<<k, v>>) PROVE StableAt(w)'
  <2>1. op' = op /\ pv' = pv /\ DeletePod(<<k, v>>) /\ SameDisk(w)
    BY <1>15, <1>d DEF Evict, objects
  <2> QED BY <1>t, <1>s, <2>1, DeletePodShrinks, StableShrink DEF SameVolume
<1>16. ASSUME NEW n \in Nodes, Relabel(n) PROVE FALSE
  BY <1>16 DEF Relabel, Fault, StableLabels
<1>17. ASSUME (\E n \in Nodes : Retaint(n)) \/ (\E v \in Volumes : DeleteClaim(v))
       PROVE  StableAt(w)'
  <2>1. SameVolume(w) /\ UNCHANGED disk
    BY <1>17 DEF Retaint, DeleteClaim, SameVolume, pods, objects
  <2> QED BY <1>s, <1>d, <2>1
<1>18. CASE UNCHANGED vars
  BY <1>18, <1>s DEF vars, SameVolume, SameDisk
<1> QED
  BY <1>1, <1>2, <1>3, <1>4, <1>5, <1>6, <1>7, <1>8, <1>9, <1>10, <1>11, <1>12, <1>13,
     <1>14, <1>15, <1>16, <1>17, <1>18
  DEF Next, Step, Start, Kubelet

(***************************************************************************)
(* With stable labels nothing else changes them.                           *)
(***************************************************************************)
LEMMA LabelsStep ==
  ASSUME StableLabels, [Next]_vars PROVE labels' = labels
BY DEF StableLabels, Next, Start, Step, Kubelet, vars, cluster, Fault,
       LaunchPod, LaunchExists, LaunchFails, PollEnds, PollAgain, PollTimeout, PollFails,
       ExitPod, ExitPodFails, ProvisionHostPath, DeleteHostPath, SavePV, RemovePV,
       Shutdown, Schedule, Execute, ExecuteFails, Report, Terminate, Evict, Relabel, Retaint,
       DeleteClaim, ReleasePV

(***************************************************************************)
(* StableInv is an invariant of a cluster with stable, unique labels.      *)
(***************************************************************************)
THEOREM StableInvariance ==
  ASSUME StableLabels, UniqueAffinity
  PROVE  Spec => []StableInv
<1>1. Init => \A v \in Volumes : StableAt(v)
  <2> SUFFICES ASSUME Init, NEW v \in Volumes PROVE StableAt(v)
    OBVIOUS
  <2>1. /\ dirs = {} /\ op[v] = NoOp /\ pv[v].phase = "None"
        /\ \A k \in Kinds : pod[<<k, v>>] = NoPod
    BY DEF Init
  <2>2. AtHome(v)
    BY <2>1 DEF AtHome, NoOp, NoPod
  <2>3. ~NeedsDirectory(v) /\ ~NeedsLimit(v) /\ ~IsCleaned(v)
    BY <2>1 DEF NeedsDirectory, NeedsLimit, IsCleaned, NoOp, NoPod, Kinds, Finished
  <2>4. EffectsLast(v)
    BY <2>1, <2>3 DEF EffectsLast, NoOp, NoPod, Kinds, Finished
  <2> QED BY <2>2, <2>4 DEF StableAt
<1>2. Init => labels = InitLabels
  BY DEF Init
<1>3. StableInv /\ [Next]_vars => labels' = InitLabels /\ \A v \in Volumes : StableAt(v)'
  BY LabelsStep, StableStep DEF StableInv
<1>4. SafeInv /\ SafeInv' /\ StableInv /\ [Next]_vars => StableInv'
  BY <1>3 DEF StableInv
<1>5. SafeInv /\ Init => StableInv
  BY <1>1, <1>2 DEF StableInv
<1> QED BY <1>4, <1>5, SafeInvariance, PTL DEF Spec

(***************************************************************************)
(* What ProvisionHostPath returns can be mounted.                          *)
(***************************************************************************)
THEOREM BoundVolumeHasDirectoryInvariance ==
  ASSUME StableLabels, UniqueAffinity
  PROVE  Spec => []BoundVolumeHasDirectory
<1>1. StableInv => BoundVolumeHasDirectory
  <2> SUFFICES ASSUME StableInv, NEW v \in Volumes, pv[v].phase = "Bound"
               PROVE  /\ NodesWithLabels(labels, pv[v].aff) = {Selected[v]}
                      /\ <<Selected[v], v>> \in dirs
    BY DEF BoundVolumeHasDirectory
  <2>1. labels = InitLabels /\ AtHome(v) /\ EffectsLast(v)
    BY DEF StableInv, StableAt
  <2>2. pv[v].aff = Aff(v)
    BY <2>1 DEF AtHome
  <2> QED BY <2>1, <2>2 DEF UniqueAffinity, Aff, EffectsLast, Home
<1> QED BY <1>1, StableInvariance, PTL

(***************************************************************************)
(* What ProvisionHostPath returns has the limit its StorageClass asks for. *)
(***************************************************************************)
THEOREM BoundVolumeIsLimitedInvariance ==
  ASSUME StableLabels, UniqueAffinity
  PROVE  Spec => []BoundVolumeIsLimited
<1>1. StableInv => BoundVolumeIsLimited
  <2> SUFFICES ASSUME StableInv, NEW v \in Volumes, pv[v].phase = "Bound", Quotas[v] > 0
               PROVE  /\ NodesWithLabels(labels, pv[v].aff) = {Selected[v]}
                      /\ <<Selected[v], v>> \in limited
    BY DEF BoundVolumeIsLimited
  <2>1. labels = InitLabels /\ AtHome(v) /\ EffectsLast(v)
    BY DEF StableInv, StableAt
  <2>2. pv[v].aff = Aff(v)
    BY <2>1 DEF AtHome
  <2> QED BY <2>1, <2>2 DEF UniqueAffinity, Aff, EffectsLast, Home
<1> QED BY <1>1, StableInvariance, PTL

(***************************************************************************)
(* A PV that is removed leaves no directory behind, anywhere, for good.    *)
(***************************************************************************)
THEOREM ReclaimLeavesNoDirectoryInvariance ==
  ASSUME StableLabels, UniqueAffinity
  PROVE  Spec => []ReclaimLeavesNoDirectory
<1>1. StableInv => ReclaimLeavesNoDirectory
  <2> SUFFICES ASSUME StableInv, NEW v \in Volumes, pv[v].phase = "Gone", NEW n \in Nodes
               PROVE  <<n, v>> \notin dirs
    BY DEF ReclaimLeavesNoDirectory
  <2>1. AtHome(v) /\ EffectsLast(v)
    BY DEF StableInv, StableAt
  <2> QED BY <2>1 DEF AtHome, EffectsLast, IsCleaned, Home
<1> QED BY <1>1, StableInvariance, PTL

-----------------------------------------------------------------------------
(***************************************************************************)
(* The refinement.  Only a running command changes a directory, and only   *)
(* the writes of the PV change its phase.                                  *)
(***************************************************************************)
LEMMA DiskOrPV ==
  ASSUME [Next]_vars
  PROVE  \/ dirs' = dirs /\ pv' = pv
         \/ pv' = pv /\ \E p \in Kinds \X Volumes : Execute(p)
         \/ dirs' = dirs /\ \E v \in Volumes : SavePV(v) \/ RemovePV(v) \/ ReleasePV(v)
BY DEF Next, Start, Step, Kubelet, vars, disk, objects,
       LaunchPod, LaunchExists, LaunchFails, PollEnds, PollAgain, PollTimeout, PollFails,
       ExitPod, ExitPodFails, ProvisionHostPath, DeleteHostPath, SavePV, RemovePV,
       Shutdown, Schedule, Execute, ExecuteFails, Report, Terminate, Evict, Relabel, Retaint,
       DeleteClaim, ReleasePV

(***************************************************************************)
(* A command of a volume's pod is a step of Prepare before there is a PV,  *)
(* of Erase after its release, and no step of the abstract volume when it  *)
(* finds nothing to do.                                                    *)
(***************************************************************************)
LEMMA ExecuteRefines ==
  ASSUME StableInv, StableInv', NEW v \in Volumes, NEW k \in Kinds, Execute(<<k, v>>), pv' = pv
  PROVE  Lifecycle!Next \/ DataOf(dirs') = DataOf(dirs)
<1>1. TypeOK /\ SafeAt(v) /\ AtHome(v) /\ EffectsLast(v) /\ EffectsLast(v)'
  BY DEF StableInv, SafeInv, StableAt
<1>2. \A w \in Volumes : w # v => DataOf(dirs')[w] = DataOf(dirs)[w]
  BY <1>1, ExecuteIsLocal DEF SameDisk, DataOf
<1>3. DataOf(dirs') = [DataOf(dirs) EXCEPT ![v] = DataOf(dirs')[v]]
  BY <1>2 DEF DataOf
<1>4. DataOf(dirs')[v] \in {"present", "absent"} /\ DataOf(dirs)[v] \in {"present", "absent"}
  BY DEF DataOf
<1>5. pod[<<k, v>>].phase = "Running"
  BY DEF Execute
<1>6. StatusOf(pv') = StatusOf(pv) /\ StatusOf(pv)[v] = pv[v].phase
  BY DEF StatusOf
<1>7. CASE pv[v].phase = "None"
  BY <1>3, <1>4, <1>6, <1>7 DEF Lifecycle!Next, Lifecycle!Prepare
<1>8. CASE pv[v].phase # "None"
  <2>1. k = "cleanup" /\ pv[v].phase \in {"Released", "Gone"} /\ Policy[v] # "Retain"
    BY <1>1, <1>5, <1>8 DEF SafeAt, PodsStayFinished, InitIsOver, QuotaIsOver, Kinds
  <2>2. CASE pv[v].phase = "Gone"
    <3>1. Home(v) \notin dirs /\ Home(v) \notin dirs'
      BY <1>1, <2>2 DEF EffectsLast, IsCleaned, Home
    <3>2. DataOf(dirs')[v] = DataOf(dirs)[v]
      BY <3>1 DEF DataOf, Home
    <3> QED BY <1>3, <3>2 DEF DataOf
  <2>3. CASE pv[v].phase = "Released"
    <3>2. pod[<<k, v>>].node = Selected[v]
      BY <1>1, <1>5 DEF AtHome
    <3>3. Home(v) \notin dirs'
      BY <2>1, <3>2 DEF Execute, Command, RemoveDirectory, Home
    <3>4. DataOf(dirs')[v] = "absent"
      BY <3>3 DEF DataOf, Home
    <3> QED BY <1>3, <1>6, <2>1, <2>3, <3>4 DEF Lifecycle!Next, Lifecycle!Erase
  <2> QED BY <2>1, <2>2, <2>3
<1> QED BY <1>7, <1>8

(***************************************************************************)
(* The writes of the PV are Publish, Retire and Release.                   *)
(***************************************************************************)
LEMMA WriteRefines ==
  ASSUME StableInv, NEW v \in Volumes, dirs' = dirs, SavePV(v) \/ RemovePV(v) \/ ReleasePV(v)
  PROVE  Lifecycle!Next
<1>1. TypeOK /\ SafeAt(v) /\ AtHome(v) /\ EffectsLast(v)
  BY DEF StableInv, SafeInv, StableAt
<1>2. DataOf(dirs') = DataOf(dirs) /\ StatusOf(pv)[v] = pv[v].phase
      /\ DataOf(dirs)[v] = IF Home(v) \in dirs THEN "present" ELSE "absent"
  BY DEF DataOf, StatusOf, Home
<1>3. CASE SavePV(v)
  <2>1. op[v].pc = "save" /\ pv[v].phase = "None"
    <3>1. op[v].pc = "save" /\ op[v].kind \in Kinds \cup {"none"}
      BY <1>1, <1>3 DEF SavePV, TypeOK, OpType
    <3> QED BY <1>1, <3>1 DEF SafeAt, OpMatchesPV, Kinds
  <2>2. Home(v) \in dirs
    BY <1>1, <2>1 DEF EffectsLast, NeedsDirectory
  <2>3. StatusOf(pv') = [StatusOf(pv) EXCEPT ![v] = "Bound"]
    BY <1>1, <1>3 DEF SavePV, StatusOf, TypeOK
  <2> QED BY <1>2, <2>1, <2>2, <2>3 DEF Lifecycle!Next, Lifecycle!Publish
<1>4. CASE RemovePV(v)
  <2>1. op[v].pc = "reclaim" /\ pv[v].phase = "Released" /\ Policy[v] # "Retain"
    BY <1>1, <1>4 DEF RemovePV, SafeAt, OpMatchesPV
  <2>2. Home(v) \notin dirs
    BY <1>1, <2>1 DEF EffectsLast, IsCleaned, SafeAt, OpMatchesPV
  <2>3. StatusOf(pv') = [StatusOf(pv) EXCEPT ![v] = "Gone"]
    BY <1>1, <1>4 DEF RemovePV, StatusOf, TypeOK
  <2> QED BY <1>2, <2>1, <2>2, <2>3 DEF Lifecycle!Next, Lifecycle!Retire
<1>5. CASE ReleasePV(v)
  <2>1. StatusOf(pv') = [StatusOf(pv) EXCEPT ![v] = "Released"]
    BY <1>1, <1>5 DEF ReleasePV, StatusOf, TypeOK
  <2> QED BY <1>2, <1>5, <2>1 DEF ReleasePV, Lifecycle!Next, Lifecycle!Release
<1> QED BY <1>3, <1>4, <1>5

(***************************************************************************)
(* ProvisionHostPath and DeleteHostPath implement the volume lifecycle.    *)
(***************************************************************************)
THEOREM HostPathRefinesLifecycle ==
  ASSUME StableLabels, UniqueAffinity
  PROVE  Spec => ImplementsLifecycle
<1>1. Init => Lifecycle!Init
  BY DEF Init, Lifecycle!Init, DataOf, StatusOf
<1>2. StableInv /\ StableInv' /\ [Next]_vars => [Lifecycle!Next]_(Lifecycle!vars)
  <2> SUFFICES ASSUME StableInv, StableInv', [Next]_vars
               PROVE  Lifecycle!Next \/ Lifecycle!vars' = Lifecycle!vars
    OBVIOUS
  <2>1. CASE dirs' = dirs /\ pv' = pv
    BY <2>1 DEF Lifecycle!vars, DataOf, StatusOf
  <2>2. CASE pv' = pv /\ \E p \in Kinds \X Volumes : Execute(p)
    <3>p. PICK p \in Kinds \X Volumes : Execute(p)
      BY <2>2
    <3>1. PICK k \in Kinds, v \in Volumes : p = <<k, v>>
      OBVIOUS
    <3>2. Lifecycle!Next \/ DataOf(dirs') = DataOf(dirs)
      BY <2>2, <3>p, <3>1, ExecuteRefines
    <3>3. StatusOf(pv') = StatusOf(pv)
      BY <2>2 DEF StatusOf
    <3>4. CASE DataOf(dirs') = DataOf(dirs)
      BY <3>3, <3>4 DEF Lifecycle!vars
    <3> QED BY <3>2, <3>4
  <2>3. CASE dirs' = dirs /\ \E v \in Volumes : SavePV(v) \/ RemovePV(v) \/ ReleasePV(v)
    BY <2>3, WriteRefines
  <2> QED BY <2>1, <2>2, <2>3, DiskOrPV
<1> QED BY <1>1, <1>2, StableInvariance, PTL DEF Spec, ImplementsLifecycle, Lifecycle!Spec

=============================================================================
