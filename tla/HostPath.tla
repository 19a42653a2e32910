------------------------------- MODULE HostPath -------------------------------
(***************************************************************************)
(* Hostpath local volumes: the provisioner's Provision and Delete          *)
(* operations, the helper pods they launch, and the cluster those pods run *)
(* in.                                                                     *)
(*                                                                         *)
(* The unit of interleaving is one call to the Kubernetes API: an operation *)
(* of the provisioner on a volume is a thread of control (op[v]) that      *)
(* launches a helper pod, polls it, deletes it, and goes on to the next    *)
(* one.  The scheduler and the kubelet move the pods meanwhile.  A helper  *)
(* pod is named after its kind and its volume, so its API object is also a *)
(* lock: Create fails while an object of that name exists.                 *)
(*                                                                         *)
(* Faults (an API error, a lost reply, a pod that outlives the poll, a     *)
(* restart of the provisioner, ...) are actions of the environment.  The   *)
(* kinds that may occur and their number are parameters.                   *)
(***************************************************************************)
EXTENDS Naturals, FiniteSets

CONSTANTS
  Nodes,             \* the nodes of the cluster
  NoNode,            \* the node of a pod that is not scheduled
  Volumes,           \* the volumes; a claim, its PV and its directory share one name
  LabelPairs,        \* the <<key, value>> pairs a node may carry, value non-empty
  InitLabels,        \* the labels of each node at the start
  LabelStates,       \* the label sets an administrator may give to a node
  Taints,            \* the taints a node may carry
  InitTaints,        \* the taints of each node at the start
  Filesystem,        \* the filesystem under the base path of each node
  Selected,          \* the node the scheduler selected for each claim
  AffinityKeys,      \* the keys in the list NodeAffinityLabels; {} when there is none
  Quotas,            \* how many of XFSQuota and EXT4Quota are enabled for a volume
  ValidLimits,       \* the volumes whose quota limits createQuotaPod accepts
  Policy,            \* the reclaim policy of each volume
  CmdTimeoutCounts,  \* the number of polls before a helper pod is given up
  FaultKinds,        \* the kinds of faults that may occur
  MaxFaults          \* bound on the number of faults in a behaviour

Hostname == "kubernetes.io/hostname"
Kinds == {"init", "quota", "cleanup"}
Faults == {"create", "reply", "get", "delete", "slow", "fail", "evict",
           "shutdown", "relabel", "retaint"}

ASSUME ClusterAssumption ==
  /\ NoNode \notin Nodes
  /\ InitLabels \in [Nodes -> SUBSET LabelPairs]
  /\ LabelStates \subseteq SUBSET LabelPairs
  /\ InitTaints \in [Nodes -> SUBSET Taints]
  /\ Filesystem \in [Nodes -> {"xfs", "ext2/ext3", "other"}]

ASSUME VolumeAssumption ==
  /\ Selected \in [Volumes -> Nodes]
  /\ AffinityKeys \in [Volumes -> SUBSET {l[1] : l \in LabelPairs}]
  /\ Quotas \in [Volumes -> 0..2]
  /\ ValidLimits \subseteq Volumes
  /\ Policy \in [Volumes -> {"Delete", "Retain"}]

ASSUME BoundAssumption ==
  /\ CmdTimeoutCounts \in Nat \ {0}
  /\ FaultKinds \subseteq Faults
  /\ MaxFaults \in Nat

VARIABLES
  labels,       \* labels[n]: the labels of node n
  taints,       \* taints[n]: the taints of node n
  dirs,         \* the pairs <<n, v>> where n has a directory for v under the base path
  limited,      \* the pairs <<n, v>> whose directory has a project with a limit
  pod,          \* pod[k, v]: the API object of the helper pod of kind k for v
  terminating,  \* the helper pods that are deleted but still on their node
  op,           \* op[v]: the operation of the provisioner on v
  claim,        \* claim[v]: the PersistentVolumeClaim of v
  pv,           \* pv[v]: the PersistentVolume object of v
  faults        \* the number of faults so far

cluster == <<labels, taints>>
disk == <<dirs, limited>>
pods == <<pod, terminating>>
objects == <<claim, pv>>
vars == <<labels, taints, dirs, limited, pod, terminating, op, claim, pv, faults>>

(***************************************************************************)
(* A pod that is "Done" or "Broken" has run its command but the API still  *)
(* shows it running: the kubelet reports "Succeeded" or "Failed" later.    *)
(***************************************************************************)
Phases == {"None", "Pending", "Running", "Done", "Broken", "Succeeded", "Failed"}

PodType == [phase : Phases, node : Nodes \cup {NoNode},
            aff : SUBSET LabelPairs, tol : SUBSET Taints]
NoPod == [phase |-> "None", node |-> NoNode, aff |-> {}, tol |-> {}]

\* The pod d in phase f on node n.
InPhase(d, f, n) == [phase |-> f, node |-> n, aff |-> d.aff, tol |-> d.tol]

(***************************************************************************)
(* pc says which call comes next: Create ("launch"), Get ("poll"), the     *)
(* deferred Delete after a success or an error ("exitOk", "exitErr"), or   *)
(* the controller's write once Provision ("save") or Delete ("reclaim")    *)
(* has returned without an error.                                          *)
(***************************************************************************)
PCs == {"idle", "launch", "poll", "exitOk", "exitErr", "save", "reclaim"}

OpType == [pc : PCs, kind : Kinds \cup {"none"}, aff : SUBSET LabelPairs,
           tol : SUBSET Taints, polls : 0..CmdTimeoutCounts, quotas : 0..2]
NoOp == [pc |-> "idle", kind |-> "none", aff |-> {}, tol |-> {},
         polls |-> 0, quotas |-> 0]

\* The operation o at program counter c.
At(o, c) == [pc |-> c, kind |-> o.kind, aff |-> o.aff, tol |-> o.tol,
             polls |-> o.polls, quotas |-> o.quotas]

\* The operation o after one more poll, and when it goes on to its next quota.
Polled(o) == [pc |-> o.pc, kind |-> o.kind, aff |-> o.aff, tol |-> o.tol,
              polls |-> o.polls + 1, quotas |-> o.quotas]
QuotaStep(o) == [pc |-> "launch", kind |-> "quota", aff |-> o.aff, tol |-> o.tol,
                 polls |-> 0, quotas |-> o.quotas - 1]

PVType == [phase : {"None", "Bound", "Released", "Gone"}, aff : SUBSET LabelPairs]

(***************************************************************************)
(* The state space: every variable has its type, the faults their bound.   *)
(***************************************************************************)
TypeOK ==
  /\ labels \in [Nodes -> SUBSET LabelPairs]
  /\ taints \in [Nodes -> SUBSET Taints]
  /\ dirs \subseteq Nodes \X Volumes
  /\ limited \subseteq Nodes \X Volumes
  /\ pod \in [Kinds \X Volumes -> PodType]
  /\ terminating \subseteq Kinds \X Volumes
  /\ op \in [Volumes -> OpType]
  /\ claim \in [Volumes -> {"present", "deleted"}]
  /\ pv \in [Volumes -> PVType]
  /\ faults \in 0..MaxFaults

Init ==
  /\ labels = InitLabels
  /\ taints = InitTaints
  /\ dirs = {}
  /\ limited = {}
  /\ pod = [p \in Kinds \X Volumes |-> NoPod]
  /\ terminating = {}
  /\ op = [v \in Volumes |-> NoOp]
  /\ claim = [v \in Volumes |-> "present"]
  /\ pv = [v \in Volumes |-> [phase |-> "None", aff |-> {}]]
  /\ faults = 0

Fault(kind) ==
  /\ kind \in FaultKinds
  /\ faults < MaxFaults
  /\ faults' = faults + 1

-----------------------------------------------------------------------------
(***************************************************************************)
(* Node affinity.  A configured key the node does not carry, or carries    *)
(* with an empty value, is dropped from the pod's and the PV's affinity.   *)
(***************************************************************************)
Keys(v) == IF AffinityKeys[v] = {} THEN {Hostname} ELSE AffinityKeys[v]

NodeAffinityLabels(lab, v) == {l \in lab[Selected[v]] : l[1] \in Keys(v)}

\* The nodes that carry every label of aff: List with a label selector.
NodesWithLabels(lab, aff) == {n \in Nodes : aff \subseteq lab[n]}

-----------------------------------------------------------------------------
(***************************************************************************)
(* Helper pods: launchPod and exitPod.                                     *)
(***************************************************************************)
HelperPod(v) == <<op[v].kind, v>>

NewPod(v) == [phase |-> "Pending", node |-> NoNode,
              aff |-> op[v].aff, tol |-> op[v].tol]

\* launchPod: Create succeeds when no object has the pod's name.
LaunchPod(v) ==
  /\ op[v].pc = "launch"
  /\ pod[HelperPod(v)].phase = "None"
  /\ pod' = [pod EXCEPT ![HelperPod(v)] = NewPod(v)]
  /\ op' = [op EXCEPT ![v] = At(op[v], "poll")]
  /\ UNCHANGED <<cluster, disk, terminating, objects, faults>>

\* launchPod: an object of this name exists, the operation returns the error.
LaunchExists(v) ==
  /\ op[v].pc = "launch"
  /\ pod[HelperPod(v)].phase # "None"
  /\ op' = [op EXCEPT ![v] = NoOp]
  /\ UNCHANGED <<cluster, disk, pods, objects, faults>>

\* launchPod: Create fails; the pod may exist all the same, its reply lost.
LaunchFails(v) ==
  /\ op[v].pc = "launch"
  /\ \/ Fault("create") /\ UNCHANGED pod
     \/ /\ Fault("reply")
        /\ pod[HelperPod(v)].phase = "None"
        /\ pod' = [pod EXCEPT ![HelperPod(v)] = NewPod(v)]
  /\ op' = [op EXCEPT ![v] = NoOp]
  /\ UNCHANGED <<cluster, disk, terminating, objects>>

(***************************************************************************)
(* A pod that is not held up will succeed.  Its operation outlives the     *)
(* last poll only by the fault "slow"; a pod that is held up (failed,      *)
(* being deleted, or not schedulable) is polled until the timeout.         *)
(***************************************************************************)
Schedulable(p) ==
  {n \in NodesWithLabels(labels, pod[p].aff) : taints[n] \subseteq pod[p].tol}

HeldUp(p) ==
  \/ pod[p].phase \in {"Broken", "Failed"}
  \/ p \in terminating
  \/ pod[p].phase = "Pending" /\ Schedulable(p) = {}

\* Mutant of PollEnds: a pod that is not found counts as finished.
PollEndsNotFoundIsOk(v) ==
  /\ op[v].pc = "poll"
  /\ pod[HelperPod(v)].phase \in {"Succeeded", "None"}
  /\ op' = [op EXCEPT ![v] = At(op[v], "exitOk")]
  /\ UNCHANGED <<cluster, disk, pods, objects, faults>>

\* exitPod: a Get finds the pod succeeded, or not there at all, and ends the loop.
PollEnds(v) ==
  /\ op[v].pc = "poll"
  /\ \/ /\ pod[HelperPod(v)].phase = "Succeeded"
        /\ op' = [op EXCEPT ![v] = At(op[v], "exitOk")]
     \/ /\ pod[HelperPod(v)].phase = "None"
        /\ op' = [op EXCEPT ![v] = At(op[v], "exitErr")]
  /\ UNCHANGED <<cluster, disk, pods, objects, faults>>

\* Mutant of PollAgain: the loop has no limit.
PollAgainForever(v) ==
  /\ op[v].pc = "poll"
  /\ pod[HelperPod(v)].phase \notin {"Succeeded", "None"}
  /\ op' = [op EXCEPT ![v] = Polled(op[v])]
  /\ UNCHANGED <<cluster, disk, pods, objects, faults>>

\* exitPod: a Get finds the pod in any other phase, and the loop has iterations left.
PollAgain(v) ==
  /\ op[v].pc = "poll"
  /\ pod[HelperPod(v)].phase \notin {"Succeeded", "None"}
  /\ op[v].polls + 1 < CmdTimeoutCounts
  /\ op' = [op EXCEPT ![v] = Polled(op[v])]
  /\ UNCHANGED <<cluster, disk, pods, objects, faults>>

\* Mutant of PollTimeout: exitPod forgets to compare the count after the loop.
PollTimeoutIsOk(v) ==
  /\ op[v].pc = "poll"
  /\ pod[HelperPod(v)].phase \notin {"Succeeded", "None"}
  /\ op[v].polls + 1 = CmdTimeoutCounts
  /\ \/ HeldUp(HelperPod(v)) /\ UNCHANGED faults
     \/ Fault("slow")
  /\ op' = [op EXCEPT ![v] = At(op[v], "exitOk")]
  /\ UNCHANGED <<cluster, disk, pods, objects>>

\* exitPod: the last Get does not find the pod succeeded.
PollTimeout(v) ==
  /\ op[v].pc = "poll"
  /\ pod[HelperPod(v)].phase \notin {"Succeeded", "None"}
  /\ op[v].polls + 1 = CmdTimeoutCounts
  /\ \/ HeldUp(HelperPod(v)) /\ UNCHANGED faults
     \/ Fault("slow")
  /\ op' = [op EXCEPT ![v] = At(op[v], "exitErr")]
  /\ UNCHANGED <<cluster, disk, pods, objects>>

\* exitPod: a Get fails and its error is returned.
PollFails(v) ==
  /\ op[v].pc = "poll"
  /\ Fault("get")
  /\ op' = [op EXCEPT ![v] = At(op[v], "exitErr")]
  /\ UNCHANGED <<cluster, disk, pods, objects>>

(***************************************************************************)
(* DELETE of a pod.  The API server drops the object at once when the pod  *)
(* is not scheduled or has reported its end; otherwise the object stays    *)
(* until the kubelet has stopped the container.                            *)
(***************************************************************************)
DeletePod(p) ==
  IF pod[p].phase \in {"Running", "Done", "Broken"}
  THEN /\ terminating' = terminating \cup {p}
       /\ UNCHANGED pod
  ELSE /\ pod' = [pod EXCEPT ![p] = NoPod]
       /\ terminating' = terminating \ {p}

\* Mutants of NextStep: the error of a quota pod, or of a cleanup pod, is ignored.
NextStepIgnoresQuotaError(v) ==
  /\ op[v].pc \in {"exitOk", "exitErr"}
  /\ op' = [op EXCEPT ![v] =
       IF op[v].pc = "exitErr" /\ op[v].kind # "quota" THEN NoOp
       ELSE IF op[v].kind = "cleanup" THEN At(op[v], "reclaim")
       ELSE IF op[v].quotas = 0 THEN At(op[v], "save")
       ELSE IF v \in ValidLimits THEN QuotaStep(op[v]) ELSE NoOp]

NextStepIgnoresCleanupError(v) ==
  /\ op[v].pc \in {"exitOk", "exitErr"}
  /\ op' = [op EXCEPT ![v] =
       IF op[v].kind = "cleanup" THEN At(op[v], "reclaim")
       ELSE IF op[v].pc = "exitErr" THEN NoOp
       ELSE IF op[v].quotas = 0 THEN At(op[v], "save")
       ELSE IF v \in ValidLimits THEN QuotaStep(op[v]) ELSE NoOp]

(***************************************************************************)
(* What the caller of exitPod does next: Delete returns; Provision applies *)
(* the next quota, unless its limits are rejected, or returns the PV; an   *)
(* error ends the operation.                                               *)
(***************************************************************************)
NextStep(v) ==
  \/ /\ op[v].pc = "exitErr"
     /\ op' = [op EXCEPT ![v] = NoOp]
  \/ /\ op[v].pc = "exitOk" /\ op[v].kind = "cleanup"
     /\ op' = [op EXCEPT ![v] = At(op[v], "reclaim")]
  \/ /\ op[v].pc = "exitOk" /\ op[v].kind # "cleanup" /\ op[v].quotas = 0
     /\ op' = [op EXCEPT ![v] = At(op[v], "save")]
  \/ /\ op[v].pc = "exitOk" /\ op[v].kind # "cleanup" /\ op[v].quotas > 0
     /\ IF v \in ValidLimits
        THEN op' = [op EXCEPT ![v] = QuotaStep(op[v])]
        ELSE op' = [op EXCEPT ![v] = NoOp]

\* Mutant of ExitPod: the Delete is not deferred, so an error return skips it.
ExitPodKeepsFailed(v) ==
  /\ NextStep(v)
  /\ IF op[v].pc = "exitErr" THEN UNCHANGED pods ELSE DeletePod(HelperPod(v))
  /\ UNCHANGED <<cluster, disk, objects, faults>>

\* exitPod: the deferred Delete, and what its caller does with the result.
ExitPod(v) ==
  /\ NextStep(v)
  /\ DeletePod(HelperPod(v))
  /\ UNCHANGED <<cluster, disk, objects, faults>>

\* exitPod: the deferred Delete fails; the error is logged and the result is the same.
ExitPodFails(v) ==
  /\ NextStep(v)
  /\ Fault("delete")
  /\ UNCHANGED <<cluster, disk, pods, objects>>

-----------------------------------------------------------------------------
(***************************************************************************)
(* The operations.  A request that Provision or Delete rejects before its  *)
(* first write (no affinity label left, no node or several nodes found)    *)
(* changes nothing and is tried again.                                     *)
(***************************************************************************)
\* Mutant of ProvisionHostPath: the taints of the node are not tolerated.
ProvisionWithoutTolerations(v) ==
  /\ op[v].pc = "idle"
  /\ claim[v] = "present"
  /\ pv[v].phase = "None"
  /\ NodeAffinityLabels(labels, v) # {}
  /\ op' = [op EXCEPT ![v] =
       [pc |-> "launch", kind |-> "init", aff |-> NodeAffinityLabels(labels, v),
        tol |-> {}, polls |-> 0, quotas |-> Quotas[v]]]
  /\ UNCHANGED <<cluster, disk, pods, objects, faults>>

ProvisionHostPath(v) ==
  /\ op[v].pc = "idle"
  /\ claim[v] = "present"
  /\ pv[v].phase = "None"
  /\ \E l \in labels[Selected[v]] : l[1] = Hostname
  /\ NodeAffinityLabels(labels, v) # {}
  /\ op' = [op EXCEPT ![v] =
       [pc |-> "launch", kind |-> "init", aff |-> NodeAffinityLabels(labels, v),
        tol |-> taints[Selected[v]], polls |-> 0, quotas |-> Quotas[v]]]
  /\ UNCHANGED <<cluster, disk, pods, objects, faults>>

\* Mutant of DeleteHostPath: the reclaim policy is not looked at.
DeleteWithoutPolicy(v) ==
  /\ op[v].pc = "idle"
  /\ pv[v].phase = "Released"
  /\ \E n \in Nodes :
       /\ NodesWithLabels(labels, pv[v].aff) = {n}
       /\ op' = [op EXCEPT ![v] =
            [pc |-> "launch", kind |-> "cleanup", aff |-> pv[v].aff,
             tol |-> taints[n], polls |-> 0, quotas |-> 0]]
  /\ UNCHANGED <<cluster, disk, pods, objects, faults>>

DeleteHostPath(v) ==
  /\ op[v].pc = "idle"
  /\ pv[v].phase = "Released"
  /\ Policy[v] # "Retain"
  /\ \E n \in Nodes :
       /\ NodesWithLabels(labels, pv[v].aff) = {n}
       /\ op' = [op EXCEPT ![v] =
            [pc |-> "launch", kind |-> "cleanup", aff |-> pv[v].aff,
             tol |-> taints[n], polls |-> 0, quotas |-> 0]]
  /\ UNCHANGED <<cluster, disk, pods, objects, faults>>

\* The controller writes the PV that Provision returned.
SavePV(v) ==
  /\ op[v].pc = "save"
  /\ pv' = [pv EXCEPT ![v] = [phase |-> "Bound", aff |-> op[v].aff]]
  /\ op' = [op EXCEPT ![v] = NoOp]
  /\ UNCHANGED <<cluster, disk, pods, claim, faults>>

\* The controller removes the PV after Delete has returned nil.
RemovePV(v) ==
  /\ op[v].pc = "reclaim"
  /\ pv' = [pv EXCEPT ![v] = [phase |-> "Gone", aff |-> pv[v].aff]]
  /\ op' = [op EXCEPT ![v] = NoOp]
  /\ UNCHANGED <<cluster, disk, pods, claim, faults>>

\* The process ends in the middle of its operations; its successor starts afresh.
Shutdown ==
  /\ \E v \in Volumes : op[v].pc # "idle"
  /\ Fault("shutdown")
  /\ op' = [v \in Volumes |-> NoOp]
  /\ UNCHANGED <<cluster, disk, pods, objects>>

-----------------------------------------------------------------------------
(***************************************************************************)
(* The cluster.                                                            *)
(***************************************************************************)
Schedule(p) ==
  /\ pod[p].phase = "Pending"
  /\ \E n \in Schedulable(p) :
       pod' = [pod EXCEPT ![p] = InPhase(pod[p], "Running", n)]
  /\ UNCHANGED <<cluster, disk, terminating, op, objects, faults>>

(***************************************************************************)
(* The commands of the helper pods, run on node n for volume v; end is the *)
(* phase that follows.  The quota script fails on a filesystem it does not *)
(* know, having removed the directory; on the others the exit code is that *)
(* of its last command, which succeeds even when there is no directory to  *)
(* assign the project to.                                                  *)
(***************************************************************************)
MakeDirectory(n, v, end) ==
  /\ dirs' = dirs \cup {<<n, v>>}
  /\ end = "Done"
  /\ UNCHANGED limited

RemoveDirectory(n, v, end) ==
  /\ dirs' = dirs \ {<<n, v>>}
  /\ limited' = limited \ {<<n, v>>}
  /\ end = "Done"

\* Mutant of ApplyQuota: the script does not fail on a filesystem it does not know.
ApplyQuotaUnlessUnknown(n, v, end) ==
  /\ limited' = IF Filesystem[n] # "other" THEN limited \cup ({<<n, v>>} \cap dirs) ELSE limited
  /\ end = "Done"
  /\ UNCHANGED dirs

ApplyQuota(n, v, end) ==
  \/ /\ Filesystem[n] # "other"
     /\ limited' = limited \cup ({<<n, v>>} \cap dirs)
     /\ end = "Done"
     /\ UNCHANGED dirs
  \/ /\ Filesystem[n] = "other"
     /\ dirs' = dirs \ {<<n, v>>}
     /\ limited' = limited \ {<<n, v>>}
     /\ end = "Broken"

Command(k, n, v, end) ==
  \/ k = "init" /\ MakeDirectory(n, v, end)
  \/ k = "quota" /\ ApplyQuota(n, v, end)
  \/ k = "cleanup" /\ RemoveDirectory(n, v, end)

\* The container runs; being deleted does not stop it from getting this far.
Execute(p) ==
  /\ pod[p].phase = "Running"
  /\ \E end \in {"Done", "Broken"} :
       /\ Command(p[1], pod[p].node, p[2], end)
       /\ pod' = [pod EXCEPT ![p] = InPhase(pod[p], end, pod[p].node)]
  /\ UNCHANGED <<cluster, terminating, op, objects, faults>>

\* The container cannot be started, or its command fails.
ExecuteFails(p) ==
  /\ pod[p].phase = "Running"
  /\ Fault("fail")
  /\ pod' = [pod EXCEPT ![p] = InPhase(pod[p], "Broken", pod[p].node)]
  /\ UNCHANGED <<cluster, disk, terminating, op, objects>>

Report(p) ==
  /\ \/ pod[p].phase = "Done" /\ pod' = [pod EXCEPT ![p] = InPhase(pod[p], "Succeeded", pod[p].node)]
     \/ pod[p].phase = "Broken" /\ pod' = [pod EXCEPT ![p] = InPhase(pod[p], "Failed", pod[p].node)]
  /\ UNCHANGED <<cluster, disk, terminating, op, objects, faults>>

\* The kubelet has stopped the container and lets the object go.
Terminate(p) ==
  /\ p \in terminating
  /\ pod' = [pod EXCEPT ![p] = NoPod]
  /\ terminating' = terminating \ {p}
  /\ UNCHANGED <<cluster, disk, op, objects, faults>>

\* Someone else deletes the pod: an eviction, or an administrator.
Evict(p) ==
  /\ pod[p].phase # "None" /\ p \notin terminating
  /\ Fault("evict")
  /\ DeletePod(p)
  /\ UNCHANGED <<cluster, disk, op, objects>>

Relabel(n) ==
  /\ Fault("relabel")
  /\ \E l \in LabelStates : labels' = [labels EXCEPT ![n] = l]
  /\ UNCHANGED <<taints, disk, pods, op, objects>>

Retaint(n) ==
  /\ Fault("retaint")
  /\ \E t \in SUBSET Taints : taints' = [taints EXCEPT ![n] = t]
  /\ UNCHANGED <<labels, disk, pods, op, objects>>

DeleteClaim(v) ==
  /\ claim[v] = "present"
  /\ claim' = [claim EXCEPT ![v] = "deleted"]
  /\ UNCHANGED <<cluster, disk, pods, op, pv, faults>>

\* The cluster's own controller finds that the claim of a PV is gone.
ReleasePV(v) ==
  /\ pv[v].phase = "Bound"
  /\ claim[v] = "deleted"
  /\ pv' = [pv EXCEPT ![v] = [phase |-> "Released", aff |-> pv[v].aff]]
  /\ UNCHANGED <<cluster, disk, pods, op, claim, faults>>

-----------------------------------------------------------------------------
Step(v) ==
  \/ LaunchPod(v) \/ LaunchExists(v)
  \/ PollEnds(v) \/ PollAgain(v) \/ PollTimeout(v)
  \/ ExitPod(v) \/ SavePV(v) \/ RemovePV(v)

Start(v) == ProvisionHostPath(v) \/ DeleteHostPath(v)

Kubelet(p) == Execute(p) \/ Report(p)

Next ==
  \/ \E v \in Volumes :
       \/ Start(v) \/ Step(v)
       \/ LaunchFails(v) \/ PollFails(v) \/ ExitPodFails(v)
       \/ DeleteClaim(v) \/ ReleasePV(v)
  \/ \E p \in Kinds \X Volumes :
       Schedule(p) \/ Kubelet(p) \/ Terminate(p) \/ ExecuteFails(p) \/ Evict(p)
  \/ \E n \in Nodes : Relabel(n) \/ Retaint(n)
  \/ Shutdown

Spec == Init /\ [][Next]_vars

(***************************************************************************)
(* The controller's work queue retries an operation that failed, and a     *)
(* worker finishes the one it runs; scheduler, kubelet and the cluster's   *)
(* controllers make progress.  Nothing forces a fault or a user to act.    *)
(***************************************************************************)
Fairness ==
  /\ \A v \in Volumes :
       WF_vars(Start(v)) /\ WF_vars(Step(v)) /\ WF_vars(ReleasePV(v))
  /\ \A p \in Kinds \X Volumes :
       WF_vars(Schedule(p)) /\ WF_vars(Kubelet(p)) /\ WF_vars(Terminate(p))

FairSpec == Spec /\ Fairness

-----------------------------------------------------------------------------
(***************************************************************************)
(* Properties.                                                             *)
(***************************************************************************)

(***************************************************************************)
(* When the labels do not change and a claim's affinity labels name one    *)
(* node, as the tutorial on NodeAffinityLabels asks, every helper pod of a *)
(* volume runs on the selected node.                                       *)
(***************************************************************************)
StableLabels == "relabel" \notin FaultKinds

UniqueAffinity ==
  \A v \in Volumes :
    NodesWithLabels(InitLabels, NodeAffinityLabels(InitLabels, v)) = {Selected[v]}

\* A pod in one of these phases has not run its command yet.
Unfinished == {"Pending", "Running"}

(***************************************************************************)
(* Once a PV exists no init or quota pod of its volume can still run its   *)
(* command, and a cleanup pod exists only for a volume that was released   *)
(* for deletion: whatever timeouts, retries, lost replies and restarts     *)
(* came before, launchPod and exitPod leave no helper pod behind that acts *)
(* on a volume in use.                                                     *)
(***************************************************************************)
HelpersQuiesce ==
  \A v \in Volumes :
    /\ pv[v].phase # "None" =>
         \A k \in {"init", "quota"} : pod[<<k, v>>].phase \notin Unfinished
    /\ pod[<<"cleanup", v>>].phase # "None" =>
         pv[v].phase \in {"Released", "Gone"} /\ Policy[v] # "Retain"

(***************************************************************************)
(* A directory of a volume that has a PV is removed only when that PV is   *)
(* released and not retained: neither a late quota script nor a cleanup    *)
(* pod of ProvisionHostPath or DeleteHostPath removes data in use.         *)
(***************************************************************************)
OnlyReclaimedDataIsRemoved ==
  [][\A n \in Nodes, v \in Volumes :
       <<n, v>> \in dirs \ dirs' /\ pv[v].phase # "None" =>
         pv[v].phase \in {"Released", "Gone"} /\ Policy[v] # "Retain"]_vars

(***************************************************************************)
(* A consumer of a bound PV finds its directory on every node the PV's     *)
(* affinity admits, and there is such a node: what ProvisionHostPath       *)
(* returns without an error can be mounted.                                *)
(***************************************************************************)
BoundVolumeHasDirectory ==
  \A v \in Volumes :
    pv[v].phase = "Bound" =>
      /\ NodesWithLabels(labels, pv[v].aff) # {}
      /\ \A n \in NodesWithLabels(labels, pv[v].aff) : <<n, v>> \in dirs

(***************************************************************************)
(* The directory of a bound PV whose StorageClass enables a quota has a    *)
(* limit: a quota pod that ran before its directory existed, or in an      *)
(* earlier attempt, never passes for the one ProvisionHostPath waits for.  *)
(***************************************************************************)
BoundVolumeIsLimited ==
  \A v \in Volumes :
    pv[v].phase = "Bound" /\ Quotas[v] > 0 =>
      \A n \in NodesWithLabels(labels, pv[v].aff) : <<n, v>> \in limited

(***************************************************************************)
(* When the PV is removed after a successful DeleteHostPath, no directory  *)
(* of the volume is left on any node, and none appears later: not from an  *)
(* init pod of an attempt that was given up, nor from an earlier attempt.  *)
(***************************************************************************)
ReclaimLeavesNoDirectory ==
  \A v \in Volumes :
    pv[v].phase = "Gone" => \A n \in Nodes : <<n, v>> \notin dirs

(***************************************************************************)
(* The refinement mapping: the data of a volume is its directory on the    *)
(* selected node, its status the phase of its PV.                          *)
(***************************************************************************)
DataOf(d) == [v \in Volumes |-> IF <<Selected[v], v>> \in d THEN "present" ELSE "absent"]
StatusOf(q) == [v \in Volumes |-> q[v].phase]

Lifecycle == INSTANCE VolumeLifecycle WITH data <- DataOf(dirs), status <- StatusOf(pv)

(***************************************************************************)
(* ProvisionHostPath, DeleteHostPath and their helper pods implement the   *)
(* lifecycle of a volume, whatever faults, retries and restarts occur.     *)
(***************************************************************************)
ImplementsLifecycle == Lifecycle!Spec

(***************************************************************************)
(* A claim that is not withdrawn gets its PV: Provision is retried until   *)
(* an attempt goes through, and no attempt leaves behind what would make   *)
(* all later ones fail.                                                    *)
(***************************************************************************)
ClaimIsProvisioned ==
  \A v \in Volumes : claim[v] = "present" ~> pv[v].phase # "None" \/ claim[v] = "deleted"

(***************************************************************************)
(* A released PV that is not retained is removed, its directory with it:   *)
(* "Create a 'cleanup' Pod ... Exit 'cleanup' Pod ... Delete               *)
(* PersistentVolume object" (design/hostpath_localpv_provisioner.md).      *)
(***************************************************************************)
ReleasedVolumeIsReclaimed ==
  \A v \in Volumes :
    pv[v].phase = "Released" /\ Policy[v] # "Retain" ~> pv[v].phase = "Gone"

=============================================================================
