-------------------------------- MODULE Replicas --------------------------------
(***************************************************************************)
(* Several replicas of the provisioner and one hostpath volume.  With      *)
(* leader election one replica works and another takes over when it ends;  *)
(* without it every replica works on the claim and on the PV, from what    *)
(* its caches show, and the names of the helper pods are the only lock     *)
(* between them.  Nodes, labels and quotas are the subject of HostPath.    *)
(***************************************************************************)
EXTENDS Naturals

CONSTANTS
  ReplicaSet,      \* the replicas
  ElectionValues,  \* the values of LEADER_ELECTION_ENABLED, in lower case
  MaxFaults        \* how often something may go wrong

ASSUME ReplicasAssumption == MaxFaults \in Nat

VARIABLES
  election,  \* the value of LEADER_ELECTION_ENABLED
  leader,    \* the replica that works when there is leader election
  seen,      \* the PV as the caches of each replica show it
  op,        \* the operation of each replica: pc and kind of the helper pod
  pod,       \* the helper pods, by kind
  dir,       \* the directory of the volume exists
  claim, pv,
  late,      \* an init pod has run although the volume had its PV
  faults,    \* the number of faults so far
  lost       \* a process, a pod or a reply was lost

vars == <<election, leader, seen, op, pod, dir, claim, pv, late, faults, lost>>

Kinds == {"init", "cleanup"}
Pod(phase, ran, deleted) == [phase |-> phase, ran |-> ran, deleted |-> deleted]
NoPod == Pod("None", FALSE, FALSE)
NewPod == Pod("Running", FALSE, FALSE)
At(step, kind) == [pc |-> step, kind |-> kind]
Idle == At("idle", "init")

Init ==
  /\ election \in ElectionValues
  /\ leader \in ReplicaSet
  /\ seen = [r \in ReplicaSet |-> "none"]
  /\ op = [r \in ReplicaSet |-> Idle]
  /\ pod = [k \in Kinds |-> NoPod]
  /\ dir = FALSE /\ claim = "present" /\ pv = "none" /\ late = FALSE
  /\ faults = 0 /\ lost = FALSE

\* An error or a timeout, or the loss of something.
Fault(loss) ==
  /\ faults < MaxFaults
  /\ faults' = faults + 1
  /\ lost' = (lost \/ loss)

\* Mutant of isLeaderElectionEnabled: the default is no election.
isLeaderElectionRequested == election \in {"y", "yes", "true"}

isLeaderElectionEnabled == election \notin {"n", "no", "false"}

MayWork(r) == isLeaderElectionEnabled => r = leader

Start(r, kind) ==
  /\ MayWork(r) /\ op[r].pc = "idle"
  /\ op' = [op EXCEPT ![r] = At("launch", kind)]
  /\ UNCHANGED <<election, leader, seen, pod, dir, claim, pv, late, faults, lost>>

Provision(r) == claim = "present" /\ seen[r] = "none" /\ Start(r, "init")
Delete(r) == seen[r] = "released" /\ Start(r, "cleanup")

\* Create; when the name is taken the operation returns the error.
LaunchPod(r) ==
  LET k == op[r].kind
  IN /\ op[r].pc = "launch"
     /\ IF pod[k].phase = "None"
        THEN /\ pod' = [pod EXCEPT ![k] = NewPod]
             /\ op' = [op EXCEPT ![r] = At("poll", k)]
        ELSE op' = [op EXCEPT ![r] = Idle] /\ UNCHANGED pod
     /\ UNCHANGED <<election, leader, seen, dir, claim, pv, late, faults, lost>>

\* Create fails, or its reply is lost.
LaunchFails(r) ==
  LET k == op[r].kind
  IN /\ op[r].pc = "launch"
     /\ \/ Fault(FALSE) /\ UNCHANGED pod
        \/ /\ Fault(TRUE) /\ pod[k].phase = "None"
           /\ pod' = [pod EXCEPT ![k] = NewPod]
     /\ op' = [op EXCEPT ![r] = Idle]
     /\ UNCHANGED <<election, leader, seen, dir, claim, pv, late>>

\* Mutant of Poll: a pod that is gone has done its work.
PollOrGone(r) ==
  /\ op[r].pc = "poll" /\ pod[op[r].kind].phase \in {"Succeeded", "None"}
  /\ op' = [op EXCEPT ![r].pc = "exitOk"]
  /\ UNCHANGED <<election, leader, seen, pod, dir, claim, pv, late, faults, lost>>

\* A Get ends the loop; what it finds may be the pod of another replica.
Poll(r) ==
  /\ op[r].pc = "poll" /\ pod[op[r].kind].phase \in {"Succeeded", "None"}
  /\ op' = [op EXCEPT ![r] = At(IF pod[op[r].kind].phase = "Succeeded" THEN "exitOk" ELSE "exitErr",
                                op[r].kind)]
  /\ UNCHANGED <<election, leader, seen, pod, dir, claim, pv, late, faults, lost>>

\* The timeout, or a Get that fails.
GiveUp(r) ==
  /\ op[r].pc = "poll" /\ Fault(FALSE)
  /\ op' = [op EXCEPT ![r] = At("exitErr", op[r].kind)]
  /\ UNCHANGED <<election, leader, seen, pod, dir, claim, pv, late>>

DeletePod(k) ==
  pod' = [pod EXCEPT ![k] = IF pod[k].phase = "Running" THEN Pod("Running", pod[k].ran, TRUE)
                            ELSE NoPod]

Return(r) ==
  op' = [op EXCEPT ![r] = IF op[r].pc = "exitOk" THEN At("write", op[r].kind) ELSE Idle]

\* Mutant of ExitPod: the error of a cleanup pod is not returned.
ExitPodIgnoresCleanup(r) ==
  /\ op[r].pc \in {"exitOk", "exitErr"}
  /\ DeletePod(op[r].kind)
  /\ op' = [op EXCEPT ![r] = IF @.pc = "exitOk" \/ @.kind = "cleanup"
                             THEN [@ EXCEPT !.pc = "write"] ELSE Idle]
  /\ UNCHANGED <<election, leader, seen, dir, claim, pv, late, faults, lost>>

\* Mutant of ExitPod: only a pod that succeeded is deleted.
ExitPodKeepsFailed(r) ==
  /\ op[r].pc \in {"exitOk", "exitErr"}
  /\ IF op[r].pc = "exitOk" THEN DeletePod(op[r].kind) ELSE UNCHANGED pod
  /\ Return(r)
  /\ UNCHANGED <<election, leader, seen, dir, claim, pv, late, faults, lost>>

\* The deferred Delete, by name: of the pod that has the name now.
ExitPod(r) ==
  /\ op[r].pc \in {"exitOk", "exitErr"}
  /\ DeletePod(op[r].kind)
  /\ Return(r)
  /\ UNCHANGED <<election, leader, seen, dir, claim, pv, late, faults, lost>>

\* The controller creates the PV, if there is none, or removes it.
Write(r) ==
  /\ op[r].pc = "write"
  /\ IF op[r].kind = "init"
     THEN pv' = (IF pv \in {"none", "gone"} THEN "bound" ELSE pv)
     ELSE pv' = "gone"
  /\ op' = [op EXCEPT ![r] = Idle]
  /\ seen' = [seen EXCEPT ![r] = pv']
  /\ UNCHANGED <<election, leader, pod, dir, claim, late, faults, lost>>

\* The caches of a replica catch up.
Sync(r) ==
  /\ seen[r] # pv
  /\ seen' = [seen EXCEPT ![r] = pv]
  /\ UNCHANGED <<election, leader, op, pod, dir, claim, pv, late, faults, lost>>

\* A replica ends, and starts again; when it was the leader one of them takes
\* over, with caches that are up to date.
TakeOver(r) ==
  /\ Fault(TRUE)
  /\ op' = [op EXCEPT ![r] = Idle]
  /\ leader' \in (IF isLeaderElectionEnabled /\ r = leader THEN ReplicaSet ELSE {leader})
  /\ seen' = [q \in ReplicaSet |-> IF q \in {r, leader'} THEN pv ELSE seen[q]]
  /\ UNCHANGED <<election, pod, dir, claim, pv, late>>

\* The kubelet; a pod that is being deleted may still run its command.
Execute(k) ==
  /\ pod[k].phase = "Running" /\ ~pod[k].ran
  /\ dir' = (k = "init")
  /\ pod' = [pod EXCEPT ![k] = Pod("Running", TRUE, pod[k].deleted)]
  /\ late' = (late \/ (k = "init" /\ pv # "none"))
  /\ UNCHANGED <<election, leader, seen, op, claim, pv, faults, lost>>

Report(k) ==
  /\ pod[k].phase = "Running"
  /\ \/ /\ pod[k].ran /\ ~pod[k].deleted
        /\ pod' = [pod EXCEPT ![k] = Pod("Succeeded", TRUE, FALSE)]
     \/ pod[k].deleted /\ pod' = [pod EXCEPT ![k] = NoPod]
  /\ UNCHANGED <<election, leader, seen, op, dir, claim, pv, late, faults, lost>>

\* A pod is removed by somebody else, a drained node or an administrator.
RemovePod(k) ==
  /\ Fault(TRUE) /\ pod[k].phase # "None"
  /\ DeletePod(k)
  /\ UNCHANGED <<election, leader, seen, op, dir, claim, pv, late>>

DeleteClaim ==
  /\ claim = "present" /\ claim' = "deleted"
  /\ UNCHANGED <<election, leader, seen, op, pod, dir, pv, late, faults, lost>>

ReleasePV ==
  /\ claim = "deleted" /\ pv = "bound" /\ pv' = "released"
  /\ UNCHANGED <<election, leader, seen, op, pod, dir, claim, late, faults, lost>>

Work(r) == Provision(r) \/ Delete(r) \/ LaunchPod(r) \/ Poll(r) \/ ExitPod(r) \/ Write(r)

Next ==
  \/ \E r \in ReplicaSet : Work(r) \/ LaunchFails(r) \/ GiveUp(r) \/ Sync(r) \/ TakeOver(r)
  \/ \E k \in Kinds : Execute(k) \/ Report(k) \/ RemovePod(k)
  \/ DeleteClaim \/ ReleasePV

Spec == Init /\ [][Next]_vars

FairSpec ==
  /\ Spec
  /\ WF_vars(ReleasePV)
  /\ \A r \in ReplicaSet : WF_vars(Work(r)) /\ WF_vars(Sync(r))
  /\ \A k \in Kinds : WF_vars(Execute(k)) /\ WF_vars(Report(k))

-------------------------------------------------------------------------------
\* However many replicas work at once, and whichever pod they see and delete, a
\* PV whose claim exists has its directory.
InServiceHasDirectory == claim = "present" /\ pv = "bound" => dir

\* A directory outlives its PV only when the init pod of another replica ran
\* after the first had made the PV: replicas that reclaim the same PV, and see
\* and delete each other's cleanup pods, never drop it before its directory.
StrayOnlyByLateInit == pv = "gone" /\ dir => late

\* With leader election, which is the default, and with a take-over at any moment,
\* a removed PV leaves no directory.
ReclaimLeavesNothing == election = "" /\ pv = "gone" => ~dir

\* Replicas that compete for the same claim do not keep each other from serving
\* it, whatever errors and timeouts they meet on the way.
ClaimIsProvisioned == []~lost => []<>(claim = "present" => pv # "none")
=================================================================================
