------------------------------- MODULE Provision -------------------------------
(***************************************************************************)
(* Provision, from the check of a claim to the settings its volume gets,   *)
(* while an administrator edits, deletes and recreates the StorageClass.   *)
(* Claims share nothing but the class, so there is one, of any kind.       *)
(* The controller hands the class it knows to Provision, which reads the   *)
(* annotation of the class once more from the API server, starts the       *)
(* helper pods with what it read, and returns the PV some time later.      *)
(* How the helper pods run is the subject of HostPath.                     *)
(***************************************************************************)
EXTENDS VolumeConfig, FiniteSets, TLC

CONSTANTS
  Claims,       \* what claims ask for
  PVName,       \* the name of the PV of the claim, pvc- and its UID
  Classes,      \* the names of the StorageClasses
  ClassTexts,   \* what an administrator may write into a class
  MaxVersions,  \* the number of versions of a class
  MaxFaults     \* the number of helper pods that fail

\* The beta annotation of a claim goes before its spec when it is there, empty or not.
ClassOf(c) == IF c.beta # "none" THEN c.beta ELSE c.className

\* The controller calls for claims with a class only, and the API server admits
\* no claim without an access mode or with another volume mode.
ASSUME ProvisionAssumption ==
  /\ MaxVersions \in Nat /\ MaxFaults \in Nat
  /\ \A c \in Claims : /\ ClassOf(c) \in Classes
                       /\ c.accessModes # {} /\ c.volumeMode \in {"Filesystem", "Block"}

VARIABLES
  claim,      \* what the claim asks for
  versions,   \* the versions of each class, the last one in force
  node,       \* the node the scheduler selected for the claim
  op,         \* what the running Provision knows
  dirs,       \* the directories helper pods made for the claim
  pv,         \* the PV of the claim
  faults

vars == <<claim, versions, node, op, dirs, pv, faults>>

NoNode == [name |-> "", hostname |-> ""]
Nodes == {[name |-> "n1", hostname |-> "n1"], [name |-> "n2", hostname |-> ""]}
Missing == [exists |-> FALSE, reclaim |-> "", wait |-> FALSE,
            text |-> [yaml |-> TRUE, entries |-> <<>>]]
At(step, reclaim, from, ver) == [pc |-> step, reclaim |-> reclaim, from |-> from, ver |-> ver]
Idle == At("idle", "", 0, 0)
NoPV == [status |-> "none", reclaim |-> "", path |-> NoPath, keys |-> <<>>,
         xfs |-> <<>>, ext4 |-> <<>>, from |-> 0]

GetStorageClassName == ClassOf(claim)

History == versions[GetStorageClassName]
InForce == Last(History)

Init ==
  /\ claim \in Claims
  /\ versions \in [Classes -> {<<v>> : v \in {x \in ClassTexts : x.exists}}]
  /\ node = NoNode
  /\ op = Idle
  /\ dirs = {}
  /\ pv = NoPV
  /\ faults = 0

validateVolumeSource == claim.dataSource = "none"

\* Mutant of Supported: the access modes are not looked at.
SupportedInAnyMode == validateVolumeSource /\ ~claim.selector

Supported ==
  /\ validateVolumeSource
  /\ ~claim.selector
  /\ claim.accessModes \subseteq {"ReadWriteOnce"}

\* The first part of Provision: the checks that read no configuration.
Accepted == Supported /\ node.hostname # ""

\* What the second part decides from the annotation: a device and a block mode
\* are refused, and so is a path that cannot be built.
Dispatch(text) ==
  LET cfg == GetVolumeConfig(text)
  IN /\ Readable(text)
     /\ claim.volumeMode = "Block" => GetStorageType(cfg) = "device"
     /\ GetStorageType(cfg) = "hostpath"
     /\ GetPath(cfg, PVName) # NoPath

Settings(text) ==
  LET cfg == GetVolumeConfig(text)
  IN [path |-> GetPath(cfg, PVName), keys |-> GetNodeAffinityLabelKeys(cfg),
      xfs |-> QuotaOf(cfg, "XFSQuota"), ext4 |-> QuotaOf(cfg, "EXT4Quota")]

-------------------------------------------------------------------------------
\* The controller takes the class it knows and calls Provision.
StartProvision ==
  /\ op.pc = "idle" /\ pv.status = "none" /\ InForce.exists
  /\ op' = At("checks", InForce.reclaim, Len(History), 0)
  /\ UNCHANGED <<claim, versions, node, dirs, pv, faults>>

\* Mutant of Refuse: no further call is made after a refusal.
RefuseForGood ==
  /\ op.pc = "checks"
  /\ ~(Accepted /\ InForce.exists /\ Dispatch(InForce.text))
  /\ op' = [op EXCEPT !.pc = "failed"]
  /\ UNCHANGED <<claim, versions, node, dirs, pv, faults>>

\* Without a node the claim is to be scheduled again, any other refusal is
\* final for this call; the controller calls again in either case.
Refuse ==
  /\ op.pc = "checks"
  /\ ~(Accepted /\ InForce.exists /\ Dispatch(InForce.text))
  /\ op' = Idle
  /\ UNCHANGED <<claim, versions, node, dirs, pv, faults>>

\* The configuration is read and the init pod makes the directory.
Configure ==
  /\ op.pc = "checks" /\ Accepted
  /\ InForce.exists /\ Dispatch(InForce.text)
  /\ op' = At("pods", op.reclaim, op.from, Len(History))
  /\ dirs' = dirs \cup {Settings(InForce.text).path}
  /\ UNCHANGED <<claim, versions, node, pv, faults>>

\* A quota pod fails: the directory stays, the call returns the error.
FailPods ==
  /\ op.pc = "pods" /\ faults < MaxFaults
  /\ faults' = faults + 1
  /\ op' = Idle
  /\ UNCHANGED <<claim, versions, node, dirs, pv>>

\* The PV is built from the settings s and the quotas that were applied.
Bind(s, quotas) ==
  /\ op.pc = "pods"
  /\ pv' = [status |-> "bound", reclaim |-> op.reclaim, path |-> s.path,
            keys |-> s.keys, xfs |-> quotas.xfs, ext4 |-> quotas.ext4,
            from |-> op.from]
  /\ op' = Idle
  /\ UNCHANGED <<claim, versions, node, dirs, faults>>

\* Mutant of Finish: the quotas are read again when they are applied.
FinishWithFreshQuotas ==
  Bind(Settings(History[op.ver].text), Settings(InForce.text))

Finish == LET s == Settings(History[op.ver].text) IN Bind(s, s)

Removed(p) == [status |-> "removed", reclaim |-> p.reclaim, path |-> p.path, keys |-> p.keys,
               xfs |-> p.xfs, ext4 |-> p.ext4, from |-> p.from]

\* Mutant of Delete: the directory is looked up through the class.
DeleteByClass ==
  /\ pv.status = "bound"
  /\ pv' = Removed(pv)
  /\ dirs' = IF pv.reclaim = "Retain" \/ ~InForce.exists THEN dirs ELSE dirs \ {pv.path}
  /\ UNCHANGED <<claim, versions, node, op, faults>>

\* Delete removes the directory of the PV, unless the PV is retained.
Delete ==
  /\ pv.status = "bound"
  /\ pv' = Removed(pv)
  /\ dirs' = IF pv.reclaim = "Retain" THEN dirs ELSE dirs \ {pv.path}
  /\ UNCHANGED <<claim, versions, node, op, faults>>

\* The scheduler: only a class that waits for a consumer has a node selected,
\* and the selection stands.
SelectNode ==
  /\ pv.status = "none" /\ node = NoNode
  /\ InForce.exists /\ InForce.wait
  /\ \E n \in Nodes : node' = n
  /\ UNCHANGED <<claim, versions, op, dirs, pv, faults>>

\* An administrator edits, deletes or creates a class; only the annotation of
\* one that exists can be edited.
WriteClass(n) ==
  /\ Len(versions[n]) < MaxVersions
  /\ \E v \in ClassTexts \ {Last(versions[n])} :
       /\ v.exists /\ Last(versions[n]).exists =>
            v.reclaim = Last(versions[n]).reclaim /\ v.wait = Last(versions[n]).wait
       /\ versions' = [versions EXCEPT ![n] = Append(@, v)]
  /\ UNCHANGED <<claim, node, op, dirs, pv, faults>>

Step == StartProvision \/ Refuse \/ Configure \/ FailPods \/ Finish

Next ==
  \/ Step \/ Delete \/ SelectNode
  \/ \E n \in Classes : WriteClass(n)

Spec == Init /\ [][Next]_vars

\* The controller calls again after every refusal, a pod uses the claim, and
\* helper pods fail finitely often.
FairSpec == Spec /\ WF_vars(Step) /\ WF_vars(SelectNode)

-------------------------------------------------------------------------------
\* A node is only touched for a claim the provisioner supports, whatever the
\* class says in between: a claim that is refused leaves nothing behind.
OnlySupportedClaimsTouchNodes ==
  dirs # {} => /\ claim.accessModes = {"ReadWriteOnce"}
               /\ claim.volumeMode = "Filesystem"
               /\ claim.dataSource = "none" /\ ~claim.selector

\* Path, affinity and quotas of a PV are those of one version of the class,
\* and that version was in force after the call began, however the class
\* changed while the helper pods ran.
SettingsAreOfOneVersion ==
  pv.status = "bound" =>
    \E k \in pv.from .. Len(History) :
      /\ History[k].exists
      /\ Settings(History[k].text) = [path |-> pv.path, keys |-> pv.keys,
                                      xfs |-> pv.xfs, ext4 |-> pv.ext4]

\* A directory that is left behind by the reclaim of a volume is the work of an
\* attempt under another base path: while the base path of a class never
\* changes, Delete removes everything that the attempts made.
StrayOnlyAfterNewBasePath ==
  pv.status = "removed" /\ pv.reclaim = "Delete" /\ dirs # {} =>
    \E i, j \in DOMAIN History :
      GetPath(GetVolumeConfig(History[i].text), PVName)
        # GetPath(GetVolumeConfig(History[j].text), PVName)

\* A claim that is supported is provisioned once its class stays as it should
\* be: earlier refusals, broken annotations and missing classes leave no trace.
Serves == /\ InForce.exists /\ InForce.wait
          /\ Dispatch(InForce.text)
          /\ node # NoNode => node.hostname # ""

ClaimIsServed == Supported /\ <>[]Serves => <>(pv.status # "none")
===============================================================================
