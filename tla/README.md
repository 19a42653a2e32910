# Verification of the OpenEBS dynamic LocalPV provisioner

This directory holds TLA+ specifications of the provisioner in `src/`, the TLC
configurations that check them on small instances, and proofs that TLAPS checks
for every value of the constants. `PROJECT.json` lists components, runs,
mutants, the map from definitions to source lines, hazards, findings and
theorems.

## The system

The provisioner is one process that runs the controller of
`sig-storage-lib-external-provisioner`. The library watches claims and PVs and
calls `Provision` and `Delete` from several worker threads; it retries what
fails and writes or removes the PV object when a call returns without an error.
The provisioner keeps no state of its own: what it knows is in the Kubernetes
API (nodes, claims, PVs, helper pods) and on the disks of the nodes
(directories, project quotas).

| Component | State | Operations | Interaction | What makes it correct |
|---|---|---|---|---|
| Hostpath volumes (`provisioner_hostpath.go`, `helper_hostpath.go`) | directories, helper pods, PVs | `ProvisionHostPath`, `DeleteHostPath`, `launchPod`, `exitPod` | creates, polls and deletes one helper pod at a time, by a name made of kind and volume | a bound PV has its directory; data in use is never removed; a removed PV leaves nothing behind; claims are served, released PVs reclaimed |
| Quota script (`createQuotaPod`) | project ids and limits of a filesystem | read the last id, assign the next one, set its limits | runs in pods of several volumes at once on one node | every volume is limited, by its own limits |
| Quota limits (`convertToK`, `validateLimits`) | none | percentage and size to kilobytes | arguments of the script | limits hold the request, soft is not above hard |
| Request validation and dispatch (`provisioner.go`) | none | `Provision`, `Delete`, `validateVolumeSource` | called by the library | what is not supported is refused before any write |
| Volume configuration (`config.go`, `env.go`) | none | merge of defaults and StorageClass | read by `ProvisionHostPath`, once per attempt | precedence, safe paths, one version of the class per PV |
| Block device volumes (`helper_blockdevice.go`, `provisioner_blockdevice.go`) | block device claims, their finalizers | create, wait for, release a claim | node disk manager binds claims | no claim is lost or leaked; code no longer called by `Provision` and `Delete` |
| Pre-upgrade tasks (`backward_compatability.go`) | finalizers | add finalizers at start | before the controller runs | idempotent, skips claims being deleted |
| StorageClass builder (`storage/v1/storageclass`) | the class being built | options that check what is there | its annotation is read by the provisioner | contradictory options are refused, the rest is read back as it was meant |
| Object builders (`pkg/kubernetes/api`) | the object being built, recorded errors, checks | setters, nested builders | share maps with their callers and with each other | an object that builds is what was asked for |
| Clients (`kubernetes.go` of each kind, `client.go`) | cached clientset and configuration | one call per operation, collections | the environment selects the cluster | one client speaks to one cluster |
| Rollout status (`deployment.go`, `rollout_status.go`) | none | five predicates over a status | status written by the deployment controller, late | complete is reported when it is complete, and then for sure |
| NDM configuration (`ndmconfig.go`, `PathFilterExclude` of the tests) | a list of paths in a ConfigMap | append, remove, patch, restart | several writers, no lock | the list is what was asked for and is in force |
| Controller and leader election (`start.go`) | leader, caches | `Start`, `isLeaderElectionEnabled` | several replicas | replicas do not undo each other's work |

Hard behaviour: an operation is a sequence of API calls, each of which may fail,
and of a pod that runs by itself; a timeout races with the pod it gives up; a
restart loses the deferred deletion of a pod; a pod of an earlier attempt may
act during a later one; node labels, taints and StorageClasses change while an
operation uses what it read; quota scripts of different volumes interleave;
replicas delete each other's pods by name; a block device claim is bound at the
moment it is given up. `hazards` in
`PROJECT.json` lists each of these at its line.

## Modules

`HostPath` models the provisioner's operations on hostpath volumes and the
cluster around them.

* `op[v]` is the worker thread that handles volume `v`: its program counter
  says which API call comes next (`launch`: Create; `poll`: Get; `exitOk`,
  `exitErr`: the deferred Delete after a success or an error; `save`,
  `reclaim`: the library's write of the PV), and it carries what the code read
  at the start, the affinity labels and the taints. One action is one API call
  together with the local code up to the next one.
* `pod[<<k, v>>]` is the API object of the helper pod of kind `k` (`init`,
  `quota`, `cleanup`). A pod that has run its command is `Done` or `Broken`
  until the kubelet reports `Succeeded` or `Failed`. Delete removes a pod that
  is pending or finished at once; a running one is `terminating` and keeps its
  name, and may still run its command, until the kubelet lets it go.
* `dirs` and `limited` are the directories on the nodes and those that have a
  limit. `Command` is what the containers do: `mkdir -p`, `rm -rf`, and the
  quota script, which removes the directory and fails on a filesystem it does
  not know.
* `labels`, `taints`, `claim`, `pv` are the API objects the code reads, and
  `faults` counts the steps of the environment named by `Fault`: Create that
  fails (`create`) or whose reply is lost (`reply`), Get (`get`) or Delete
  (`delete`) that fails, a pod that outlives the last poll (`slow`), a command
  that fails (`fail`), someone else who deletes the pod (`evict`), a restart of
  the provisioner (`shutdown`), and changes of labels and taints (`relabel`,
  `retaint`).

`VolumeLifecycle` says what the above promises: a volume has data and a status;
a PV is published only over data, data stays while the PV is in use or
retained, and the PV of a released volume goes after its data. `HostPath` is
shown to implement it (`ImplementsLifecycle`), with the directory on the
selected node as the data and the phase of the PV as the status; so are several
replicas with leader election, by proof.

`QuotaProject` opens the step that `HostPath` takes as a whole, the quota
script, into its three commands. `script[v]` is the last command that has run,
`pid[v]` the shell variable, `project[v]` the id of the directory,
`limits[<<n, i>>]` the volume whose limits project `i` of node `n` has. Which
ids without a directory the report of the filesystem lists is left open
(`Reports`), which covers xfs and ext4. `Abandon` is an attempt that ends, by
the timeout of `exitPod` or otherwise, at any command. That there is one quota
pod per volume at a time, and none once the PV exists, is what `HostPath`
shows. `overlapped` is a history variable: it remembers, for the latest run of
a script, with which other scripts it overlapped between reading and assigning.

`QuotaLimits` models `convertToK` and `validateLimits`: limits are sequences of
digits and are compared the way the code compares strings, by length and then
lexicographically. `FormatK` is the recursive function from a number to its
digits, `Value` the one back, which only the properties use. Percentages are
given in tenths, and arithmetic is exact. `MCQuota` extends both
modules: `part` says which half of `createQuotaPod` a behaviour is about.

`VolumeConfig` has no state: it is `GetVolumeConfig` and its getters as
operators on a sequence of entries (a name with a value, a map or a list).
`StorageClass` and `Provision` extend it.

`StorageClass` applies options to a class one after the other. `class` is the
object, `applied` and `refused` say which options were accepted and which one
ended the construction. Paths are sequences of slashes and names, because the
check of a path is about slashes. `BuiltClassReadsBack` composes the builder
with the reader in `VolumeConfig`.

`Provision` is a request from the library's call to the PV or the refusal:
`claim` is what one claim asks for, `op` an attempt for it with the settings it
has read, `versions` the versions of each class, `dirs` the directories made for
the claim. Claims have nothing in common but the class, which they do not
change, so there is one, of any kind. The helper pods, which `HostPath` opens
up, are two steps here, one that fails and one that succeeds.

`BlockDevice` has the block device claims (`bdc[v]`: existence, finalizer,
deletion timestamp, device), the PVs, the node disk manager (`holder[d]`) and
the operations of `helper_blockdevice.go`, one API call per step; `todo` and
`running` are the pre-upgrade tasks at each start. `legacy` are the volumes of
an older version, `gaveUp` and `errors` history variables, and `prompt` says
whether the node disk manager answers within one sleep of the wait. A turn of the
wait is a look at the claim, the first one at once after its Create, and after a
look that found nothing a sleep.

`Replicas` runs the operations of `HostPath`, reduced to one init and one
cleanup pod of one volume, in several processes. `election` is the value of the
environment variable that switches leader election off, `leader` matters only
with it; `seen[r]` is what the caches of replica `r` show; `late` remembers that
an init pod ran although there was a PV, `lost` that somebody else removed a
pod.

`Rollout` has a Deployment, its pods and its status, which the deployment
controller writes some time later; `RolloutStatus` evaluates all predicates of
the code, which keeps them in a Go map and so in no order. An object without
`Spec.Replicas` is not read from an API server, which sets them.
`KubeClient` has one client of each kind with its
caches, and an environment that changes. A command takes its address from the
cached clientset and its credentials from the cached configuration; `moved`
remembers that the environment changed after the first was read and before the
second was.

`Builders` has a heap of maps and lists; each setter is a record that says what it
does with an empty argument and whether it copies, keeps, merges or appends. The
first cells are the caller's. A PVC builder may start from an object of the caller
(`BuildFrom`) and then has its labels. A list of the caller may have room behind
it (`room`), as a Go slice whose capacity is larger than its length: a builder
that keeps it and appends writes into the same array (`array`) as any other
builder that was given it, and `Overwritten` is what becomes of theirs. Such a
list has room for all that is appended; a list without room is copied by the first
append. Checks can be added to containers, whose Build runs them, and to
deployments, whose Build does not.

`NdmConfig` has the text of the
list, edited by `PathFilterExclude` in three steps. A text is a sequence of
tokens, a path one without a comma; `RemoveAll` is `strings.ReplaceAll` with
nothing as the replacement, which removes a path wherever it matches, also from
the middle of another one (`cut` remembers that it could).

`MCLibrary` extends the modules of the packages under `pkg/`: `part` is the
package a behaviour is about, and the others do not move in it, since the packages
have no state in common. `DeploymentIsReported` is `RolloutIsReported` of
`Rollout` for the behaviours of that part. `StorageClass` is the one that meets the provisioner, in
`BuiltClassReadsBack`.

The modules `MC...` give the constants values for TLC; `Replicas` and
`BlockDevice` need none. Operators named as a
mutant in their comment are wrong variants of the definition that follows them,
used to see that a property fails when the code is wrong; no specification uses
them.

## What the runs check

| Run | Bounds | Result |
|---|---|---|
| `hostpath_safety` | 2 volumes on 2 nodes, one with both quotas, one retained, 1 poll, 3 faults, no relabelling | a bound PV has its directory (`BoundVolumeHasDirectory`) and its limit (`BoundVolumeIsLimited`); a removed PV leaves no directory (`ReclaimLeavesNoDirectory`); `ImplementsLifecycle` |
| `hostpath_relabel` | 1 volume with a quota, 4 faults, relabelling too | no helper pod acts on a volume in use (`HelpersQuiesce`), data in use is not removed (`OnlyReclaimedDataIsRemoved`) |
| `hostpath_refused` | 2 volumes, one with limits that are rejected, one on a filesystem without quotas | neither is bound without a limit |
| `hostpath_liveness` | 1 volume with both quotas, 2 polls, 3 faults | `ClaimIsProvisioned`, `ReleasedVolumeIsReclaimed` |
| `hostpath_shutdown` | 1 shutdown | violated: a PV that is never reclaimed |
| `quota` | the script: 3 volumes on one node, 3 project ids, one volume with two quotas; the limits: 27 sizes around each change of digits, 10 percentages | every volume in service is limited, shares a project only by overlap, and alone has its own limits; string and numeric limits agree |
| `quota_race` | 2 volumes | violated: two volumes in one project |
| `provision` | 6 kinds of claims, 4 versions of the class from 9 texts, 2 failures | a PV is made of one version of its class (`SettingsAreOfOneVersion`); a directory is left behind only after a change of the base path; no node is touched for a claim that is not supported; `ClaimIsServed` |
| `blockdevice` | 2 volumes (1 of them old or not), 2 devices, 2 turns of the wait, 2 faults | a device in use is protected, also after an upgrade (`DeviceInUseIsProtected`); a removed volume leaves no claim that nobody will delete and no device that is not given back (`GoneVolumeHoldsNothing`); devices come back (`DeviceComesBack`) and waiting volumes get them (`VolumeGetsDevice`) |
| `blockdevice_as_built` | the same with 0 turns | `VolumeGetsDevice` violated: a volume that never gets the device that is free |
| `replicas` | 2 replicas, with election and without, 4 faults | a PV in use has its directory; a directory outlives its PV only when an init pod ran late, and never with election; `ClaimIsProvisioned` |
| `library` | builders: families of 2 or 3, 3 calls of all setters or 4 and 5 of the setters of maps and of lists, with room behind them and without, 2 builders handed over at once; StorageClass: up to 4 of 22 options; clients: 2 clusters, 4 calls; rollout: 2 replicas, 2 generations, 3 pods; disk filter: 2 writers, 3 paths, 3 edits | an object that builds is what was asked and callers' maps and lists stay as they are, with the exceptions the properties name; options are refused for their place only where node affinity labels are involved, kinds of storage do not mix, the provisioner reads what was asked; a client stays in one cluster and `CreateCollection` succeeds with new objects only; a rollout that is reported is complete, and a complete one is reported; the list of paths is what was asked for unless edits overlap or a path is part of another, and the list stored is in force |

Why the bounds suffice: one volume is enough for what its own attempts do to
each other, since helper pods of different volumes share neither name nor
directory (`ExecuteIsLocal` in the proofs); the second volume of
`hostpath_safety` is there for the global actions, `Shutdown` above all, and for
the policy to retain. Two polls, as in `hostpath_liveness`, tell the last one
from the others. Three faults allow an attempt that is given up, a pod that is
left over and a fault in the deletion. `CmdTimeoutCounts` is 120 in the code;
nothing depends on its value but the length of a wait. Two block device volumes
and two devices, of which somebody else may have one, let one volume wait while
the other gives its device back. `WaitForBDTimeoutCounts` is 2 in the runs that
pass: the first look comes at once after the Create, so a device is seen by the
second at the earliest; with the 0 of the code none is, which is the third
finding. Four versions of a class are
one before, two during and one after an attempt. Three calls of a builder are a
value set, set again and handed over; five with few setters let two deployments
each change a map after taking it, four let two builders each keep and append to
one list. Four options are two that are needed and two
that conflict. Deadlock is not checked: when all volumes are gone or retained,
or the calls are used up, the system has nothing to do.

Fairness (`FairSpec`): the library's work queue retries a failed operation and
its informers bring every object back at each resync, so starting an operation
and each of its steps are weakly fair; scheduler, kubelet and the controllers
of the cluster are too. Faults are finite in number and never forced. A pod
that nothing holds up succeeds within the 120 polls unless the fault `slow`
occurs. The liveness run leaves out the three faults after which the pod object
stays behind for good (`reply`, `delete`, `shutdown`), which is the subject of
the first finding. `Provision`, `BlockDevice`, `Rollout` and `Replicas` assume
the same of the controller; the node disk manager and the deployment controller
are weakly fair. `DeviceComesBack` and `VolumeGetsDevice` are about behaviours in
which the node disk manager answers within one sleep of the wait (`prompt`),
without which a wait may be given up for ever, and calls that fail have no effect
(`errors`). `ClaimIsProvisioned` of `Replicas` is about behaviours in which nobody
else removes a pod (`lost`): after that two replicas without election can delete
each other's pods by name in turn, and nothing in the code ends that.

## Findings

1. `hostpath_shutdown`: a restart between Create and the deferred Delete of a
   cleanup pod leaves the pod object behind. Every later attempt gets
   AlreadyExists and the PV stays, although its directory is gone.
   `start.go:81-83` announces a context for a graceful exit but uses
   `context.TODO()`.
2. `quota_race`: two quota scripts on one node that overlap take the
   same "new project id" (comment at `helper_hostpath.go:288`) and the two
   volumes share one limit, that of the script that set it last.
3. `blockdevice_as_built`: `WaitForBDTimeoutCounts` (`helper_blockdevice.go:43`)
   is never set, so the wait that its comment describes has no turns and no
   attempt sees a device. This code is no longer reached.

Other places where the code differs from what its texts say; the properties
named are stated with these exceptions.

* `WithHostpath` after `WithNodeAffinityLabels` is refused, the other order is
  not: `isCompatibleWithHostpath` knows the parameter as `NodeAffinityLabel`
  (`utils.go:76`), which no option writes (`OrderMattersOnlyForLabels`).
* `isValidPath` (`utils.go:38`) accepts `//local`, although the error text at
  `build.go:144-146` excludes directories directly under the root.
* `WithFSType` builds a class without a StorageType, which the provisioner reads
  as one of hostpaths; the comment at `build.go:353` says that FSType is only
  compatible with devices.
* The configuration in a claim's annotation is not merged (`config.go:172`),
  although the comment at `config.go:145-148` says so.
* Claims of device classes are refused (`provisioner.go:139`); `doc.go:177` says
  how they are served. The next two are about code that is no longer reached.
* A block device claim that is being deleted is reused by the next attempt
  (`helper_blockdevice.go:117`; `gaveUp` in `DeviceInUseIsProtected`).
* A block device claim that is already gone makes each further deletion of its
  PV fail (`helper_blockdevice.go:264`; `errors` in `DeviceComesBack`).
* The comments of `IsNotSyncSpec` (`deployment.go:542-544` and `551-553`) say that a
  spec is not updated yet when Generation <= ObservedGeneration; the code (line 555)
  says so when it is greater. The properties follow the code: with its comparison a
  reported rollout is complete and a complete one is reported
  (`ReportedIsComplete`, `DeploymentIsReported`), with that of the comments a
  rollout that is complete and observed would never be reported. It is the comment
  that is wrong.
* `AddCheck` of a deployment "adds the predicate as a condition to be validated
  against the deployment instance" (`deployment.go:451-452`); `validate` (line 393)
  does not look at the predicates, so a deployment is built although a check of it
  does not hold (`Fails` in `Builders`). `Build` of a container runs its checks.
* `BuildFrom` of a PVC keeps the caller's object, into whose labels `WithLabels`
  merges (`persistentvolumeclaim/build.go:47`, `113`), and two templates or pods
  that were given one list with room behind it overwrite what the other appended
  (`podtemplatespec.go:256` and `294`, `pod/build.go:242` and `130`); `SharedMap`
  and `SharedList` in `ObjectIsWhatWasAsked`.
* A client without a kubeconfig path sends a command to the cluster of its
  clientset with the credentials of another one when the environment changed
  between its first call and its first `Exec` (`pod/kubernetes.go:289`; `moved` in
  `ClientStaysInOneCluster`).

## What is proved

`HostPathProofs`, for every set of nodes and volumes, every label and taint
assignment, every timeout and every number of faults:

* `SafeInv` is inductive and needs no assumption on labels. It adds to the
  types what `HelpersQuiesce` needs: the operation and the PV agree
  (`OpMatchesPV`: Provision runs only without a PV, Delete only on a released
  one), and from the moment `exitPod` has seen a pod succeed, that pod can only
  be finished or gone (`PodsStayFinished`), because its object is the lock that
  keeps another of its name from being created. From it follow `TypeCorrect`,
  `HelpersQuiesceInvariance` and the action property `RemovalIsReclaim`.
* `StableInv` adds, when labels do not change (`StableLabels`) and a claim's
  affinity labels name one node (`UniqueAffinity`), that all pods of a volume
  run on the selected node (`AtHome`) and that what a finished pod has done is
  still there when the operation relies on it (`EffectsLast`). Both assumptions
  are what `docs/tutorials/hostpath/nodeaffinitylabels.md` asks of the
  administrator: labels that "uniquely identify a node". From it follow
  `BoundVolumeHasDirectoryInvariance`, `BoundVolumeIsLimitedInvariance`,
  `ReclaimLeavesNoDirectoryInvariance` and `HostPathRefinesLifecycle`.

Both invariants speak of one volume at a time (`SafeAt`, `StableAt`), so each
action needs a proof for its own volume and a frame lemma for the others.

`QuotaProofs` is about the limits and about the script.

* The limits, for every size and every percentage: `FormatK` is shown to exist as
  a function (`FormatKDef`), to be undone by `Value` (`ValueOfFormatK`), and to
  turn the order of numbers into the order the code uses, by length and then
  lexicographically (`LargerIsGreater`): the comparison of strings is one of
  numbers. With the bounds of a rounded-up quotient (`GraceBounds`,
  `GraceMonotone`) follow `LimitsFit`, `RejectedLimitsAreBad` and
  `NoGraceIsTheSize`.
* The script, for any number of volumes, nodes and ids: `QuotaInv` says that two
  runs of a script are about one id only if they overlapped (`Distinct`). It is
  inductive because `ReadLast` takes an id above that of every directory on the
  node (`NextIdIsFree`), so only a script that has read and not yet assigned can
  have the same. The three properties of the run and the types follow.

`BlockDeviceProofs`, for any volumes, devices, turns of the wait (the 0 of the
code included) and faults: `Inv` says, per volume, that the call and the PV agree
(`CallMatchesPV`: a claim is unprotected only when the PV is released or the wait
was given up), that the device a claim names is held by its volume
(`HeldByClaim`), that the finalizer is there from Create to release
(`FinalizerStays`), which keeps the device between the Get that reads it and the
PV that names it, and what the pre-upgrade tasks have achieved for the volumes
they have visited (`UpgradeVisits`). `DeviceIsProtected` follows, and
`DevicesAreNotShared`, because a device has one holder. `NothingIsLeftBehind`
needs besides that a device is held for a claim that names it (`HeldIsNamed`) and
that a claim about to be deleted, or whose PV is gone, has no finalizer
(`Unprotected`).

`ReplicasProofs`, for any number of replicas and faults: no cache and no cleanup
pod is ahead of the PV (`CacheIsBehind`), what an init or a cleanup pod has done
lasts until it is relied on (`InitIsDone`, `CleanupIsDone`), and with election
the leader, also one that has just taken over, knows of the PV
(`LeaderKnows`). `DirectoryInService`, `StrayIsLateInit` and `LeaderReclaims`
follow. With election no replica reclaims before there was a PV that was released
(`InOrder`), so that every step of any number of replicas is one of
`VolumeLifecycle` or changes neither directory nor PV (`VisibleSteps`): the
replicas keep the promise that `HostPath` keeps for one process
(`ReplicasRefineLifecycle`). Without election they do not, and the theorem says
so by its hypothesis: a PV that is gone can come back.

`ProvisionProofs`, for any claims, texts of a class and changes: the version an
attempt uses was in force after it began and stays in the history of the class
(`CallIsOfVersion`; `WriteClassAppends`), and every directory and every PV is of
some version (`PathsAreOfVersions`). What the settings are computed from plays no
part. `OneVersion`, `SupportedOnly` and `StrayHasOtherPath` follow.

`BuildersProofs`, for any builders, contents and number of calls and of builders
handed over: `SettersAreDisciplined` goes through the setters of the seven
builders and says what they have in common; `Cells` says which cell may be part
of which objects (`CallersCells`: only a field that keeps maps of the caller has
one; `SharedCells`: other maps are part of one object, or of a template and of
the deployments that took it; `Continued`: only lists of a caller with room are
continued in place, by the field they are for). From these follows that a map
merged into in place, or a list another builder writes behind, belongs to no other
object that is promised to stay as it is (`MergedIsShared`, `AppendedIsShared`),
hence `ObjectsAreFaithful` and the action property `CallersKeepTheirMaps`. The
proof attempt corrected the property: a PV or PVC and a deployment of one caller
may have the same map, and `WithNodeSelector` of the deployment then changes the
labels of the other (`deployment.go:169`, `build.go:52` and `62` of the PV). No
code in the repository calls them that way; `SharedMap` names the exception, and
the run has a caller that does.

`StorageClassProofs`, for any set of options, any number of them and any default
path: `Written` and `BuiltBy` say which parameters a class has, given the set of
options it was built with, and `AcceptedIff` when one more option is accepted, by
one lemma per group of options. From that follow `KindsAreNotMixed` (the names of
the parameters exclude each other, `NoMix`), `OptionsReadBack` (the entry an
option wrote is the last of its name after the merge with the defaults,
`MergedEntry`, and the getters return it, down to the names of a path,
`PathHasNames`), and `OrderIsForLabelsOnly`: but for the labels, whether a list of
options builds a class depends only on which options conflict with which
(`Exclude`, which is symmetric), so a permutation of it changes nothing.

`LibraryProofs` has three components.

* `NdmConfig`, for any texts, paths, writers and edits. `EditsTakeEffect`: a
  writer that has patched the list and not restarted the pod is still at it
  (`RestartIsPending`). `ListIsKept`: while no edits overlap, an edit that is about
  to be sent was computed from what is stored, and what it is about to store has
  the paths it should have (`PatchIsCurrent` in `ListInv`). That rests on what the
  two passes of `RemoveFromPathFilter` and `AppendToPathFilter` do to the entries
  of any text (`EntriesRemoved`, `EntriesAppended`). A text is its first entry and
  those after a comma, which both passes and the append are followed through from
  the end of the text (`LaterRemoved`, `FirstRemoved`, `LaterAdded`): the first
  pass removes the path wherever it follows a comma, and leaves it to the second
  only as the first entry (`NoLaterMatch`). The proof attempt widened the exception: a
  path that is anywhere inside another one, not only at its beginning, cuts it.
* `Rollout`, for any numbers of replicas, generations and pods. `ReportIsRight`: a
  status that `RolloutStatus` accepts was written for the specification it is read
  with, when all pods were available (`StatusIsProof`), although it may be of
  another age (`Behind`).
* `KubeClient`, for any clusters, names and lists: what is cached is of the path or
  was found in the environment (`CacheIsOfCluster`), the last call went to the
  cluster of the clientset (`CallIsInCluster`), and what a collection has
  created so far is there, was not there before and has different names
  (`CollectionSoFar`). `OneCluster` and the action property `NewCollection` follow;
  the latter counts with the finite-set theorems of the library.

Recursive functions (`FormatK`, `Value`, `PathNames`, `Builds`, `RemoveAll`) are
treated in one way: that a function with the equation exists is proved by building
it step by step, and what it computes by the least counterexample (`LeastNumber`,
from the well-foundedness of the natural numbers), which takes the place of an
induction theorem with an operator as its parameter.

The assumptions of these proofs are the `ASSUME`s of the modules, which TLC
evaluates in the runs: bounds are natural numbers, values that stand for nothing
are not among the others, builders and options are of the kinds the code has,
paths of devices are not empty and have no comma.
No theorem assumes anything about how the environment behaves beyond what the
modules say.

Only model-checked are the liveness properties (`ClaimIsProvisioned`,
`ReleasedVolumeIsReclaimed`, `ClaimIsServed`, `DeviceComesBack`,
`VolumeGetsDevice`, `DeploymentIsReported`), since fairness is outside the
prover's reach. Every invariant, every action property and the refinement that a
passing run checks is a theorem as well.

## What is not modelled, and why

* A node that disappears: its volumes are then out of reach, and
  `GetNodeObjectFromLabels` returns an error for ever.
* Events, analytics, logs, image pull secrets, service accounts.
* The list builders and predicates of `pkg/kubernetes/api` (`buildlist.go`,
  filters by name, label or phase, conversions to API lists): pure functions on
  one list, without state that a second call could find changed.
* A failure of the first command of the quota script that the success of the
  second hides: the tools are outside the repository, and a model of when one
  fails and the other does not would be a guess.
* Node labels without a value: the proofs and runs assume labels that name one
  node; the code does not check it.
* Parsing of YAML: an annotation is readable or not.
* Details that another module has: the deferred Delete of a helper pod never fails
  in `Replicas`, where `HostPath` has that fault; the class is read and the init pod
  created in one step in `Provision`, since nothing else looks in between. The
  library's save of a PV, which it repeats until it succeeds, is one step in
  `HostPath`; the number of times a quota script is repeated is bounded by `left`.
* `main.go`, `logger.go`, `env.go`, charts and test drivers: input and output.
* float64 rounding of limits beyond 2^53.
* The components marked `not_modelled` in `PROJECT.json`.

## Plan

1. Done: `HostPath`, `VolumeLifecycle`, `QuotaProject`, `QuotaLimits`, their
   runs and proofs.
2. Done: `VolumeConfig`, `StorageClass`, `Provision`, `BlockDevice`, `Rollout`,
   `KubeClient`, `Builders`, `Replicas`, `NdmConfig` and their runs.
3. Done: proofs of `BlockDevice`, `Replicas`, `Provision`, `KubeClient`,
   `Builders`, `Rollout`, `StorageClass` and `NdmConfig`.
4. Done: the properties about recursive functions and texts (`QuotaLimits`,
   `OptionsReadBack`, `OrderIsForLabelsOnly`, `ListIsKept`).
5. Left: the liveness properties stay with TLC; a model of the list builders and
   predicates of `pkg/kubernetes/api` if they come to keep state.
