------------------------------ MODULE BlockDevice ------------------------------
(***************************************************************************)
(* Volumes on block devices.  For each volume the provisioner creates a    *)
(* BlockDeviceClaim (BDC) with a finalizer, waits for the node disk        *)
(* manager (NDM) to bind a device to it and returns a PV on that device;   *)
(* deleting the volume takes the finalizer away and deletes the BDC, and   *)
(* the NDM then frees the device.  When it starts, the provisioner adds    *)
(* the finalizer to the BDCs of the PVs of older versions.                 *)
(*                                                                         *)
(* ProvisionBlockDevice and DeleteBlockDevice are retained in the source   *)
(* but disabled in Provision and Delete (see Provision); here they are     *)
(* called as the provisioning library calls a provisioner.                 *)
(***************************************************************************)
EXTENDS Naturals, FiniteSets, Functions

CONSTANTS
  Volumes, Devices,
  NoDevice,      \* no device
  Free,          \* the holder of a device that no BDC has
  Other,         \* the holder of a device that a BDC of somebody else has
  Old,           \* the volumes that an older version may have provisioned
  Counts,        \* WaitForBDTimeoutCounts, which the code never sets: zero
  MaxFaults      \* how often something may go wrong

ASSUME BlockDeviceAssumption ==
  /\ NoDevice \notin Devices /\ {Free, Other} \cap Volumes = {}
  /\ Old \subseteq Volumes
  /\ Counts \in Nat /\ MaxFaults \in Nat

VARIABLES
  bdc,       \* the BDC of each volume
  pv,        \* the PV of each volume: its status and its device
  op,        \* the call that works on each volume
  holder,    \* the volume whose BDC has a device
  todo,      \* the PVs the pre-upgrade tasks have listed and not yet visited
  running,   \* the pre-upgrade tasks are done
  gaveUp,    \* the volumes for which a wait for a device was given up
  legacy,    \* the volumes that an older version has provisioned
  prompt,    \* the NDM reacts within one sleep of the wait
  faults,    \* the number of faults so far
  errors     \* all of them were errors that had no effect

vars == <<bdc, pv, op, holder, todo, running, gaveUp, legacy, prompt, faults, errors>>

NoBDC == [exists |-> FALSE, fin |-> FALSE, deleting |-> FALSE, bd |-> NoDevice]
NewBDC == [exists |-> TRUE, fin |-> TRUE, deleting |-> FALSE, bd |-> NoDevice]
WithFinalizer(b, f) == [exists |-> b.exists, fin |-> f, deleting |-> b.deleting, bd |-> b.bd]
BeingDeleted(b) == [exists |-> b.exists, fin |-> b.fin, deleting |-> TRUE, bd |-> b.bd]
BoundTo(b, d) == [exists |-> b.exists, fin |-> b.fin, deleting |-> b.deleting, bd |-> d]
At(step) == [pc |-> step, polls |-> 0, bd |-> NoDevice]
Idle == At("idle")
WithStatus(p, s) == [status |-> s, bd |-> p.bd]

\* The volumes of an older version have a BDC without the finalizer.
Init ==
  \E f \in UNION {[L -> Devices] : L \in SUBSET Old} :
    /\ IsInjective(f) /\ legacy = DOMAIN f
    /\ bdc = [v \in Volumes |-> IF v \in legacy THEN WithFinalizer(BoundTo(NewBDC, f[v]), FALSE)
                                ELSE NoBDC]
    /\ pv = [v \in Volumes |-> IF v \in legacy THEN [status |-> "bound", bd |-> f[v]]
                               ELSE [status |-> "wanted", bd |-> NoDevice]]
    /\ holder \in [Devices -> legacy \cup {Free, Other}]
    /\ \A d \in Devices, v \in legacy : holder[d] = v <=> f[v] = d
    /\ op = [v \in Volumes |-> Idle]
    /\ todo = legacy /\ running = FALSE /\ gaveUp = {}
    /\ prompt \in BOOLEAN /\ faults = 0 /\ errors = TRUE

\* An error without effect, or something worse.
Fault(error) ==
  /\ faults < MaxFaults
  /\ faults' = faults + 1
  /\ errors' = (errors /\ error)

InService(v) == pv[v].status = "bound"
HasPV == {v \in Volumes : pv[v].status \in {"bound", "released"}}

CanBind(v, d) == bdc[v].exists /\ ~bdc[v].deleting /\ bdc[v].bd = NoDevice /\ holder[d] = Free
CanFree(v) == bdc[v].exists /\ bdc[v].deleting /\ ~bdc[v].fin

\* Nothing is left for the NDM to do for v, or it may be late.
NdmReacted(v) == prompt => ~CanFree(v) /\ \A d \in Devices : ~CanBind(v, d)

Return(v) == op' = [op EXCEPT ![v] = Idle]

-------------------------------------------------------------------------------
\* Provisioning.

ProvisionBlockDevice(v) ==
  /\ running /\ op[v].pc = "idle" /\ pv[v].status = "wanted" /\ NdmReacted(v)
  /\ op' = [op EXCEPT ![v] = At("claim")]
  /\ UNCHANGED <<bdc, pv, holder, todo, running, gaveUp, legacy, prompt, faults, errors>>

\* Mutant of createBlockDeviceClaim: the finalizer is left to the next start.
createBareClaim(v) ==
  /\ op[v].pc = "claim"
  /\ bdc' = [bdc EXCEPT ![v] = IF @.exists THEN @ ELSE WithFinalizer(NewBDC, FALSE)]
  /\ op' = [op EXCEPT ![v] = At("wait")]
  /\ UNCHANGED <<pv, holder, todo, running, gaveUp, legacy, prompt, faults, errors>>

\* A BDC that exists is used as it is.
createBlockDeviceClaim(v) ==
  /\ op[v].pc = "claim"
  /\ bdc' = [bdc EXCEPT ![v] = IF bdc[v].exists THEN bdc[v] ELSE NewBDC]
  /\ op' = [op EXCEPT ![v] = At("wait")]
  /\ UNCHANGED <<pv, holder, todo, running, gaveUp, legacy, prompt, faults, errors>>

\* The Create fails, or succeeds although the caller is told otherwise.
createClaimFails(v) ==
  /\ op[v].pc = "claim"
  /\ \/ Fault(TRUE) /\ UNCHANGED bdc
     \/ /\ Fault(FALSE) /\ ~bdc[v].exists
        /\ bdc' = [bdc EXCEPT ![v] = NewBDC]
  /\ Return(v)
  /\ UNCHANGED <<pv, holder, todo, running, gaveUp, legacy, prompt>>

Waits(v, step, n) == op' = [op EXCEPT ![v] = [pc |-> step, polls |-> n, bd |-> NoDevice]]

\* Mutant of waitForDevice: the last turn does not look at the BDC.
waitWithoutLook(v) ==
  /\ op[v].pc = "wait" /\ op[v].polls < Counts
  /\ IF op[v].polls + 1 < Counts /\ bdc[v].bd # NoDevice
     THEN op' = [op EXCEPT ![v] = [pc |-> "device", polls |-> 0, bd |-> bdc[v].bd]]
     ELSE Waits(v, "sleep", op[v].polls + 1)
  /\ UNCHANGED <<bdc, pv, holder, todo, running, gaveUp, legacy, prompt, faults, errors>>

\* One turn of the loop of getBlockDevicePath: a look at the BDC, at once.
waitForDevice(v) ==
  /\ op[v].pc = "wait" /\ op[v].polls < Counts
  /\ \/ ~bdc[v].exists /\ Return(v)
     \/ /\ bdc[v].exists /\ bdc[v].bd # NoDevice
        /\ op' = [op EXCEPT ![v] = [pc |-> "device", polls |-> 0, bd |-> bdc[v].bd]]
     \/ bdc[v].exists /\ bdc[v].bd = NoDevice /\ Waits(v, "sleep", op[v].polls + 1)
  /\ UNCHANGED <<bdc, pv, holder, todo, running, gaveUp, legacy, prompt, faults, errors>>

\* The sleep after a look that found no device, in which the NDM may react.
Sleep(v) ==
  /\ op[v].pc = "sleep" /\ NdmReacted(v)
  /\ Waits(v, "wait", op[v].polls)
  /\ UNCHANGED <<bdc, pv, holder, todo, running, gaveUp, legacy, prompt, faults, errors>>

\* The loop ends without a device: the BDC is to be deleted.
giveUp(v) ==
  /\ op[v].pc = "wait" /\ op[v].polls = Counts
  /\ op' = [op EXCEPT ![v] = At("unprotect")]
  /\ gaveUp' = gaveUp \cup {v}
  /\ UNCHANGED <<bdc, pv, holder, todo, running, legacy, prompt, faults, errors>>

\* The device is read and the PV is returned and saved.
SavePV(v) ==
  /\ op[v].pc = "device"
  /\ pv' = [pv EXCEPT ![v] = [status |-> "bound", bd |-> op[v].bd]]
  /\ Return(v)
  /\ UNCHANGED <<bdc, holder, todo, running, gaveUp, legacy, prompt, faults, errors>>

-------------------------------------------------------------------------------
\* Deleting a BDC, for a volume or after a wait that was given up.

DeleteBlockDevice(v) ==
  /\ running /\ op[v].pc = "idle" /\ pv[v].status = "released"
  /\ op' = [op EXCEPT ![v] = At("unprotect")]
  /\ UNCHANGED <<bdc, pv, holder, todo, running, gaveUp, legacy, prompt, faults, errors>>

\* Without its BDC the finalizer cannot be removed, which is an error.
removeFinalizer(v) ==
  /\ op[v].pc = "unprotect"
  /\ bdc' = [bdc EXCEPT ![v] = WithFinalizer(bdc[v], FALSE)]
  /\ op' = [op EXCEPT ![v] = At(IF bdc[v].exists THEN "delete" ELSE "idle")]
  /\ UNCHANGED <<pv, holder, todo, running, gaveUp, legacy, prompt, faults, errors>>

\* Mutant of deleteBlockDeviceClaim: the BDC is left to the garbage collector.
keepBlockDeviceClaim(v) ==
  /\ op[v].pc = "delete"
  /\ pv' = [pv EXCEPT ![v].status = IF @ = "released" THEN "gone" ELSE @]
  /\ Return(v)
  /\ UNCHANGED <<bdc, holder, todo, running, gaveUp, legacy, prompt, faults, errors>>

\* After the Delete of the BDC of a released PV the library removes the PV.
deleteBlockDeviceClaim(v) ==
  /\ op[v].pc = "delete"
  /\ IF bdc[v].exists
     THEN /\ bdc' = [bdc EXCEPT ![v] = BeingDeleted(bdc[v])]
          /\ pv' = [pv EXCEPT ![v] = IF pv[v].status = "released" THEN WithStatus(pv[v], "gone")
                                     ELSE pv[v]]
     ELSE UNCHANGED <<bdc, pv>>
  /\ Return(v)
  /\ UNCHANGED <<holder, todo, running, gaveUp, legacy, prompt, faults, errors>>

\* A call can fail: the Get of the BDC, that of the device, the Update that removes
\* the finalizer and the Delete.
Calls(v) ==
  op[v].pc \in {"device", "unprotect", "delete"} \/ (op[v].pc = "wait" /\ op[v].polls < Counts)

\* Mutant of CallFails: a BDC whose finalizer is not removed is deleted all the same.
CallFailsAndGoesOn(v) ==
  /\ Fault(TRUE) /\ Calls(v) /\ UNCHANGED bdc
  /\ IF op[v].pc = "unprotect" THEN op' = [op EXCEPT ![v] = At("delete")] ELSE Return(v)
  /\ UNCHANGED <<pv, holder, todo, running, gaveUp, legacy, prompt>>

\* It fails without effect, or takes effect and its reply is lost.
CallFails(v) ==
  /\ \/ Fault(TRUE) /\ Calls(v) /\ UNCHANGED bdc
     \/ /\ Fault(FALSE) /\ op[v].pc = "unprotect"
        /\ bdc' = [bdc EXCEPT ![v] = WithFinalizer(bdc[v], FALSE)]
     \/ /\ Fault(FALSE) /\ op[v].pc = "delete" /\ bdc[v].exists
        /\ bdc' = [bdc EXCEPT ![v] = BeingDeleted(bdc[v])]
  /\ Return(v)
  /\ UNCHANGED <<pv, holder, todo, running, gaveUp, legacy, prompt>>

-------------------------------------------------------------------------------
\* The start of the process.

addLocalPVFinalizer(v) ==
  /\ ~running /\ v \in todo
  /\ bdc' = [bdc EXCEPT ![v] = IF bdc[v].exists /\ ~bdc[v].deleting
                               THEN WithFinalizer(bdc[v], TRUE) ELSE bdc[v]]
  /\ todo' = todo \ {v}
  /\ UNCHANGED <<pv, op, holder, running, gaveUp, legacy, prompt, faults, errors>>

\* The process ends, by itself when a finalizer cannot be added; when it starts
\* again it lists the PVs once more.
Restart ==
  /\ Fault(FALSE)
  /\ op' = [v \in Volumes |-> Idle]
  /\ running' = FALSE /\ todo' = HasPV
  /\ UNCHANGED <<bdc, pv, holder, gaveUp, legacy, prompt>>

performPreupgradeTasks ==
  /\ ~running /\ todo = {}
  /\ running' = TRUE
  /\ UNCHANGED <<bdc, pv, op, holder, todo, gaveUp, legacy, prompt, faults, errors>>

-------------------------------------------------------------------------------
\* The NDM, the users and the administrators.

Bind(v, d) ==
  /\ CanBind(v, d)
  /\ bdc' = [bdc EXCEPT ![v] = BoundTo(bdc[v], d)]
  /\ holder' = [holder EXCEPT ![d] = v]
  /\ UNCHANGED <<pv, op, todo, running, gaveUp, legacy, prompt, faults, errors>>

FreeDevice(v) ==
  /\ CanFree(v)
  /\ bdc' = [bdc EXCEPT ![v] = NoBDC]
  /\ holder' = [d \in Devices |-> IF holder[d] = v THEN Free ELSE holder[d]]
  /\ UNCHANGED <<pv, op, todo, running, gaveUp, legacy, prompt, faults, errors>>

ReleasePV(v) ==
  /\ InService(v)
  /\ pv' = [pv EXCEPT ![v] = WithStatus(pv[v], "released")]
  /\ UNCHANGED <<bdc, op, holder, todo, running, gaveUp, legacy, prompt, faults, errors>>

\* An administrator deletes a BDC; before the first start of this version
\* nothing protects those of older ones.
DeleteByAdmin(v) ==
  /\ Fault(FALSE) /\ bdc[v].exists /\ ~bdc[v].deleting
  /\ bdc' = [bdc EXCEPT ![v] = BeingDeleted(bdc[v])]
  /\ UNCHANGED <<pv, op, holder, todo, running, gaveUp, legacy, prompt>>

Work(v) ==
  \/ ProvisionBlockDevice(v) \/ createBlockDeviceClaim(v) \/ waitForDevice(v)
  \/ Sleep(v) \/ giveUp(v) \/ SavePV(v)
  \/ DeleteBlockDevice(v) \/ removeFinalizer(v) \/ deleteBlockDeviceClaim(v)

Ndm(v) == FreeDevice(v) \/ \E d \in Devices : Bind(v, d)

Next ==
  \/ \E v \in Volumes : \/ Work(v) \/ createClaimFails(v) \/ CallFails(v)
                        \/ addLocalPVFinalizer(v)
                        \/ Ndm(v) \/ ReleasePV(v) \/ DeleteByAdmin(v)
  \/ Restart \/ performPreupgradeTasks

Spec == Init /\ [][Next]_vars

FairSpec ==
  /\ Spec
  /\ WF_vars(performPreupgradeTasks)
  /\ \A v \in Volumes :
       WF_vars(Work(v)) /\ WF_vars(Ndm(v)) /\ WF_vars(addLocalPVFinalizer(v))

-------------------------------------------------------------------------------
\* A volume in service has its BDC, with the finalizer and with its device,
\* unless the wait for a device was given up for it before: the BDC is then
\* being deleted while the next attempt uses it.  Once the pre-upgrade tasks are
\* done the same holds of a volume of an older version, unless somebody deleted
\* its BDC before.
Protected(v) ==
  /\ bdc[v].exists /\ bdc[v].fin
  /\ bdc[v].bd = pv[v].bd /\ holder[pv[v].bd] = v

DeviceInUseIsProtected ==
  \A v \in Volumes :
    InService(v) => \/ Protected(v)
                    \/ v \in gaveUp
                    \/ v \in legacy /\ (running => bdc[v].deleting \/ ~bdc[v].exists)

\* A volume that is removed leaves nothing behind that nobody will delete: its BDC
\* is gone or about to go, although it is unprotected and deleted in two calls that
\* may fail, be repeated or be cut short by a restart, which protects it anew; a
\* BDC that was deleted with its finalizer would keep its device for ever.
GoneVolumeHoldsNothing ==
  \A v \in Volumes :
    pv[v].status = "gone" /\ (bdc[v].exists \/ \E d \in Devices : holder[d] = v) => CanFree(v)

\* While the NDM is prompt and calls fail without effect only, a released
\* volume is removed and its device is given back.
Fair == prompt /\ []errors

DeviceComesBack ==
  Fair => \A v \in Volumes :
            pv[v].status = "released" ~>
              pv[v].status = "gone" /\ \A d \in Devices : holder[d] # v

\* Under the same conditions a volume gets a device when one is free for good.
VolumeGetsDevice ==
  Fair => \A v \in Volumes :
            (\E d \in Devices : [](holder[d] \in {Free, v})) => <>(pv[v].status # "wanted")
===============================================================================
