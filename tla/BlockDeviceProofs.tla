--------------------------- MODULE BlockDeviceProofs ---------------------------
(***************************************************************************)
(* Theorems about BlockDevice, for every set of volumes and devices, every *)
(* number of turns of the wait, the zero of the code included, and every   *)
(* number of faults.                                                       *)
(***************************************************************************)
EXTENDS BlockDevice, TLAPS

BD == Devices \cup {NoDevice}

Steps == {"idle", "claim", "wait", "sleep", "device", "unprotect", "delete"}

ClaimType == [exists : BOOLEAN, fin : BOOLEAN, deleting : BOOLEAN, bd : BD]
PVType == [status : {"wanted", "bound", "released", "gone"}, bd : BD]
CallType == [pc : Steps, polls : Nat, bd : BD]

TypeOK ==
  /\ bdc \in [Volumes -> ClaimType]
  /\ pv \in [Volumes -> PVType]
  /\ op \in [Volumes -> CallType]
  /\ holder \in [Devices -> Volumes \cup {Free, Other}]
  /\ todo \subseteq Volumes /\ gaveUp \subseteq Volumes /\ legacy \subseteq Volumes
  /\ running \in BOOLEAN /\ prompt \in BOOLEAN /\ errors \in BOOLEAN /\ faults \in Nat

(***************************************************************************)
(* The call that works on a volume and its PV agree: a BDC is made and     *)
(* waited for only while the PV is wanted, and it is unprotected only when *)
(* the PV is released or the wait was given up.  The volumes of an older   *)
(* version never go back to be wanted.                                     *)
(***************************************************************************)
CallMatchesPV(v) ==
  /\ op[v].pc \in {"claim", "wait", "sleep", "device"} => pv[v].status = "wanted"
  /\ op[v].pc \in {"unprotect", "delete"} =>
       pv[v].status = "released" \/ (pv[v].status = "wanted" /\ v \in gaveUp)
  /\ v \in legacy => pv[v].status # "wanted"

\* The device that a BDC names is held by its volume.
HeldByClaim(v) ==
  bdc[v].exists /\ bdc[v].bd # NoDevice => holder[bdc[v].bd] = v

(***************************************************************************)
(* The finalizer is there from the Create of the BDC to the release of the *)
(* PV, so that the NDM cannot free the device between the Get that reads   *)
(* it and the PV that names it, nor later.                                 *)
(***************************************************************************)
Holds(v, d) == bdc[v].exists /\ bdc[v].fin /\ bdc[v].bd = d /\ d # NoDevice

FinalizerStays(v) ==
  /\ pv[v].status = "wanted" /\ v \notin gaveUp /\ bdc[v].exists => bdc[v].fin
  /\ op[v].pc = "device" /\ v \notin gaveUp => Holds(v, op[v].bd)
  /\ pv[v].status = "bound" /\ v \notin gaveUp \cup legacy => Holds(v, pv[v].bd)

(***************************************************************************)
(* A volume of an older version that the pre-upgrade tasks have visited is *)
(* protected, or its BDC is being deleted or gone.                         *)
(***************************************************************************)
UpgradeVisits(v) ==
  pv[v].status = "bound" /\ v \in legacy =>
    /\ pv[v].bd # NoDevice
    /\ bdc[v].exists => bdc[v].bd = pv[v].bd
    /\ v \notin todo => bdc[v].fin \/ bdc[v].deleting \/ ~bdc[v].exists

(***************************************************************************)
(* A device is held by a claim that names it.  The claim that is about to  *)
(* be deleted has no finalizer, since only the pre-upgrade tasks add one,  *)
(* and they run while no call does; so the claim of a volume that is gone  *)
(* is on its way.                                                          *)
(***************************************************************************)
HeldIsNamed(v) == \A d \in Devices : holder[d] = v => bdc[v].exists /\ bdc[v].bd = d

Unprotected(v) ==
  /\ op[v].pc # "idle" => running
  /\ op[v].pc = "delete" => ~bdc[v].fin
  /\ pv[v].status = "gone" => /\ op[v].pc = "idle" /\ v \notin todo
                              /\ bdc[v].exists => CanFree(v)

SafeAt(v) ==
  /\ CallMatchesPV(v) /\ HeldByClaim(v) /\ FinalizerStays(v) /\ UpgradeVisits(v)
  /\ HeldIsNamed(v) /\ Unprotected(v)

Inv ==
  /\ TypeOK
  /\ running => todo = {}
  /\ \A v \in Volumes : SafeAt(v)

-------------------------------------------------------------------------------
(***************************************************************************)
(* Every variable keeps its type.                                          *)
(***************************************************************************)
LEMMA InitType == Init => TypeOK
<1> SUFFICES ASSUME Init PROVE TypeOK
  OBVIOUS
<1>1. PICK f \in UNION {[L -> Devices] : L \in SUBSET Old} :
        /\ legacy = DOMAIN f
        /\ bdc = [v \in Volumes |-> IF v \in legacy THEN WithFinalizer(BoundTo(NewBDC, f[v]), FALSE)
                                    ELSE NoBDC]
        /\ pv = [v \in Volumes |-> IF v \in legacy THEN [status |-> "bound", bd |-> f[v]]
                                   ELSE [status |-> "wanted", bd |-> NoDevice]]
        /\ holder \in [Devices -> legacy \cup {Free, Other}]
        /\ op = [v \in Volumes |-> Idle]
        /\ todo = legacy /\ running = FALSE /\ gaveUp = {}
        /\ prompt \in BOOLEAN /\ faults = 0 /\ errors = TRUE
  BY DEF Init
<1>2. PICK L \in SUBSET Old : f \in [L -> Devices]
  OBVIOUS
<1>3. legacy \subseteq Volumes /\ \A v \in legacy : f[v] \in Devices
  BY <1>1, <1>2, BlockDeviceAssumption
<1> QED
  BY <1>1, <1>3 DEF TypeOK, ClaimType, PVType, CallType, NoBDC, NewBDC, WithFinalizer, BoundTo,
                    At, Idle, BD, Steps

\* The constructors keep to the types.
LEMMA Constructors ==
  /\ NoBDC \in ClaimType /\ NewBDC \in ClaimType /\ Idle \in CallType
  /\ \A b \in ClaimType, f \in BOOLEAN : WithFinalizer(b, f) \in ClaimType
  /\ \A b \in ClaimType : BeingDeleted(b) \in ClaimType
  /\ \A b \in ClaimType, d \in BD : BoundTo(b, d) \in ClaimType
  /\ \A s \in Steps : At(s) \in CallType
  /\ \A p \in PVType, s \in {"bound", "released", "gone"} : WithStatus(p, s) \in PVType
BY DEF ClaimType, PVType, CallType, NoBDC, NewBDC, Idle, At, WithFinalizer, BeingDeleted, BoundTo,
       WithStatus, BD, Steps

LEMMA NextType == TypeOK /\ [Next]_vars => TypeOK'
<1> SUFFICES ASSUME TypeOK, [Next]_vars PROVE TypeOK'
  OBVIOUS
<1> USE DEF TypeOK
<1>i. Idle \in CallType /\ NewBDC \in ClaimType /\ NoBDC \in ClaimType
  BY Constructors
<1>s. ASSUME NEW s \in Steps PROVE At(s) \in CallType
  BY Constructors
<1>b. ASSUME NEW v \in Volumes
      PROVE  /\ WithFinalizer(bdc[v], TRUE) \in ClaimType
             /\ WithFinalizer(bdc[v], FALSE) \in ClaimType
             /\ BeingDeleted(bdc[v]) \in ClaimType
             /\ \A d \in Devices : BoundTo(bdc[v], d) \in ClaimType
             /\ WithStatus(pv[v], "gone") \in PVType
             /\ WithStatus(pv[v], "released") \in PVType
  BY Constructors DEF BD
<1>f. ASSUME NEW e \in BOOLEAN, Fault(e) PROVE faults' \in Nat /\ errors' \in BOOLEAN
  BY <1>f DEF Fault
<1>1. ASSUME NEW v \in Volumes, ProvisionBlockDevice(v) \/ createBlockDeviceClaim(v)
      PROVE  TypeOK'
  BY <1>1, <1>s, <1>i DEF ProvisionBlockDevice, createBlockDeviceClaim, Steps
<1>2. ASSUME NEW v \in Volumes, waitForDevice(v) PROVE TypeOK'
  <2>1. bdc[v].bd \in BD /\ op[v].polls \in Nat
    BY DEF ClaimType, CallType
  <2>2. [pc |-> "device", polls |-> 0, bd |-> bdc[v].bd] \in CallType
    BY <2>1 DEF CallType, Steps
  <2>3. [pc |-> "sleep", polls |-> op[v].polls + 1, bd |-> NoDevice] \in CallType
    BY <2>1 DEF CallType, Steps, BD
  <2> QED BY <1>2, <1>i, <2>2, <2>3 DEF waitForDevice, Waits, Return
<1>2a. ASSUME NEW v \in Volumes, Sleep(v) PROVE TypeOK'
  <2>1. [pc |-> "wait", polls |-> op[v].polls, bd |-> NoDevice] \in CallType
    BY DEF CallType, Steps, BD
  <2> QED BY <1>2a, <2>1 DEF Sleep, Waits
<1>3. ASSUME NEW v \in Volumes, giveUp(v) PROVE TypeOK'
  BY <1>3, <1>s DEF giveUp, Steps
<1>4. ASSUME NEW v \in Volumes, SavePV(v) PROVE TypeOK'
  <2>1. op[v].bd \in BD
    BY DEF CallType
  <2>2. [status |-> "bound", bd |-> op[v].bd] \in PVType
    BY <2>1 DEF PVType
  <2> QED BY <1>4, <1>i, <2>2 DEF SavePV, Return
<1>5. ASSUME NEW v \in Volumes, DeleteBlockDevice(v) \/ removeFinalizer(v) PROVE TypeOK'
  BY <1>5, <1>s, <1>b DEF DeleteBlockDevice, removeFinalizer, Steps
<1>6. ASSUME NEW v \in Volumes, deleteBlockDeviceClaim(v) PROVE TypeOK'
  BY <1>6, <1>i, <1>b DEF deleteBlockDeviceClaim, Return
<1>7. ASSUME NEW v \in Volumes, createClaimFails(v) \/ CallFails(v) PROVE TypeOK'
  <2>1. bdc' \in [Volumes -> ClaimType] /\ faults' \in Nat /\ errors' \in BOOLEAN
    BY <1>7, <1>i, <1>b, <1>f DEF createClaimFails, CallFails
  <2> QED BY <1>7, <1>i, <2>1 DEF createClaimFails, CallFails, Return
<1>8. ASSUME NEW v \in Volumes, addLocalPVFinalizer(v) PROVE TypeOK'
  BY <1>8, <1>b DEF addLocalPVFinalizer
<1>9. ASSUME NEW v \in Volumes, DeleteByAdmin(v) PROVE TypeOK'
  BY <1>9, <1>b, <1>f DEF DeleteByAdmin
<1>10. ASSUME NEW v \in Volumes, Ndm(v) PROVE TypeOK'
  <2>1. CASE FreeDevice(v)
    BY <2>1, <1>i DEF FreeDevice
  <2>2. ASSUME NEW d \in Devices, Bind(v, d) PROVE TypeOK'
    BY <2>2, <1>b DEF Bind
  <2> QED BY <1>10, <2>1, <2>2 DEF Ndm
<1>11. ASSUME NEW v \in Volumes, ReleasePV(v) PROVE TypeOK'
  BY <1>11, <1>b DEF ReleasePV
<1>12. CASE Restart
  BY <1>12, <1>i, <1>f DEF Restart, HasPV
<1>13. CASE performPreupgradeTasks \/ UNCHANGED vars
  BY <1>13 DEF performPreupgradeTasks, vars
<1> QED
  BY <1>1, <1>2, <1>2a, <1>3, <1>4, <1>5, <1>6, <1>7, <1>8, <1>9, <1>10, <1>11, <1>12, <1>13
  DEF Next, Work

-------------------------------------------------------------------------------
(***************************************************************************)
(* The invariant.  Every action but the end and the start of the process   *)
(* is about one volume: what it does not change keeps SafeAt of the others.*)
(***************************************************************************)
SameVolume(w) ==
  /\ bdc'[w] = bdc[w] /\ pv'[w] = pv[w] /\ op'[w] = op[w]
  /\ w \in gaveUp' <=> w \in gaveUp
  /\ legacy' = legacy
  /\ w \in todo' <=> w \in todo
  /\ running => running'
  /\ \A d \in Devices : holder[d] = w <=> holder'[d] = w

LEMMA SafeFrame ==
  ASSUME TypeOK, NEW w \in Volumes, SafeAt(w), SameVolume(w)
  PROVE  SafeAt(w)'
<1>1. bdc[w].bd \in BD
  BY DEF TypeOK, ClaimType
<1>2. HeldByClaim(w)'
  BY <1>1 DEF SafeAt, HeldByClaim, SameVolume, BD
<1> QED
  BY <1>2 DEF SafeAt, SameVolume, CallMatchesPV, FinalizerStays, Holds, UpgradeVisits, HeldIsNamed,
              Unprotected, CanFree

\* An action of v leaves every other volume as it is.
LEMMA OthersSame ==
  ASSUME TypeOK, NEW v \in Volumes, NEW w \in Volumes \ {v},
         \/ Work(v) \/ createClaimFails(v) \/ CallFails(v) \/ addLocalPVFinalizer(v)
         \/ Ndm(v) \/ ReleasePV(v) \/ DeleteByAdmin(v)
  PROVE  SameVolume(w)
<1> USE DEF TypeOK, SameVolume, Return
<1>1. CASE ProvisionBlockDevice(v) \/ createBlockDeviceClaim(v) \/ waitForDevice(v)
  BY <1>1 DEF ProvisionBlockDevice, createBlockDeviceClaim, waitForDevice, Waits
<1>1a. CASE Sleep(v)
  BY <1>1a DEF Sleep, Waits
<1>2. CASE giveUp(v) \/ SavePV(v) \/ DeleteBlockDevice(v) \/ removeFinalizer(v)
  BY <1>2 DEF giveUp, SavePV, DeleteBlockDevice, removeFinalizer
<1>3. CASE deleteBlockDeviceClaim(v) \/ createClaimFails(v) \/ CallFails(v)
  BY <1>3 DEF deleteBlockDeviceClaim, createClaimFails, CallFails
<1>4. CASE addLocalPVFinalizer(v) \/ ReleasePV(v) \/ DeleteByAdmin(v)
  BY <1>4 DEF addLocalPVFinalizer, ReleasePV, DeleteByAdmin
<1>5. CASE FreeDevice(v)
  BY <1>5, BlockDeviceAssumption DEF FreeDevice
<1>6. ASSUME NEW d \in Devices, Bind(v, d) PROVE SameVolume(w)
  BY <1>6, BlockDeviceAssumption DEF Bind, CanBind
<1> QED BY <1>1, <1>1a, <1>2, <1>3, <1>4, <1>5, <1>6 DEF Work, Ndm

\* And what it does to v itself keeps SafeAt.
LEMMA SafeStep ==
  ASSUME TypeOK, running => todo = {}, NEW v \in Volumes, SafeAt(v),
         \/ Work(v) \/ createClaimFails(v) \/ CallFails(v) \/ addLocalPVFinalizer(v)
         \/ Ndm(v) \/ ReleasePV(v) \/ DeleteByAdmin(v)
  PROVE  SafeAt(v)'
<1> USE BlockDeviceAssumption
    DEF TypeOK, SafeAt, CallMatchesPV, HeldByClaim, FinalizerStays, Holds, UpgradeVisits, Return,
        HeldIsNamed, Unprotected, CanFree, At, Idle
<1>1. CASE ProvisionBlockDevice(v)
  BY <1>1 DEF ProvisionBlockDevice
<1>2. CASE createBlockDeviceClaim(v)
  BY <1>2 DEF createBlockDeviceClaim, NewBDC
<1>3. CASE waitForDevice(v)
  BY <1>3 DEF waitForDevice, Waits
<1>3a. CASE Sleep(v)
  BY <1>3a DEF Sleep, Waits
<1>4. CASE giveUp(v)
  BY <1>4 DEF giveUp
<1>5. CASE SavePV(v)
  BY <1>5 DEF SavePV
<1>6. CASE DeleteBlockDevice(v)
  BY <1>6 DEF DeleteBlockDevice
<1>7. CASE removeFinalizer(v)
  BY <1>7 DEF removeFinalizer, WithFinalizer
<1>8. CASE deleteBlockDeviceClaim(v)
  BY <1>8 DEF deleteBlockDeviceClaim, BeingDeleted, WithStatus
<1>9. CASE createClaimFails(v)
  <2>1. /\ op'[v].pc = "idle" /\ op[v].pc = "claim" /\ pv' = pv /\ holder' = holder
        /\ running' = running /\ todo' = todo /\ gaveUp' = gaveUp /\ legacy' = legacy
    BY <1>9 DEF createClaimFails
  <2>2. CASE bdc' = bdc
    BY <2>1, <2>2
  <2>3. CASE ~bdc[v].exists /\ bdc'[v] = NewBDC
    BY <2>1, <2>3 DEF NewBDC
  <2> QED BY <1>9, <2>2, <2>3 DEF createClaimFails
<1>10. CASE CallFails(v)
  <2>1. /\ op'[v].pc = "idle" /\ op[v].pc # "idle" /\ pv' = pv /\ holder' = holder
        /\ running' = running /\ todo' = todo /\ gaveUp' = gaveUp /\ legacy' = legacy
    BY <1>10 DEF CallFails, Calls
  <2>2. CASE bdc' = bdc
    BY <2>1, <2>2
  <2>3. CASE op[v].pc = "unprotect" /\ bdc'[v] = WithFinalizer(bdc[v], FALSE)
    BY <2>1, <2>3 DEF WithFinalizer
  <2>4. CASE op[v].pc = "delete" /\ bdc'[v] = BeingDeleted(bdc[v])
    BY <2>1, <2>4 DEF BeingDeleted
  <2> QED BY <1>10, <2>2, <2>3, <2>4 DEF CallFails
<1>11. CASE addLocalPVFinalizer(v)
  BY <1>11 DEF addLocalPVFinalizer, WithFinalizer
<1>12. CASE FreeDevice(v)
  BY <1>12 DEF FreeDevice, CanFree, NoBDC
<1>13. ASSUME NEW d \in Devices, Bind(v, d) PROVE SafeAt(v)'
  BY <1>13 DEF Bind, CanBind, BoundTo
<1>14. CASE ReleasePV(v)
  BY <1>14 DEF ReleasePV, WithStatus, InService
<1>15. CASE DeleteByAdmin(v)
  BY <1>15 DEF DeleteByAdmin, BeingDeleted
<1> QED
  BY <1>1, <1>2, <1>3, <1>3a, <1>4, <1>5, <1>6, <1>7, <1>8, <1>9, <1>10, <1>11, <1>12, <1>13, <1>14,
     <1>15 DEF Work, Ndm

LEMMA InitInv == Init => Inv
<1> SUFFICES ASSUME Init PROVE Inv
  OBVIOUS
<1>1. TypeOK
  BY InitType
<1>2. PICK f \in UNION {[L -> Devices] : L \in SUBSET Old} :
        /\ legacy = DOMAIN f
        /\ bdc = [v \in Volumes |-> IF v \in legacy THEN WithFinalizer(BoundTo(NewBDC, f[v]), FALSE)
                                    ELSE NoBDC]
        /\ pv = [v \in Volumes |-> IF v \in legacy THEN [status |-> "bound", bd |-> f[v]]
                                   ELSE [status |-> "wanted", bd |-> NoDevice]]
        /\ holder \in [Devices -> legacy \cup {Free, Other}]
        /\ \A d \in Devices, v \in legacy : holder[d] = v <=> f[v] = d
        /\ op = [v \in Volumes |-> Idle]
        /\ todo = legacy /\ running = FALSE
  BY DEF Init
<1>3. \A v \in legacy : f[v] \in Devices /\ f[v] # NoDevice
  BY <1>2, BlockDeviceAssumption
<1>4. ASSUME NEW v \in Volumes PROVE SafeAt(v)
  <2>1. HeldIsNamed(v)
    BY <1>2, BlockDeviceAssumption DEF HeldIsNamed, NewBDC, WithFinalizer, BoundTo
  <2>2. Unprotected(v)
    BY <1>2 DEF Unprotected, At, Idle
  <2> QED BY <1>2, <1>3, <2>1, <2>2 DEF SafeAt, CallMatchesPV, HeldByClaim, FinalizerStays, Holds,
             UpgradeVisits, NoBDC, NewBDC, WithFinalizer, BoundTo, At, Idle
<1> QED BY <1>1, <1>2, <1>4 DEF Inv

LEMMA NextInv == Inv /\ [Next]_vars => Inv'
<1> SUFFICES ASSUME Inv, [Next]_vars PROVE Inv'
  OBVIOUS
<1> USE DEF Inv
<1>1. TypeOK'
  BY NextType
<1>2. ASSUME NEW v \in Volumes,
             \/ Work(v) \/ createClaimFails(v) \/ CallFails(v) \/ addLocalPVFinalizer(v)
             \/ Ndm(v) \/ ReleasePV(v) \/ DeleteByAdmin(v)
      PROVE  Inv'
  <2>1. ASSUME NEW w \in Volumes PROVE SafeAt(w)'
    BY <1>2, SafeStep, OthersSame, SafeFrame
  <2>2. running' => todo' = {}
    BY <1>2 DEF Work, ProvisionBlockDevice, createBlockDeviceClaim, waitForDevice, Sleep, giveUp, SavePV,
         DeleteBlockDevice, removeFinalizer, deleteBlockDeviceClaim, createClaimFails, CallFails,
         addLocalPVFinalizer, Ndm, FreeDevice, Bind, ReleasePV, DeleteByAdmin
  <2> QED BY <1>1, <2>1, <2>2
<1>3. CASE Restart
  <2>1. ASSUME NEW w \in Volumes PROVE SafeAt(w)'
    BY <1>3 DEF Restart, HasPV, SafeAt, CallMatchesPV, HeldByClaim, FinalizerStays, Holds,
                UpgradeVisits, HeldIsNamed, Unprotected, CanFree, At, Idle
  <2> QED BY <1>1, <1>3, <2>1 DEF Restart
<1>4. CASE performPreupgradeTasks
  <2>1. ASSUME NEW w \in Volumes PROVE SafeAt(w)'
    BY <1>4, SafeFrame DEF performPreupgradeTasks, SameVolume
  <2> QED BY <1>1, <1>4, <2>1 DEF performPreupgradeTasks
<1>5. CASE UNCHANGED vars
  <2>1. ASSUME NEW w \in Volumes PROVE SafeAt(w)'
    BY <1>5, SafeFrame DEF vars, SameVolume
  <2> QED BY <1>1, <1>5, <2>1 DEF vars
<1> QED BY <1>2, <1>3, <1>4, <1>5 DEF Next

(***************************************************************************)
(* Inv holds always: it says why the Delete of a claim is safe although    *)
(* the Get of its device, the PV and the finalizer are changed in          *)
(* different steps, and why a restart between any two of them is too.      *)
(***************************************************************************)
THEOREM Invariance == Spec => []Inv
BY InitInv, NextInv, PTL DEF Spec

-------------------------------------------------------------------------------
(***************************************************************************)
(* A volume in service has its claim, with the finalizer and its device,   *)
(* unless the wait for a device was given up for it, or its claim was      *)
(* deleted before the first start of this version: what getBlockDevicePath,*)
(* SavePV, removeFinalizer and addLocalPVFinalizer together keep.          *)
(***************************************************************************)
THEOREM DeviceIsProtected == Spec => []DeviceInUseIsProtected
<1>1. ASSUME Inv, NEW v \in Volumes, InService(v), v \notin gaveUp,
             ~(v \in legacy /\ (running => bdc[v].deleting \/ ~bdc[v].exists))
      PROVE  Protected(v)
  <2>1. Holds(v, pv[v].bd)
    <3>1. CASE v \notin legacy
      BY <1>1, <3>1 DEF Inv, SafeAt, FinalizerStays, InService
    <3>2. CASE v \in legacy
      BY <1>1, <3>2 DEF Inv, SafeAt, UpgradeVisits, Holds, InService
    <3> QED BY <3>1, <3>2
  <2> QED BY <1>1, <2>1 DEF Inv, SafeAt, HeldByClaim, Holds, Protected
<1>2. Inv => DeviceInUseIsProtected
  BY <1>1 DEF DeviceInUseIsProtected
<1> QED BY <1>2, Invariance, PTL

(***************************************************************************)
(* Two volumes in service never have the same device, under the same       *)
(* exceptions: a device is handed to one claim, and comes back only after  *)
(* the finalizer of that claim is gone.                                    *)
(***************************************************************************)
OneVolumePerDevice ==
  \A v, w \in Volumes \ (gaveUp \cup legacy) :
    InService(v) /\ InService(w) /\ pv[v].bd = pv[w].bd => v = w

THEOREM DevicesAreNotShared == Spec => []OneVolumePerDevice
<1>1. DeviceInUseIsProtected => OneVolumePerDevice
  BY DEF DeviceInUseIsProtected, OneVolumePerDevice, Protected
<1> QED BY <1>1, DeviceIsProtected, PTL

(***************************************************************************)
(* A volume that is gone holds nothing: its claim, if it is still there,   *)
(* is being deleted and has no finalizer, and no device is held for it but *)
(* through that claim.  The finalizer and the claim are removed by two     *)
(* calls of deleteBlockDeviceClaim; Unprotected says why no failure of     *)
(* either and no restart between them leaves a claim behind.               *)
(***************************************************************************)
THEOREM NothingIsLeftBehind == Spec => []GoneVolumeHoldsNothing
<1>1. Inv => GoneVolumeHoldsNothing
  BY DEF Inv, SafeAt, HeldIsNamed, Unprotected, GoneVolumeHoldsNothing
<1> QED BY <1>1, Invariance, PTL
===============================================================================
