---------------------------- MODULE ProvisionProofs ----------------------------
(***************************************************************************)
(* Theorems about Provision, for every set of claims, classes and texts of *)
(* a class, and every number of versions and faults.  What the settings    *)
(* are computed from (GetPath, GetVolumeConfig) plays no part in them.     *)
(***************************************************************************)
EXTENDS Provision, TLAPS

\* The directory that an attempt under a version of the class makes.
PathOf(v) == GetPath(GetVolumeConfig(v.text), PVName)

\* Every class has a version in force.
HasVersions ==
  /\ claim \in Claims
  /\ \A n \in Classes : versions[n] \in Seq(ClassTexts) /\ versions[n] # <<>>
  /\ DOMAIN versions = Classes

(***************************************************************************)
(* The versions a call works with exist, the one whose settings it uses    *)
(* was in force after the call began, and its directory is there until the *)
(* PV is.                                                                  *)
(***************************************************************************)
CallIsOfVersion ==
  /\ op.pc \in {"idle", "checks", "pods"}
  /\ op.pc # "idle" => pv.status = "none" /\ op.from \in 1 .. Len(History)
  /\ op.pc = "pods" => op.ver \in op.from .. Len(History) /\ History[op.ver].exists

\* Every directory and every PV is of some version of the class.
PathsAreOfVersions ==
  /\ \A d \in dirs : \E i \in DOMAIN History : d = PathOf(History[i])
  /\ pv.status # "none" =>
       /\ pv.from \in Nat \ {0}
       /\ \E i \in DOMAIN History : pv.path = PathOf(History[i])
  /\ pv.status = "removed" /\ pv.reclaim = "Delete" => pv.path \notin dirs

Inv ==
  /\ HasVersions
  /\ CallIsOfVersion
  /\ PathsAreOfVersions
  /\ SettingsAreOfOneVersion
  /\ OnlySupportedClaimsTouchNodes

-------------------------------------------------------------------------------
USE ProvisionAssumption

\* The class of the claim has a history that is not empty.
LEMMA HistoryType ==
  ASSUME HasVersions
  PROVE  /\ History \in Seq(ClassTexts) /\ Len(History) \in Nat /\ Len(History) >= 1
         /\ DOMAIN History = 1 .. Len(History)
         /\ InForce = History[Len(History)]
<1>1. GetStorageClassName \in Classes
  BY DEF HasVersions, GetStorageClassName
<1>2. History \in Seq(ClassTexts) /\ History # <<>>
  BY <1>1 DEF HasVersions, History
<1> QED BY <1>2 DEF InForce, Last

LEMMA InitInv == Init => Inv
<1> SUFFICES ASSUME Init PROVE Inv
  OBVIOUS
<1> USE DEF Init
<1>1. HasVersions
  <2>1. ASSUME NEW n \in Classes PROVE versions[n] \in Seq(ClassTexts) /\ versions[n] # <<>>
    <3>1. PICK v \in ClassTexts : versions[n] = <<v>>
      OBVIOUS
    <3> QED BY <3>1
  <2> QED BY <2>1 DEF HasVersions
<1>2. CallIsOfVersion
  BY DEF CallIsOfVersion, Idle, At
<1>3. PathsAreOfVersions
  BY DEF PathsAreOfVersions, NoPV
<1>4. SettingsAreOfOneVersion /\ OnlySupportedClaimsTouchNodes
  BY DEF SettingsAreOfOneVersion, OnlySupportedClaimsTouchNodes, NoPV
<1> QED BY <1>1, <1>2, <1>3, <1>4 DEF Inv

(***************************************************************************)
(* A class is only ever given further versions: what a call has read of it *)
(* stays in its history.                                                   *)
(***************************************************************************)
LEMMA WriteClassAppends ==
  ASSUME HasVersions, NEW n \in Classes, WriteClass(n)
  PROVE  /\ HasVersions'
         /\ Len(History) <= Len(History')
         /\ \A i \in DOMAIN History : i \in DOMAIN History' /\ History'[i] = History[i]
<1>1. PICK v \in ClassTexts : versions' = [versions EXCEPT ![n] = Append(versions[n], v)]
  BY DEF WriteClass
<1>2. claim' = claim
  BY DEF WriteClass
<1>3. Append(versions[n], v) \in Seq(ClassTexts) /\ Append(versions[n], v) # <<>>
  BY DEF HasVersions
<1>4. HasVersions'
  BY <1>1, <1>2, <1>3 DEF HasVersions
<1>5. History' = History \/ History' = Append(History, v)
  BY <1>1, <1>2 DEF History, GetStorageClassName, HasVersions
<1>6. History \in Seq(ClassTexts)
  BY HistoryType
<1>7. /\ Len(History) <= Len(History')
      /\ \A i \in DOMAIN History : i \in DOMAIN History' /\ History'[i] = History[i]
  BY <1>5, <1>6
<1> QED BY <1>4, <1>7

\* The call is started, refused, or given up, or a node is selected.
LEMMA QuietInv ==
  ASSUME Inv, StartProvision \/ Refuse \/ FailPods \/ SelectNode \/ UNCHANGED vars
  PROVE  Inv'
<1> USE DEF Inv
<1>1. UNCHANGED <<claim, versions, dirs, pv>>
  BY DEF StartProvision, Refuse, FailPods, SelectNode, vars
<1>2. \/ op' = op \/ op' = Idle
      \/ pv.status = "none" /\ op' = At("checks", InForce.reclaim, Len(History), 0)
  BY DEF StartProvision, Refuse, FailPods, SelectNode, vars
<1>3. History' = History /\ HasVersions'
  BY <1>1 DEF History, GetStorageClassName, HasVersions
<1>4. CallIsOfVersion'
  <2>1. CASE op' = op
    BY <1>1, <1>3, <2>1 DEF CallIsOfVersion
  <2>2. CASE op' = Idle
    BY <2>2 DEF CallIsOfVersion, Idle, At
  <2>3. CASE pv.status = "none" /\ op' = At("checks", InForce.reclaim, Len(History), 0)
    <3>1. op'.pc = "checks" /\ op'.from = Len(History)
      BY <2>3 DEF At
    <3>2. Len(History) \in 1 .. Len(History)
      BY HistoryType
    <3> QED BY <1>1, <1>3, <2>3, <3>1, <3>2 DEF CallIsOfVersion
  <2> QED BY <1>2, <2>1, <2>2, <2>3
<1>5. PathsAreOfVersions'
  BY <1>1, <1>3 DEF PathsAreOfVersions
<1>6. SettingsAreOfOneVersion' /\ OnlySupportedClaimsTouchNodes'
  BY <1>1, <1>3 DEF SettingsAreOfOneVersion, OnlySupportedClaimsTouchNodes
<1> QED BY <1>3, <1>4, <1>5, <1>6

LEMMA ConfigureInv ==
  ASSUME Inv, Configure
  PROVE  Inv'
<1> USE DEF Inv
<1>1. /\ op.pc = "checks" /\ Accepted /\ InForce.exists /\ Dispatch(InForce.text)
      /\ op' = At("pods", op.reclaim, op.from, Len(History))
      /\ dirs' = dirs \cup {Settings(InForce.text).path}
      /\ UNCHANGED <<claim, versions, node, pv, faults>>
  BY DEF Configure
<1>2. History' = History /\ HasVersions'
  BY <1>1 DEF History, GetStorageClassName, HasVersions
<1>3. CallIsOfVersion'
  BY <1>1, <1>2, HistoryType DEF CallIsOfVersion, At
<1>4. Settings(InForce.text).path = PathOf(History[Len(History)])
  BY HistoryType DEF Settings, PathOf
<1>5. PathsAreOfVersions'
  BY <1>1, <1>2, <1>4, HistoryType DEF PathsAreOfVersions, CallIsOfVersion
<1>6. SettingsAreOfOneVersion'
  BY <1>1, <1>2 DEF SettingsAreOfOneVersion
<1>7. claim \in Claims /\ claim.accessModes # {} /\ claim.volumeMode \in {"Filesystem", "Block"}
  BY DEF HasVersions
<1>8. OnlySupportedClaimsTouchNodes'
  <2>1. claim.accessModes = {"ReadWriteOnce"}
    BY <1>1, <1>7 DEF Accepted, Supported
  <2>2. claim.volumeMode = "Filesystem"
    BY <1>1, <1>7 DEF Dispatch
  <2>3. claim.dataSource = "none" /\ ~claim.selector
    BY <1>1 DEF Accepted, Supported, validateVolumeSource
  <2> QED BY <1>1, <2>1, <2>2, <2>3 DEF OnlySupportedClaimsTouchNodes
<1> QED BY <1>2, <1>3, <1>5, <1>6, <1>8

LEMMA FinishInv ==
  ASSUME Inv, Finish
  PROVE  Inv'
<1> USE DEF Inv
<1> DEFINE t == History[op.ver].text
<1>1. /\ op.pc = "pods" /\ op' = Idle
      /\ pv' = [status |-> "bound", reclaim |-> op.reclaim, path |-> Settings(t).path,
                keys |-> Settings(t).keys, xfs |-> Settings(t).xfs, ext4 |-> Settings(t).ext4,
                from |-> op.from]
      /\ UNCHANGED <<claim, versions, node, dirs, faults>>
  BY DEF Finish, Bind
<1>2. History' = History /\ HasVersions'
  BY <1>1 DEF History, GetStorageClassName, HasVersions
<1>3. /\ op.from \in 1 .. Len(History) /\ op.ver \in op.from .. Len(History)
      /\ op.ver \in DOMAIN History /\ History[op.ver].exists
  BY <1>1, HistoryType DEF CallIsOfVersion
<1>4. CallIsOfVersion'
  BY <1>1 DEF CallIsOfVersion, Idle, At
<1>5. Settings(t).path = PathOf(History[op.ver])
  BY DEF Settings, PathOf
<1>6. PathsAreOfVersions'
  BY <1>1, <1>2, <1>3, <1>5, HistoryType DEF PathsAreOfVersions
<1>7. Settings(t) = [path |-> pv'.path, keys |-> pv'.keys, xfs |-> pv'.xfs, ext4 |-> pv'.ext4]
  BY <1>1 DEF Settings
<1>8. SettingsAreOfOneVersion'
  BY <1>1, <1>2, <1>3, <1>7 DEF SettingsAreOfOneVersion, Settings
<1>9. OnlySupportedClaimsTouchNodes'
  BY <1>1 DEF OnlySupportedClaimsTouchNodes
<1> QED BY <1>2, <1>4, <1>6, <1>8, <1>9

LEMMA DeleteInv ==
  ASSUME Inv, Delete
  PROVE  Inv'
<1> USE DEF Inv
<1>1. /\ pv.status = "bound" /\ pv' = Removed(pv)
      /\ dirs' = IF pv.reclaim = "Retain" THEN dirs ELSE dirs \ {pv.path}
      /\ UNCHANGED <<claim, versions, node, op, faults>>
  BY DEF Delete
<1>2. History' = History /\ HasVersions'
  BY <1>1 DEF History, GetStorageClassName, HasVersions
<1>3. CallIsOfVersion'
  BY <1>1, <1>2 DEF CallIsOfVersion
<1>4. PathsAreOfVersions'
  BY <1>1, <1>2 DEF PathsAreOfVersions, Removed
<1>5. SettingsAreOfOneVersion' /\ OnlySupportedClaimsTouchNodes'
  BY <1>1 DEF SettingsAreOfOneVersion, OnlySupportedClaimsTouchNodes, Removed
<1> QED BY <1>2, <1>3, <1>4, <1>5

LEMMA WriteClassInv ==
  ASSUME Inv, NEW n \in Classes, WriteClass(n)
  PROVE  Inv'
<1> USE DEF Inv
<1>1. UNCHANGED <<claim, node, op, dirs, pv, faults>>
  BY DEF WriteClass
<1>2. /\ HasVersions' /\ Len(History) <= Len(History')
      /\ \A i \in DOMAIN History : i \in DOMAIN History' /\ History'[i] = History[i]
  BY WriteClassAppends
<1>3. /\ Len(History) \in Nat /\ DOMAIN History = 1 .. Len(History)
      /\ Len(History') \in Nat
  BY <1>2, HistoryType DEF HasVersions
<1>4. CallIsOfVersion'
  BY <1>1, <1>2, <1>3 DEF CallIsOfVersion
<1>5. PathsAreOfVersions'
  BY <1>1, <1>2 DEF PathsAreOfVersions
<1>6. SettingsAreOfOneVersion'
  <2> SUFFICES ASSUME pv.status = "bound" PROVE SettingsAreOfOneVersion'
    BY <1>1 DEF SettingsAreOfOneVersion
  <2>1. PICK k \in pv.from .. Len(History) :
          /\ History[k].exists
          /\ Settings(History[k].text) = [path |-> pv.path, keys |-> pv.keys,
                                          xfs |-> pv.xfs, ext4 |-> pv.ext4]
    BY DEF SettingsAreOfOneVersion
  <2>2. k \in pv.from .. Len(History') /\ History'[k] = History[k]
    BY <1>2, <1>3, <2>1 DEF PathsAreOfVersions
  <2>3. Settings(History'[k].text) = [path |-> pv'.path, keys |-> pv'.keys,
                                     xfs |-> pv'.xfs, ext4 |-> pv'.ext4]
    BY <1>1, <2>1, <2>2
  <2> QED BY <1>1, <2>1, <2>2, <2>3 DEF SettingsAreOfOneVersion
<1>7. OnlySupportedClaimsTouchNodes'
  BY <1>1 DEF OnlySupportedClaimsTouchNodes
<1> QED BY <1>2, <1>4, <1>5, <1>6, <1>7

(***************************************************************************)
(* Inv holds always.                                                       *)
(***************************************************************************)
THEOREM Invariance == Spec => []Inv
<1>1. Inv /\ [Next]_vars => Inv'
  BY QuietInv, ConfigureInv, FinishInv, DeleteInv, WriteClassInv DEF Next, Step
<1> QED BY InitInv, <1>1, PTL DEF Spec

-------------------------------------------------------------------------------
(***************************************************************************)
(* The settings of a PV are those of one version of its class that was in  *)
(* force after the call began, whenever the class is edited, deleted or    *)
(* created again while Provision runs.                                     *)
(***************************************************************************)
THEOREM OneVersion == Spec => []SettingsAreOfOneVersion
<1>1. Inv => SettingsAreOfOneVersion
  BY DEF Inv
<1> QED BY <1>1, Invariance, PTL

(***************************************************************************)
(* Provision touches a node only for a claim that its checks admit,        *)
(* whatever the class said at the time of each attempt.                    *)
(***************************************************************************)
THEOREM SupportedOnly == Spec => []OnlySupportedClaimsTouchNodes
<1>1. Inv => OnlySupportedClaimsTouchNodes
  BY DEF Inv
<1> QED BY <1>1, Invariance, PTL

(***************************************************************************)
(* What Delete leaves of a volume is the directory of an attempt under     *)
(* another base path.                                                      *)
(***************************************************************************)
THEOREM StrayHasOtherPath == Spec => []StrayOnlyAfterNewBasePath
<1>1. ASSUME Inv, pv.status = "removed", pv.reclaim = "Delete", NEW d \in dirs
      PROVE  \E i, j \in DOMAIN History : PathOf(History[i]) # PathOf(History[j])
  BY <1>1 DEF Inv, PathsAreOfVersions
<1>2. Inv => StrayOnlyAfterNewBasePath
  BY <1>1 DEF StrayOnlyAfterNewBasePath, PathOf
<1> QED BY <1>2, Invariance, PTL
===============================================================================
