---------------------------- MODULE QuotaProject ----------------------------
(***************************************************************************)
(* The quota script of createQuotaPod and the project ids of a node.       *)
(*                                                                         *)
(* The script is three commands of a shell, not one: it reads the last     *)
(* project id of the filesystem, gives the volume's directory the next id, *)
(* and sets the limits of that id.  The pods of different volumes run side *)
(* by side (the controller works on several claims at a time), a pod may   *)
(* be deleted between two commands (exitPod gives up after its timeout)    *)
(* and the next attempt of Provision runs the script again.  One volume    *)
(* has at most one quota pod at a time: HostPath shows why.                *)
(***************************************************************************)
EXTENDS Naturals, FiniteSets

CONSTANTS
  Volumes,     \* the volumes with a quota
  Nodes,       \* the nodes
  Home,        \* the node of each volume
  Quotas,      \* how many of XFSQuota and EXT4Quota are enabled for a volume
  NoVolume,    \* the limits of a project that has none
  MaxProject   \* bound on the project ids

ASSUME QuotaAssumption ==
  /\ NoVolume \notin Volumes
  /\ Home \in [Volumes -> Nodes]
  /\ Quotas \in [Volumes -> 1..2]
  /\ MaxProject \in Nat

VARIABLES
  dir,        \* dir[v]: the directory of v, "absent", "present" or "removed"
  project,    \* project[v]: the project id of the directory of v, 0 at first
  limits,     \* limits[<<n, i>>]: the volume whose limits project i of node n has
  script,     \* script[v]: the last command the quota script of v has run
  pid,        \* pid[v]: the variable PID of the script of v
  left,       \* left[v]: the quota pods that Provision has still to run for v
  overlapped  \* history: the pairs <<v, w>> where, in the latest run of v, one of
              \* v and w read the last id while the other had not used its own yet

vars == <<dir, project, limits, script, pid, left, overlapped>>

Ids == 0..MaxProject

TypeOK ==
  /\ dir \in [Volumes -> {"absent", "present", "removed"}]
  /\ project \in [Volumes -> Ids]
  /\ limits \in [Nodes \X Ids -> Volumes \cup {NoVolume}]
  /\ script \in [Volumes -> {"idle", "read", "assigned"}]
  /\ pid \in [Volumes -> Ids]
  /\ left \in [Volumes -> 0..2]
  /\ overlapped \subseteq Volumes \X Volumes

Init ==
  /\ dir = [v \in Volumes |-> "absent"]
  /\ project = [v \in Volumes |-> 0]
  /\ limits = [p \in Nodes \X Ids |-> NoVolume]
  /\ script = [v \in Volumes |-> "idle"]
  /\ pid = [v \in Volumes |-> 0]
  /\ left = Quotas
  /\ overlapped = {}

Neighbours(v) == {w \in Volumes \ {v} : Home[w] = Home[v]}

-----------------------------------------------------------------------------
(***************************************************************************)
(* What the report of xfs_quota or repquota can list: the ids of the       *)
(* directories that exist are always there.  Whether an id is listed that  *)
(* has limits but no directory any more is up to the filesystem.           *)
(***************************************************************************)
InUse(n) == {0} \cup {project[v] : v \in {w \in Volumes : Home[w] = n /\ dir[w] = "present"}}

Reports(n) == {r \in SUBSET Ids : /\ InUse(n) \subseteq r
                                  /\ \A i \in r \ InUse(n) : limits[<<n, i>>] # NoVolume}

\* i is the id in the last line of report r.
IsLast(i, r) == i \in r /\ \A j \in r : j <= i

\* The init pod has made the directory.
MakeDirectory(v) ==
  /\ dir[v] = "absent"
  /\ dir' = [dir EXCEPT ![v] = "present"]
  /\ UNCHANGED <<project, limits, script, pid, left, overlapped>>

\* The pairs <<v, w>> are about the latest run of v.
Others(v) == {p \in overlapped : p[1] # v}
Pending(v) == {w \in Neighbours(v) : script[w] = "read"}

\* Mutant of ReadLast: the id is not incremented.
ReadLastWithoutNext(v) ==
  /\ dir[v] = "present" /\ script[v] = "idle" /\ left[v] > 0
  /\ \E r \in Reports(Home[v]), i \in Ids :
       /\ IsLast(i, r)
       /\ pid' = [pid EXCEPT ![v] = i]
  /\ script' = [script EXCEPT ![v] = "read"]
  /\ overlapped' = Others(v) \cup ({v} \X Pending(v)) \cup (Pending(v) \X {v})
  /\ UNCHANGED <<dir, project, limits, left>>

\* Mutant of ReadLast: a quota pod runs once more although all have succeeded.
ReadLastOnceMore(v) ==
  /\ dir[v] = "present" /\ script[v] = "idle"
  /\ \E r \in Reports(Home[v]), i \in Ids :
       /\ IsLast(i, r)
       /\ i < MaxProject
       /\ pid' = [pid EXCEPT ![v] = i + 1]
  /\ script' = [script EXCEPT ![v] = "read"]
  /\ overlapped' = Others(v) \cup ({v} \X Pending(v)) \cup (Pending(v) \X {v})
  /\ UNCHANGED <<dir, project, limits, left>>

\* PID=`xfs_quota -x -c 'report -h' /data | ...` ; PID=`expr $PID + 1`
ReadLast(v) ==
  /\ dir[v] = "present" /\ script[v] = "idle" /\ left[v] > 0
  /\ \E r \in Reports(Home[v]), i \in Ids :
       /\ IsLast(i, r)
       /\ i < MaxProject
       /\ pid' = [pid EXCEPT ![v] = i + 1]
  /\ script' = [script EXCEPT ![v] = "read"]
  /\ overlapped' = Others(v) \cup ({v} \X Pending(v)) \cup (Pending(v) \X {v})
  /\ UNCHANGED <<dir, project, limits, left>>

\* Mutant of AssignProject: the command has no effect, its exit code is not looked at.
AssignNothing(v) ==
  /\ script[v] = "read"
  /\ script' = [script EXCEPT ![v] = "assigned"]
  /\ UNCHANGED <<dir, project, limits, pid, left, overlapped>>

\* xfs_quota -x -c 'project -s -p ...' $PID, or chattr +P -p $PID
AssignProject(v) ==
  /\ script[v] = "read"
  /\ project' = [project EXCEPT ![v] = pid[v]]
  /\ script' = [script EXCEPT ![v] = "assigned"]
  /\ UNCHANGED <<dir, limits, pid, left, overlapped>>

\* Mutant of SetLimit: the limits go to the id that was read, not to the next one.
SetLimitOfLast(v) ==
  /\ script[v] = "assigned"
  /\ limits' = [limits EXCEPT ![<<Home[v], pid[v] - 1>>] = v]
  /\ script' = [script EXCEPT ![v] = "idle"]
  /\ pid' = [pid EXCEPT ![v] = 0]
  /\ left' = [left EXCEPT ![v] = left[v] - 1]
  /\ UNCHANGED <<dir, project, overlapped>>

\* xfs_quota -x -c 'limit -p ...' $PID, or setquota -P $PID; the pod has succeeded.
SetLimit(v) ==
  /\ script[v] = "assigned"
  /\ limits' = [limits EXCEPT ![<<Home[v], pid[v]>>] = v]
  /\ script' = [script EXCEPT ![v] = "idle"]
  /\ pid' = [pid EXCEPT ![v] = 0]
  /\ left' = [left EXCEPT ![v] = left[v] - 1]
  /\ UNCHANGED <<dir, project, overlapped>>

\* The attempt ends before the PV exists, its pod with it; the next one starts over.
Abandon(v) ==
  /\ left[v] > 0
  /\ script[v] # "idle" \/ left[v] < Quotas[v]
  /\ script' = [script EXCEPT ![v] = "idle"]
  /\ pid' = [pid EXCEPT ![v] = 0]
  /\ left' = [left EXCEPT ![v] = Quotas[v]]
  /\ UNCHANGED <<dir, project, limits, overlapped>>

\* The cleanup pod removes the directory; the project keeps its limits.
RemoveDirectory(v) ==
  /\ dir[v] = "present" /\ left[v] = 0
  /\ dir' = [dir EXCEPT ![v] = "removed"]
  /\ project' = [project EXCEPT ![v] = 0]
  /\ UNCHANGED <<limits, script, pid, left, overlapped>>

Next ==
  \E v \in Volumes :
    \/ MakeDirectory(v) \/ ReadLast(v) \/ AssignProject(v) \/ SetLimit(v)
    \/ Abandon(v) \/ RemoveDirectory(v)

Spec == Init /\ [][Next]_vars

-----------------------------------------------------------------------------
(***************************************************************************)
(* Properties.  Every quota pod of a volume in use has succeeded.          *)
(***************************************************************************)
InService(v) == dir[v] = "present" /\ left[v] = 0

Alone(v) == \A w \in Volumes : <<v, w>> \notin overlapped

(***************************************************************************)
(* A volume in service is in a project that has limits, be they another    *)
(* volume's: whatever pods were deleted in the middle of their script and  *)
(* run again, createQuotaPod never leaves a directory without a limit.     *)
(***************************************************************************)
InServiceIsLimited ==
  \A v \in Volumes :
    InService(v) => project[v] # 0 /\ limits[<<Home[v], project[v]>>] # NoVolume

(***************************************************************************)
(* Two volumes in service on a node share a project only if one of their   *)
(* quota scripts read the last id while the other had yet to use its own:  *)
(* neither an abandoned run nor the removal of a volume, after which its   *)
(* id may be given out again, makes two volumes share.                     *)
(***************************************************************************)
SharedOnlyByOverlap ==
  \A v \in Volumes : \A w \in Neighbours(v) :
    InService(v) /\ InService(w) /\ project[v] = project[w] => <<v, w>> \in overlapped

(***************************************************************************)
(* A volume whose script ran alone has its own limits, and keeps them when *)
(* the scripts of other volumes run later.                                 *)
(***************************************************************************)
LimitsAreOwn ==
  \A v \in Volumes : InService(v) /\ Alone(v) => limits[<<Home[v], project[v]>>] = v

(***************************************************************************)
(* The comment of the script: "xfs_quota project(xfs) or chattr +P (ext4)  *)
(* initializes project with new project id".                               *)
(***************************************************************************)
ProjectIsNew ==
  \A v \in Volumes : \A w \in Neighbours(v) :
    InService(v) /\ InService(w) => project[v] # project[w]
=============================================================================
