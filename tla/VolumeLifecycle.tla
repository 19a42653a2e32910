--------------------------- MODULE VolumeLifecycle ---------------------------
(***************************************************************************)
(* What the provisioner promises of a local volume, without helper pods,   *)
(* nodes or faults: a PV is published only over data that exists, the data *)
(* stays for as long as the PV is in use or retained, and the PV of a      *)
(* released volume goes only after its data.                               *)
(***************************************************************************)
CONSTANTS
  Volumes,  \* the volumes
  Policy    \* the reclaim policy of each volume

VARIABLES
  data,     \* data[v]: "present" when the directory of v exists
  status    \* status[v]: the PV of v, "None", "Bound", "Released" or "Gone"

vars == <<data, status>>

Init ==
  /\ data = [v \in Volumes |-> "absent"]
  /\ status = [v \in Volumes |-> "None"]

\* Before there is a PV the directory may come and go.
Prepare(v) ==
  /\ status[v] = "None"
  /\ \E d \in {"present", "absent"} : data' = [data EXCEPT ![v] = d]
  /\ UNCHANGED status

Publish(v) ==
  /\ status[v] = "None" /\ data[v] = "present"
  /\ status' = [status EXCEPT ![v] = "Bound"]
  /\ UNCHANGED data

Release(v) ==
  /\ status[v] = "Bound"
  /\ status' = [status EXCEPT ![v] = "Released"]
  /\ UNCHANGED data

Erase(v) ==
  /\ status[v] = "Released" /\ Policy[v] # "Retain"
  /\ data' = [data EXCEPT ![v] = "absent"]
  /\ UNCHANGED status

Retire(v) ==
  /\ status[v] = "Released" /\ Policy[v] # "Retain" /\ data[v] = "absent"
  /\ status' = [status EXCEPT ![v] = "Gone"]
  /\ UNCHANGED data

Next ==
  \E v \in Volumes : Prepare(v) \/ Publish(v) \/ Release(v) \/ Erase(v) \/ Retire(v)

Spec == Init /\ [][Next]_vars
=============================================================================
