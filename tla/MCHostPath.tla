----------------------------- MODULE MCHostPath -----------------------------
(* Instances of HostPath for TLC: two nodes, one of which carries no rack label. *)
EXTENDS HostPath

CONSTANTS n1, n2, v1, v2, t1

Host(n) == <<"kubernetes.io/hostname", n>>
Rack(r) == <<"rack", r>>

MCLabelPairs == {Host("h1"), Host("h2"), Rack("r1"), Rack("r2")}
MCLabels == [n \in Nodes |-> IF n = n1 THEN {Host("h1"), Rack("r1")} ELSE {Host("h2")}]
\* A relabelled node takes over the other's labels, or gets new ones.
MCLabelStates == {{Host("h1"), Rack("r1")}, {Host("h2"), Rack("r1")}, {Host("h2")}}
MCTaints == [n \in Nodes |-> IF n = n1 THEN {t1} ELSE {}]
MCMixedFilesystem == [n \in Nodes |-> IF n = n1 THEN "xfs" ELSE "other"]
MCKnownFilesystem == [n \in Nodes |-> IF n = n1 THEN "xfs" ELSE "ext2/ext3"]
MCSelected == [v \in Volumes |-> IF v = v1 THEN n1 ELSE n2]
MCRackKeys == [v \in Volumes |-> IF v = v1 THEN {"rack", "kubernetes.io/hostname"} ELSE {}]
MCOneQuota == [v \in Volumes |-> IF v = v1 THEN 1 ELSE 0]
MCQuotas == [v \in Volumes |-> 1]
MCTwoQuotas == [v \in Volumes |-> IF v = v1 THEN 2 ELSE 0]
MCDelete == [v \in Volumes |-> "Delete"]
MCMixedPolicy == [v \in Volumes |-> IF v = v1 THEN "Delete" ELSE "Retain"]
=============================================================================
