------------------------------- MODULE MCQuota -------------------------------
(***************************************************************************)
(* Instances of the two halves of createQuotaPod for TLC: the script, with *)
(* three volumes on one node, and the limits it is given.  The halves have *)
(* no state in common; a behaviour is one of one of them.                  *)
(***************************************************************************)
EXTENDS QuotaProject, QuotaLimits

CONSTANTS n1, v1, v2, v3

VARIABLE part   \* "script" or "limits"

MCHome == [v \in Volumes |-> n1]
MCQuotas == [v \in Volumes |-> IF v = v1 THEN 2 ELSE 1]
MCOneQuota == [v \in Volumes |-> 1]

\* Sizes around a kilobyte and around every change in the number of digits in kilobytes.
MCSizes == UNION {{1024 * k - 1, 1024 * k, 1024 * k + 1} : k \in {1, 5, 9, 10, 50, 99, 100, 500, 519}}

NoLimits ==
  LimitsInit /\ pvcStorage = 1024 /\ softLimitGrace = Absent /\ hardLimitGrace = Absent

QuotaInit ==
  /\ Init
  /\ \/ part = "script" /\ NoLimits
     \/ part = "limits" /\ LimitsInit

QuotaNext ==
  \/ part = "script" /\ Next /\ UNCHANGED <<part, limitVars>>
  \/ part = "limits" /\ createQuotaPod /\ UNCHANGED <<part, vars>>

QuotaSpec == QuotaInit /\ [][QuotaNext]_<<part, vars, limitVars>>
==============================================================================
