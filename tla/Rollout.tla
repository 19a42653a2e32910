-------------------------------- MODULE Rollout --------------------------------
(***************************************************************************)
(* The rollout status of a Deployment.  A caller updates or patches the    *)
(* Deployment and asks for its rollout status; the deployment controller   *)
(* of Kubernetes sees the new specification later, replaces the pods one   *)
(* by one and writes the status later still.  RolloutStatus decides from   *)
(* one copy of the object, whose two halves are of different ages.         *)
(***************************************************************************)
EXTENDS Naturals, FiniteSets

CONSTANTS
  MaxReplicas,      \* the largest number of replicas asked for
  MaxGeneration,    \* the number of changes of the specification
  MaxPods           \* replicas and surge

ASSUME RolloutAssumption == MaxReplicas \in Nat /\ MaxGeneration \in Nat /\ MaxPods \in Nat

VARIABLES
  spec,       \* generation, template and replicas, as written last
  seen,       \* the specification the controller works on
  old, new,   \* the pods of an earlier template and of the one the controller has seen
  ready,      \* those of the new pods that are available
  stuck,      \* the progress deadline of the controller is over
  status,     \* the status in the object
  report,     \* what RolloutStatus returned last, and for which generation
  complete    \* the generations of which every pod was available at some time

rolloutVars == <<spec, seen, old, new, ready, stuck, status, report, complete>>

NoReport == [generation |-> 0, rolledOut |-> FALSE]

StatusOf(gen, o, n, r, s) ==
  [observed |-> gen, replicas |-> o + n, updated |-> n, available |-> r, deadline |-> s]

RolloutInit ==
  /\ \E r \in 0 .. MaxReplicas : spec = [generation |-> 1, template |-> 1, replicas |-> r]
  /\ seen = spec /\ old = 0 /\ new = 0 /\ ready = 0 /\ stuck = FALSE
  /\ status = StatusOf(0, 0, 0, 0, FALSE)
  /\ report = NoReport /\ complete = IF spec.replicas = 0 THEN {1} ELSE {}

\* The predicates of a rollout, over a copy of the object.
IsProgressDeadlineExceeded(st) == st.deadline
\* An object read from the API server has its replicas set, to 1 by default.
IsOlderReplicaActive(sp, st) == st.updated < sp.replicas

\* Mutant of IsTerminationInProgress: the pods that stay count as well.
IsAnyPodThere(st) == st.replicas >= st.updated

IsTerminationInProgress(st) == st.replicas > st.updated
IsUpdateInProgress(st) == st.available < st.updated

\* Mutant of IsNotSyncSpec: the comparison is the other way round.
IsSyncSpec(sp, st) == sp.generation < st.observed

\* The comments of the code have it as Generation <= ObservedGeneration.
IsNotSyncSpec(sp, st) == sp.generation > st.observed

rolloutChecks(sp, st) ==
  {c \in {"ProgressDeadlineExceeded", "OlderReplicaActive", "TerminationInProgress",
          "UpdateInProgress", "NotSpecSynced"} :
     \/ c = "ProgressDeadlineExceeded" /\ IsProgressDeadlineExceeded(st)
     \/ c = "OlderReplicaActive" /\ IsOlderReplicaActive(sp, st)
     \/ c = "TerminationInProgress" /\ IsTerminationInProgress(st)
     \/ c = "UpdateInProgress" /\ IsUpdateInProgress(st)
     \/ c = "NotSpecSynced" /\ IsNotSyncSpec(sp, st)}

\* Which of the checks that apply is named depends on the order of a Go map.
IsRollout(sp, st) == rolloutChecks(sp, st) = {}

\* One Get, and the checks on the copy.
RolloutStatus ==
  /\ report' = [generation |-> spec.generation, rolledOut |-> IsRollout(spec, status)]
  /\ UNCHANGED <<spec, seen, old, new, ready, stuck, status, complete>>

\* Update and Patch: a new generation, with other replicas or another template.
Update ==
  /\ spec.generation < MaxGeneration
  /\ \E r \in 0 .. MaxReplicas, t \in {spec.template, spec.generation + 1} :
       /\ <<r, t>> # <<spec.replicas, spec.template>>
       /\ spec' = [generation |-> spec.generation + 1, template |-> t, replicas |-> r]
  /\ UNCHANGED <<seen, old, new, ready, stuck, status, report, complete>>

-------------------------------------------------------------------------------
\* The deployment controller and the pods.

\* Pods that are too many after a scale down do not delay a rollout.
Completed(sp, o, n, r) ==
  IF o = 0 /\ n >= sp.replicas /\ r = n THEN complete \cup {sp.generation} ELSE complete

\* The controller sees a change; pods of a replaced template are old ones.
Observe ==
  /\ seen # spec /\ seen' = spec
  /\ IF seen.template = spec.template THEN UNCHANGED <<old, new, ready>>
     ELSE old' = old + new /\ new' = 0 /\ ready' = 0
  /\ stuck' = FALSE
  /\ complete' = Completed(spec, old', new', ready')
  /\ UNCHANGED <<spec, status, report>>

Pods(o, n, r) ==
  /\ old' = o /\ new' = n /\ ready' = r
  /\ complete' = Completed(seen, o, n, r)
  /\ UNCHANGED <<spec, seen, status, report>>

\* Every step forward sets the progress deadline anew.
StartPod == new < seen.replicas /\ old + new < MaxPods /\ Pods(old, new + 1, ready) /\ stuck' = FALSE
StopOld == old > 0 /\ Pods(old - 1, new, ready) /\ stuck' = FALSE
StopNew == /\ new > seen.replicas
           /\ Pods(old, new - 1, IF ready = new THEN ready - 1 ELSE ready) /\ stuck' = FALSE
BecomeReady == ready < new /\ Pods(old, new, ready + 1) /\ stuck' = FALSE
Crash == ready > 0 /\ Pods(old, new, ready - 1) /\ UNCHANGED stuck

MissDeadline ==
  /\ ~stuck /\ (old > 0 \/ new # seen.replicas \/ ready < new)
  /\ stuck' = TRUE
  /\ UNCHANGED <<spec, seen, old, new, ready, status, report, complete>>

\* The status is written, for the specification the controller has seen.
WriteStatus ==
  /\ status' = StatusOf(seen.generation, old, new, ready, stuck)
  /\ status' # status
  /\ UNCHANGED <<spec, seen, old, new, ready, stuck, report, complete>>

Controller == Observe \/ StartPod \/ StopOld \/ StopNew

RolloutNext == RolloutStatus \/ Update \/ Controller \/ BecomeReady \/ Crash \/ MissDeadline \/ WriteStatus

RolloutSpec == RolloutInit /\ [][RolloutNext]_rolloutVars

\* The controller works, its status is written and the caller asks again.
FairSpec ==
  /\ RolloutSpec /\ WF_rolloutVars(RolloutStatus) /\ WF_rolloutVars(Observe) /\ WF_rolloutVars(Controller)
  /\ WF_rolloutVars(WriteStatus) /\ WF_rolloutVars(BecomeReady)

-------------------------------------------------------------------------------
\* A reported rollout took place: since the generation it is about was written,
\* every pod was of that generation and available, however late the status is.
\* It holds because IsNotSyncSpec compares as it does (deployment.go:555); its
\* comments (543-544, 552-553) say that a generation up to the observed one is not
\* updated yet, and of such a rollout they would have no report.
ReportedIsComplete == report.rolledOut => report.generation \in complete

\* When the specification no longer changes and the pods come up and stay up,
\* the rollout is reported, whatever was reported before.
Settled == [][spec' = spec /\ ~Crash /\ ~MissDeadline]_rolloutVars

RolloutIsReported ==
  <>Settled => <>[](report.rolledOut /\ report.generation = spec.generation)
===============================================================================
