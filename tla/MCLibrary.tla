------------------------------ MODULE MCLibrary ------------------------------
(***************************************************************************)
(* The packages under pkg/ that the provisioner and its tests use and that *)
(* have no state in common: the builders of objects, the StorageClass, the *)
(* clients of the API server, the rollout status and the configuration of  *)
(* the node disk manager.  A behaviour is one of one package; the others   *)
(* do not move in it.                                                      *)
(***************************************************************************)
EXTENDS Builders, StorageClass, KubeClient, Rollout, NdmConfig

VARIABLE part   \* the package

builderVars == vars
allVars == <<part, builderVars, scvars, clientVars, rolloutVars, ndmVars>>

-------------------------------------------------------------------------------
\* Any calls to builders that contain one another, and more calls of the setters
\* of maps to two deployments with one template, and to objects that keep the
\* maps of their caller.
AnyCalls(kinds) == [kinds |-> kinds, from |-> <<>>, room |-> <<>>, only |-> {}, calls |-> 3]
SomeCalls(kinds, only, n) ==
  [kinds |-> kinds, from |-> <<>>, room |-> <<>>, only |-> only, calls |-> n]

MCCallers ==
  {AnyCalls([c |-> "container", v |-> "volume", p |-> "pod"]),
   AnyCalls([c |-> "container", t |-> "template", d |-> "deployment"]),
   AnyCalls([p |-> "pv", q |-> "pv"]),
   AnyCalls([p |-> "pvc", q |-> "pvc"]),
   SomeCalls([t |-> "template", d |-> "deployment", e |-> "deployment"],
             {"Labels", "Template.Labels", "Template.NodeSelector"}, 5),
   SomeCalls([p |-> "pv", q |-> "pvc", d |-> "deployment"],
             {"Labels", "Annotations", "Template.NodeSelector"}, 4),
   [SomeCalls([p |-> "pv", q |-> "pvc", r |-> "pvc"], {"Labels", "Annotations"}, 4)
      EXCEPT !.from = [q |-> 2, r |-> 2]]}
  \cup {[SomeCalls([c |-> "container", d |-> "container", p |-> "pod", q |-> "pod"], {"Containers"}, 4)
          EXCEPT !.room = room] : room \in {<<>>, 5 :> "Containers"}}
  \cup {[SomeCalls([t |-> "template", u |-> "template", d |-> "deployment"], {"Template.Tolerations"}, 4)
          EXCEPT !.room = room] : room \in {<<>>, 5 :> "Template.Tolerations"}}

\* Three maps, whose keys are numbers, and two lists.
MCGiven == <<<<>>, <<"x">>, <<"y", "z">>, <<>>, <<"x", "">>>>

\* The options of a StorageClass, with good and bad arguments.
MCDefaultBasePath == <<"/", "var", "/", "openebs", "/", "local">>
Good == <<"/", "var", "/", "local">>
UnderRoot == <<"/", "local">>
TwoSlashes == <<"/", "/", "local">>

MCOptions ==
  {[opt |-> "WithLocalPV"], [opt |-> "WithDevice"], [opt |-> "WithHostpath", path |-> Good],
   [opt |-> "WithHostpath", path |-> UnderRoot], [opt |-> "WithHostpath", path |-> TwoSlashes],
   [opt |-> "WithXfsQuota", soft |-> "", hard |-> ""],
   [opt |-> "WithXfsQuota", soft |-> "valid", hard |-> "invalid"],
   [opt |-> "WithExt4Quota", soft |-> "valid", hard |-> "valid"],
   [opt |-> "WithNodeAffinityLabels", keys |-> <<"zone", "">>],
   [opt |-> "WithNodeAffinityLabels", keys |-> <<"">>],
   [opt |-> "WithFSType", fs |-> "xfs"], [opt |-> "WithFSType", fs |-> "vfat"],
   [opt |-> "WithBlockDeviceSelectors", sel |-> {<<"tag", "ssd">>, <<"type", "">>}]}

\* With the options that touch no parameter.
MCAllOptions ==
  MCOptions \cup
  {[opt |-> "WithName", arg |-> "sc"], [opt |-> "WithName", arg |-> ""],
   [opt |-> "WithGenerateName", arg |-> "sc"],
   [opt |-> "WithLabels", map |-> [app |-> "x"]], [opt |-> "WithLabels", map |-> [app |-> "y"]],
   [opt |-> "WithParameters", map |-> [a |-> "1"]],
   [opt |-> "WithVolumeBindingMode", arg |-> ""], [opt |-> "WithReclaimPolicy", arg |-> "Retain"],
   [opt |-> "WithAllowedTopologies", map |-> [zone |-> {"z1"}]]}

MCCollections == {<<>>, <<"x">>, <<"x", "y">>, <<"y", "y">>}

\* The path of one device begins with the path of another, or has it in the middle.
MCPaths == {<<"/sda">>, <<"/sda", "1">>, <<"/sr0">>}
MCTexts == {<<>>, <<"/sr0">>, <<"/sr0", ",", "/sda", "1">>, <<"/vg", "/sda">>}

-------------------------------------------------------------------------------
\* A package that does not move is in one of its initial states.
NoBuilders == Init /\ caller = CHOOSE c \in Callers : TRUE
NoClient == ClientInit /\ env = NoCluster /\ client.path = NoCluster /\ client.kind = "pod"
NoDeployment == RolloutInit /\ spec.replicas = 0
NoNdm == NdmInit /\ stored = NoFilter

LibraryInit ==
  /\ SCInit
  /\ \/ part = "builders" /\ Init /\ NoClient /\ NoDeployment /\ NoNdm
     \/ part = "storageclass" /\ NoBuilders /\ NoClient /\ NoDeployment /\ NoNdm
     \/ part = "client" /\ ClientInit /\ NoBuilders /\ NoDeployment /\ NoNdm
     \/ part = "deployment" /\ RolloutInit /\ NoBuilders /\ NoClient /\ NoNdm
     \/ part = "ndm" /\ NdmInit /\ NoBuilders /\ NoClient /\ NoDeployment

LibraryNext ==
  /\ UNCHANGED part
  /\ \/ /\ part = "builders" /\ Next
        /\ UNCHANGED <<scvars, clientVars, rolloutVars, ndmVars>>
     \/ /\ part = "storageclass" /\ SCNext
        /\ UNCHANGED <<builderVars, clientVars, rolloutVars, ndmVars>>
     \/ /\ part = "client" /\ ClientNext
        /\ UNCHANGED <<builderVars, scvars, rolloutVars, ndmVars>>
     \/ /\ part = "deployment" /\ RolloutNext
        /\ UNCHANGED <<builderVars, scvars, clientVars, ndmVars>>
     \/ /\ part = "ndm" /\ NdmNext
        /\ UNCHANGED <<builderVars, scvars, clientVars, rolloutVars>>

\* Fairness as in Rollout: the controller works, its status is written, pods come
\* up and the caller asks again.
Others == UNCHANGED <<part, builderVars, scvars, clientVars, ndmVars>>

LibrarySpec ==
  /\ LibraryInit /\ [][LibraryNext]_allVars
  /\ WF_rolloutVars(part = "deployment" /\ RolloutStatus /\ Others)
  /\ WF_rolloutVars(part = "deployment" /\ Observe /\ Others)
  /\ WF_rolloutVars(part = "deployment" /\ Controller /\ Others)
  /\ WF_rolloutVars(part = "deployment" /\ WriteStatus /\ Others)
  /\ WF_rolloutVars(part = "deployment" /\ BecomeReady /\ Others)

-------------------------------------------------------------------------------
\* Once the specification of a deployment no longer changes and its pods stay up,
\* RolloutStatus reports the rollout, whatever it reported before.
DeploymentIsReported == part = "deployment" => RolloutIsReported
=============================================================================
