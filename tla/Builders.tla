-------------------------------- MODULE Builders --------------------------------
(***************************************************************************)
(* The builders of Kubernetes objects.  Every setter of a builder refuses, *)
(* ignores or accepts an empty argument and stores the argument in a field *)
(* of the object: as a copy, as the caller's own map, merged into the map  *)
(* that is there, or added to a list.  A refusal is remembered and makes   *)
(* Build fail.  Builders of containers, volumes and pod templates are      *)
(* handed to the builders of the objects that contain them.                *)
(*                                                                         *)
(* A map or a list is a cell of the heap, a function from its keys or its  *)
(* positions to values.  The first cells of the heap are the caller's.     *)
(* Several cells may be lists in one array: an append to a list with room  *)
(* behind it writes there, whoever else has appended to that list.         *)
(***************************************************************************)
EXTENDS Naturals, Sequences, SequencesExt

CONSTANTS
  Callers,     \* the callers: the kinds of their builders by name, the labels of
               \* the objects that some PVC builders start from, the field for
               \* which they have each list with room behind it, the only fields
               \* they set or check, {} for any, and the number of their calls
  Given,       \* the contents of a caller's cells, a sequence
  GivenMaps,   \* those that are maps of strings; the others are lists and values
  MaxList      \* the most builders handed over in one call

Kinds == {"container", "volume", "pod", "template", "deployment", "pv", "pvc"}

\* The lists that a builder may keep as its caller has them and append to.
KeptLists == {"Containers", "Volumes", "Template.Tolerations"}

ASSUME BuildersAssumption ==
  /\ \A c \in Callers :
       /\ \A b \in DOMAIN c.kinds : c.kinds[b] \in Kinds
       /\ \A b \in DOMAIN c.from : /\ b \in DOMAIN c.kinds /\ c.kinds[b] = "pvc"
                                  /\ c.from[b] \in GivenMaps
       /\ \A a \in DOMAIN c.room : a \in DOMAIN Given \ GivenMaps /\ c.room[a] \in KeptLists
  /\ Len(Given) \in Nat /\ Given = [i \in 1 .. Len(Given) |-> Given[i]]
  /\ GivenMaps \subseteq DOMAIN Given
  /\ MaxList \in Nat

VARIABLES
  caller,      \* the caller
  heap,        \* the contents of the cells
  array,       \* for each cell, the cell that begins its array: itself, or the list
               \* of the caller that it continues
  fields,      \* for each builder, the cells of the fields that are set
  errs,        \* for each builder, whether an error was recorded
  checks,      \* for each builder, the fields its checks require
  asked,       \* what was asked of each builder, as contents and not as cells
  calls

vars == <<caller, heap, array, fields, errs, checks, asked, calls>>

kind == caller.kinds

-------------------------------------------------------------------------------
\* The setters, as SetterOf(the setter, the field, another field that gets the
\* same value, the fields it clears, what it does with an empty argument, how it
\* stores the argument, how it stores the first one, what it does with an invalid
\* one).

SetterOf(name, f, also, clears, empty, store, first, invalid) ==
  [setter |-> name, field |-> f, also |-> also, clears |-> clears, empty |-> empty,
   store |-> store, first |-> first, invalid |-> invalid]

Setter(name, f, empty, store) == SetterOf(name, f, f, {}, empty, store, "copy", "none")

Set(name, f) == Setter(name, f, "refuse", "copy")
Keep(name, f) == Setter(name, f, "refuse", "alias")
Merge(name, f) == Setter(name, f, "refuse", "merge")
Add(name, f) == Setter(name, f, "refuse", "append")
Always(name, f) == Setter(name, f, "accept", "copy")
Checked(name, f) == SetterOf(name, f, f, {}, "refuse", "copy", "copy", "refuse")
MergeOrKeep(name, f) == SetterOf(name, f, f, {}, "refuse", "merge", "alias", "none")

containerText ==
  {Set("WithName", "Name"), Set("WithImage", "Image"), Set("WithCommandNew", "Command"),
   Set("WithArgumentsNew", "Args")}
containerMounts ==
  {Set("WithVolumeMountsNew", "VolumeMounts"), Set("WithVolumeDevices", "VolumeDevices"),
   Set("WithImagePullPolicy", "ImagePullPolicy"),
   Set("WithPrivilegedSecurityContext", "SecurityContext"),
   Keep("WithResources", "Resources"),
   Setter("WithResourcesByValue", "Resources", "accept", "alias")}
containerProcess ==
  {Set("WithPortsNew", "Ports"), Set("WithEnvsNew", "Env"), Add("WithEnvs", "Env"),
   Keep("WithLivenessProbe", "LivenessProbe"), Keep("WithLifeCycle", "Lifecycle")}

\* A source takes the place of all others, an empty directory that of an empty
\* directory only.  A mode of zero is recorded as an error, and the volume is set
\* nevertheless.
Source(name) == SetterOf(name, "Source", "Source", {"EmptyDir"}, "refuse", "copy", "copy", "none")
SourceByName(name) ==
  SetterOf(name, "Source", "Name", {"EmptyDir"}, "refuse", "copy", "copy", "record")

volumeSetters ==
  {Set("WithName", "Name"), Source("WithHostDirectory"), Source("WithHostPathAndType"),
   Source("WithPVCSource"), SourceByName("WithSecret"), SourceByName("WithConfigMap"),
   Set("WithEmptyDir", "EmptyDir")}

podSetters ==
  {Setter("WithTolerationsForTaints", "Tolerations", "accept", "append"),
   Set("WithName", "Name"), Set("WithNamespace", "Namespace"), Merge("WithLabels", "Labels")}
podPlacement ==
  {Always("WithRestartPolicy", "RestartPolicy"), Set("WithNodeName", "NodeName"),
   Set("WithNodeSelectorHostnameNew", "NodeSelector"),
   Setter("WithNodeAffinityNew", "Affinity", "refuse", "values")}
podContents ==
  {Keep("WithContainers", "Containers"), Always("WithContainer", "Containers"),
   Setter("WithImagePullSecrets", "ImagePullSecrets", "ignore", "alias"),
   Keep("WithVolumes", "Volumes"), Always("WithVolume", "Volumes"),
   Set("WithServiceAccountName", "ServiceAccountName")}

templateMaps ==
  {Set("WithName", "Template.Name"), Set("WithNamespace", "Template.Namespace"),
   Merge("WithAnnotations", "Template.Annotations"), Set("WithAnnotationsNew", "Template.Annotations"),
   Merge("WithLabels", "Template.Labels"), Set("WithLabelsNew", "Template.Labels")}
templatePlacement ==
  {Merge("WithNodeSelector", "Template.NodeSelector"), Set("WithNodeSelectorNew", "Template.NodeSelector"),
   Always("WithPriorityClassName", "Template.PriorityClassName"),
   Set("WithServiceAccountName", "Template.ServiceAccountName"), Keep("WithAffinity", "Template.Affinity")}
templateTolerations ==
  {SetterOf("WithTolerationsByValue", "Template.Tolerations", "Template.Tolerations", {}, "accept",
            "append", "alias", "none"),
   Add("WithTolerations", "Template.Tolerations"), Set("WithTolerationsNew", "Template.Tolerations")}

deploymentMaps ==
  {Set("WithName", "Name"), Set("WithNamespace", "Namespace"),
   Merge("WithAnnotations", "Annotations"), Set("WithAnnotationsNew", "Annotations"),
   MergeOrKeep("WithNodeSelector", "Template.NodeSelector"),
   Keep("WithNodeSelectorNew", "Template.NodeSelector"),
   Keep("WithOwnerReferenceNew", "OwnerReferences")}

deploymentSpec ==
  {Merge("WithLabels", "Labels"), Set("WithLabelsNew", "Labels"),
   Merge("WithSelectorMatchLabels", "Selector"), Set("WithSelectorMatchLabelsNew", "Selector"),
   Checked("WithReplicas", "Replicas"), Set("WithStrategyType", "Strategy")}

pvSetters ==
  {Set("WithName", "Name"), Keep("WithAnnotations", "Annotations"), Keep("WithLabels", "Labels"),
   Always("WithReclaimPolicy", "ReclaimPolicy"), Always("WithVolumeMode", "VolumeMode"),
   Keep("WithAccessModes", "AccessModes"), Checked("WithCapacity", "Capacity"),
   Always("WithCapacityQty", "Capacity"), Set("WithLocalHostDirectory", "Source"),
   Set("WithLocalHostPathFormat", "Source"), Keep("WithPersistentVolumeSource", "Source")}
pvPlacement ==
  {Set("WithNodeAffinityHostname", "NodeAffinity"),
   Setter("WithNodeAffinity", "NodeAffinity", "refuse", "values"), Set("WithNFS", "Source")}

\* Mutant of pvcSetters: new labels are the caller's map.
pvcSettersKept == {Merge("WithLabels", "Labels"), Keep("WithLabelsNew", "Labels")}

pvcSetters ==
  {Set("WithName", "Name"), Set("WithGenerateName", "GenerateName"),
   Setter("WithNamespace", "Namespace", "default", "copy"), Keep("WithAnnotations", "Annotations"),
   Merge("WithLabels", "Labels"), Set("WithLabelsNew", "Labels"),
   Setter("WithStorageClass", "StorageClass", "ignore", "copy"),
   Keep("WithAccessModes", "AccessModes"), Always("WithAccessModeRWO", "AccessModes"),
   Checked("WithCapacity", "Capacity"), Always("WithVolumeMode", "VolumeMode")}

Setters(k) ==
  CASE k = "container" -> containerText \cup containerMounts \cup containerProcess
    [] k = "volume" -> volumeSetters
    [] k = "pod" -> podSetters \cup podPlacement \cup podContents
    [] k = "template" -> templateMaps \cup templatePlacement \cup templateTolerations
    [] k = "deployment" -> deploymentMaps \cup deploymentSpec
    [] k = "pv" -> pvSetters \cup pvPlacement
    [] k = "pvc" -> pvcSetters

-------------------------------------------------------------------------------
\* The calls.

\* The builder of a PVC may start from an object of the caller, of which it keeps
\* the labels; the others start from nothing.
BuildFrom(b) == IF b \in DOMAIN caller.from THEN [f \in {"Labels"} |-> caller.from[b]] ELSE <<>>

Init ==
  /\ caller \in Callers
  /\ heap = Given /\ array = [i \in DOMAIN Given |-> i]
  /\ fields = [b \in DOMAIN kind |-> BuildFrom(b)]
  /\ asked = [b \in DOMAIN kind |-> [f \in DOMAIN BuildFrom(b) |-> Given[BuildFrom(b)[f]]]]
  /\ errs = [b \in DOMAIN kind |-> FALSE]
  /\ checks = [b \in DOMAIN kind |-> {}]
  /\ calls = 0

Count == calls < caller.calls /\ calls' = calls + 1 /\ UNCHANGED caller

MapFields == {"Labels", "Annotations", "Selector", "Template.Labels", "Template.Annotations",
              "Template.NodeSelector"}

Has(b, f) == f \in DOMAIN fields[b]
Empty(content) == DOMAIN content = {}

Put(m, r, v) ==
  [x \in (DOMAIN m \ r.clears) \cup {r.field, r.also} |->
     IF x \in {r.field, r.also} THEN v ELSE m[x]]

\* The entries of two maps, and of a list and of what is appended to it.
Over(new, old) == [k \in DOMAIN new \cup DOMAIN old |-> IF k \in DOMAIN new THEN new[k] ELSE old[k]]
Behind(n, list) == [i \in {n + k : k \in DOMAIN list} |-> list[i - n]]
Joined(old, new) == IF Empty(old) THEN new ELSE Over(old, Behind(Len(old), new))

\* What a setter makes of its argument: an affinity leaves out the labels
\* without a value.
Argument(r, content) ==
  IF Empty(content) /\ r.empty = "default" THEN <<"default">>
  ELSE IF r.store = "values"
       THEN [k \in {k \in DOMAIN content : content[k] # ""} |-> content[k]] ELSE content

\* How a field is stored: the first argument of a map, or of a list that is empty,
\* is neither merged nor appended.
Mode(b, r) ==
  IF \/ r.store \in {"merge", "append"} /\ ~Has(b, r.field)
     \/ r.store = "append" /\ Empty(heap[fields[b][r.field]])
  THEN r.first ELSE r.store

\* The list goes on in the array of its caller's list, which has room for it.
InPlace(b, r) ==
  LET a == array[fields[b][r.field]]
  IN Mode(b, r) = "append" /\ a \in DOMAIN caller.room /\ caller.room[a] = r.field

Cell(b, r, a) ==
  IF Mode(b, r) = "alias" THEN a
  ELSE IF Mode(b, r) = "merge" THEN fields[b][r.field] ELSE Len(heap) + 1

\* A list in the same array, after the write behind another: the caller's own ends
\* before it.
Overwritten(i, old, joined) ==
  IF array[i] # array[old] \/ array[i] = i THEN heap[i]
  ELSE [j \in DOMAIN heap[i] |-> IF j \in DOMAIN joined \ DOMAIN heap[old] THEN joined[j]
                                 ELSE heap[i][j]]

NewCell(content, start) == heap' = Append(heap, content) /\ array' = Append(array, start)

Store(b, r, a, content) ==
  LET old == fields[b][r.field]
      joined == Joined(heap[old], content)
  IN /\ fields' = [fields EXCEPT ![b] = Put(fields[b], r, Cell(b, r, a))]
     /\ \/ Mode(b, r) = "alias" /\ UNCHANGED <<heap, array>>
        \/ /\ Mode(b, r) = "merge"
           /\ heap' = [heap EXCEPT ![old] = Over(content, heap[old])] /\ UNCHANGED array
        \/ /\ InPlace(b, r)
           /\ heap' = Append([i \in DOMAIN heap |-> Overwritten(i, old, joined)], joined)
           /\ array' = Append(array, array[old])
        \/ Mode(b, r) = "append" /\ ~InPlace(b, r) /\ NewCell(joined, Len(heap) + 1)
        \/ Mode(b, r) \notin {"alias", "merge", "append"} /\ NewCell(content, Len(heap) + 1)

\* The same in terms of contents: what the caller asks for.
Asks(b, r, content) ==
  IF r.field \notin DOMAIN asked[b] THEN content
  ELSE CASE r.store = "merge" -> Over(content, asked[b][r.field])
         [] r.store = "append" -> Joined(asked[b][r.field], content)
         [] OTHER -> content

Ask(b, r, content) == asked' = [asked EXCEPT ![b] = Put(asked[b], r, Asks(b, r, content))]

\* One call of a setter, with a cell of the caller; a value may be one that the
\* setter can tell to be invalid.
Call(b, r, a, valid) ==
  LET content == Argument(r, heap[a])
  IN IF Empty(content) /\ r.empty = "ignore" THEN UNCHANGED <<heap, array, fields, errs, asked>>
     ELSE /\ Ask(b, r, content)
          /\ IF (Empty(content) /\ r.empty = "refuse") \/ (~valid /\ r.invalid = "refuse")
             THEN errs' = [errs EXCEPT ![b] = TRUE] /\ UNCHANGED <<heap, array, fields>>
             ELSE /\ Store(b, r, a, content)
                  /\ errs' = [errs EXCEPT ![b] = errs[b] \/ ~valid]

Uses(f) == caller.only # {} => f \in caller.only

With(b) ==
  /\ Count /\ UNCHANGED checks
  /\ \E r \in Setters(kind[b]), a \in DOMAIN Given :
       /\ Uses(r.field)
       /\ a \in GivenMaps <=> r.field \in MapFields
       /\ \E valid \in (IF r.invalid = "none" THEN {TRUE} ELSE BOOLEAN) : Call(b, r, a, valid)

\* A check of a container or of a deployment: a field has to be set.
AddCheck(b, f) ==
  /\ Count /\ kind[b] \in {"container", "deployment"} /\ Uses(f)
  /\ checks' = [checks EXCEPT ![b] = checks[b] \cup {f}]
  /\ UNCHANGED <<heap, array, fields, errs, asked>>

\* Build fails after an error; a check of a container that fails is an error from
\* then on, and the checks of a deployment are not run, although its AddCheck "adds
\* the predicate as a condition to be validated".
ChecksHold(b) == checks[b] \subseteq DOMAIN fields[b]
Fails(b) == errs[b] \/ (kind[b] = "container" /\ ~ChecksHold(b))

Build(b) ==
  /\ Count /\ kind[b] = "container"
  /\ errs' = [errs EXCEPT ![b] = Fails(b)]
  /\ UNCHANGED <<heap, array, fields, checks, asked>>

Adds(f, reset) ==
  IF reset THEN Always("WithBuildersNew", f) ELSE Setter("WithBuilders", f, "ignore", "append")

\* Mutant of WithBuilders: the error of a builder that fails is not recorded.
WithBuildersThatWork(p, f, list, reset) ==
  /\ Ask(p, Adds(f, reset), list)
  /\ Store(p, Adds(f, reset), 0, SelectSeq(list, LAMBDA c : ~Fails(c)))
  /\ UNCHANGED errs

\* Containers and volumes are built and added one by one up to the first that
\* fails, or all of them replace those that were there.
WithBuilders(p, f, list, reset) ==
  LET n == CHOOSE i \in 0 .. Len(list) :
             /\ \A j \in 1 .. i : ~Fails(list[j])
             /\ i < Len(list) => Fails(list[i + 1])
      r == Adds(f, reset)
  IN /\ Ask(p, r, list)
     /\ errs' = [b \in DOMAIN kind |->
                   errs[b] \/ (n < Len(list) /\ b \in {p, list[n + 1]}) \/ (b = p /\ list = <<>>)]
     /\ IF (reset /\ n < Len(list)) \/ n = 0 THEN UNCHANGED <<heap, array, fields>>
        ELSE Store(p, r, 0, SubSeq(list, 1, n))

OfKind(k) == {b \in DOMAIN kind : kind[b] = k}

WithContainersAndVolumes(p) ==
  /\ Count /\ UNCHANGED checks
  /\ \E k \in {"container", "volume"} :
       LET f == IF k = "container" THEN "Containers" ELSE "Volumes"
           ofTemplate == IF k = "container" THEN "Template.Containers" ELSE "Template.Volumes"
       IN \/ kind[p] = "pod" /\ \E c \in OfKind(k) : WithBuilders(p, f, <<c>>, FALSE)
          \/ /\ kind[p] = "template"
             /\ \E list \in BoundedSeq(OfKind(k), MaxList), reset \in BOOLEAN :
                  WithBuilders(p, ofTemplate, list, reset)

\* The fields of a pod template, which a deployment takes as they are.
TemplateFields ==
  {r.field : r \in Setters("template")} \cup {"Template.Containers", "Template.Volumes"}

Taken(d, t) ==
  [f \in DOMAIN t \cup (DOMAIN d \ TemplateFields) |-> IF f \in DOMAIN t THEN t[f] ELSE d[f]]

WithPodTemplateSpecBuilder(d, t) ==
  /\ Count /\ kind[d] = "deployment" /\ kind[t] = "template"
  /\ IF Fails(t) THEN errs' = [errs EXCEPT ![d] = TRUE] /\ UNCHANGED fields
     ELSE fields' = [fields EXCEPT ![d] = Taken(fields[d], fields[t])] /\ UNCHANGED errs
  /\ asked' = [asked EXCEPT ![d] = Taken(asked[d], asked[t])]
  /\ UNCHANGED <<heap, array, checks>>

Next ==
  \E b \in DOMAIN kind :
    \/ With(b) \/ Build(b) \/ WithContainersAndVolumes(b)
    \/ \E f \in {"Name", "Env"} : AddCheck(b, f)
    \/ \E t \in DOMAIN kind : WithPodTemplateSpecBuilder(b, t)

Spec == Init /\ [][Next]_vars

-------------------------------------------------------------------------------
\* The other writers of a map or a list that is part of the object of b.  A
\* deployment and the builder of its template have their maps in common.  A map
\* that the caller keeps is merged into when a deployment has it for its node
\* selector, or a PVC builder started from the object whose labels it is.  A list
\* with room, once appended to, is written to by the other builders that append.
AppendsTo(c, f) == kind[c] = IF f = "Template.Tolerations" THEN "template" ELSE "pod"

SharedMap(b, f) ==
  \/ kind[b] = "deployment" /\ f \in {"Template.Labels", "Template.Annotations", "Template.NodeSelector"}
  \/ kind[b] = "template" /\ f = "Template.NodeSelector"
  \/ f \in MapFields /\ fields[b][f] \in GivenMaps /\ OfKind("deployment") # {}
  \/ \E c \in DOMAIN caller.from : caller.from[c] = fields[b][f] /\ <<c, "Labels">> # <<b, f>>

SharedList(b, f) ==
  LET a == array[fields[b][f]]
  IN /\ fields[b][f] # a
     /\ \E c \in DOMAIN kind : c # b /\ AppendsTo(c, f)

\* An object that can be built is what was asked of its builder, neither less,
\* because a setter or a builder handed over was refused in silence, nor other,
\* because another builder has written to one of its maps or lists; that happens
\* only to the maps of a pod template, to a map of the caller that a deployment has
\* for its node selector or a PVC builder for the labels of the object it started
\* from, and to a list with room behind it that two builders were given.
ObjectIsWhatWasAsked ==
  \A b \in DOMAIN kind :
    ~errs[b] => /\ DOMAIN asked[b] = DOMAIN fields[b]
                /\ \A f \in DOMAIN asked[b] :
                     SharedMap(b, f) \/ SharedList(b, f) \/ heap[fields[b][f]] = asked[b][f]

\* No call changes a map or a list of the caller, unless it is the node selector of
\* a deployment or the labels of an object that a PVC builder started from.
KeepsMaps ==
  \A i \in DOMAIN Given :
    heap'[i] # heap[i] =>
      \/ \E d \in OfKind("deployment") :
           Has(d, "Template.NodeSelector") /\ fields[d]["Template.NodeSelector"] = i
      \/ \E c \in DOMAIN caller.from : Has(c, "Labels") /\ fields[c]["Labels"] = i

CallersMapsAreKept ==
  [][KeepsMaps]_vars
=================================================================================
