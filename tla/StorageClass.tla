----------------------------- MODULE StorageClass -----------------------------
(***************************************************************************)
(* NewStorageClass: a StorageClass is built by applying options one after  *)
(* the other; every option checks what the earlier ones left behind and    *)
(* the first refusal ends the construction.  The cas.openebs.io/config     *)
(* annotation, which the code keeps as YAML text and parses again in every *)
(* check, is the sequence of its parameters.                               *)
(***************************************************************************)
EXTENDS VolumeConfig

CONSTANTS
  Options,     \* the options, with their arguments, a caller may pass
  MaxOptions   \* the number of options passed in one call

OptionNames ==
  {"WithName", "WithGenerateName", "WithLabels", "WithParameters", "WithVolumeBindingMode",
   "WithReclaimPolicy", "WithAllowedTopologies", "WithLocalPV", "WithHostpath", "WithDevice",
   "WithXfsQuota", "WithExt4Quota", "WithNodeAffinityLabels", "WithFSType",
   "WithBlockDeviceSelectors"}

ASSUME OptionsAssumption ==
  /\ MaxOptions \in Nat
  /\ \A o \in Options : /\ o.opt \in OptionNames
                        /\ o.opt = "WithHostpath" => o.path \in Seq(STRING)

VARIABLES
  class,       \* the StorageClass under construction
  applied,     \* the options applied so far
  refused      \* <<>>, or the one option that was refused

scvars == <<class, applied, refused>>

EmptyClass ==
  [name |-> "", generateName |-> "", labels |-> <<>>, parameters |-> <<>>, casType |-> "", provisioner |-> "",
   config |-> <<>>, volumeBindingMode |-> "", reclaimPolicy |-> "", allowedTopologies |-> <<>>]

\* A path is the sequence of its "/" and its names.
TrimSlash(p) == IF p # <<>> /\ Last(p) = "/" THEN Front(p) ELSE p

isValidPath(p) ==
  LET path == TrimSlash(p)
      slash == {i \in DOMAIN path : path[i] = "/"}
      cut == IF slash = {} THEN 0 ELSE CHOOSE i \in slash : \A j \in slash : j <= i
  IN /\ p # <<>> /\ p[1] = "/"
     /\ TrimSlash(SubSeq(path, 1, cut)) # <<>>
     /\ SubSeq(path, cut + 1, Len(path)) # <<>>

\* The two limits of a quota, each "valid", "invalid" or empty.
isValidQuotaData(d) == \A kv \in d : kv[2] # "invalid"

isCompatibleWithLocalPVcasType(s) == s.casType \in {"", "local"}

Parameters(s) == {s.config[i] : i \in DOMAIN s.config}

\* Every check of an option accepts some of the parameters that are there.
Compatible(s, accepted) ==
  /\ isCompatibleWithLocalPVcasType(s)
  /\ Parameters(s) \subseteq accepted
  /\ s.provisioner \in {"", "openebs.io/local"}

IsQuota(e) == e.name \in {"XFSQuota", "EXT4Quota"} /\ isValidQuotaData(e.data)
IsBasePath(e) == e.name = "BasePath" /\ isValidPath(e.path)
IsType(e, types) == e.name = "StorageType" /\ e.value \in types

isCompatibleWithHostpath(s) ==
  Compatible(s, {e \in Parameters(s) : e.name = "NodeAffinityLabel" \/ IsQuota(e)})

isCompatibleWithQuota(s) ==
  Compatible(s, {e \in Parameters(s) : IsType(e, {"hostpath"}) \/ IsBasePath(e) \/ e.name = "NodeAffinityLabel"})

isCompatibleWithNodeAffinityLabel(s) ==
  Compatible(s, {e \in Parameters(s) : IsType(e, {"hostpath", "device"}) \/ IsBasePath(e) \/ IsQuota(e)})

\* Mutant of isCompatibleWithDevice: only the storage type is looked at.
isCompatibleWithDeviceAlways(s) ==
  Compatible(s, {e \in Parameters(s) : ~IsType(e, {"device", "hostpath"})})

isCompatibleWithDevice(s) ==
  Compatible(s, {e \in Parameters(s) : e.name \in {"BlockDeviceSelectors", "FSType"}})

\* Mutant of isCompatibleWithFSType: WithDevice has to come last.
isCompatibleWithFSTypeOnly(s) ==
  Compatible(s, {e \in Parameters(s) : e.name = "BlockDeviceSelectors"})

isCompatibleWithFSType(s) ==
  Compatible(s, {e \in Parameters(s) : IsType(e, {"device"}) \/ e.name = "BlockDeviceSelectors"})

isCompatibleWithBlockDeviceTag(s) ==
  Compatible(s, {e \in Parameters(s) : IsType(e, {"device"}) \/ e.name = "FSType"})

isValidFilesystem(f) == f \in {"xfs", "ext4"}

\* Mutant of writeOrAppendCASConfig: what was there is replaced.
writeOverCASConfig(s, entries) == [s EXCEPT !.config = entries]

writeOrAppendCASConfig(s, entries) == [s EXCEPT !.config = s.config \o entries]

\* Each option: does it apply to s, and what does it make of s.
WithName(s, n) == [ok |-> n # "", sc |-> [s EXCEPT !.name = n]]

WithGenerateName(s, n) == [ok |-> n # "", sc |-> [s EXCEPT !.generateName = n]]

WithLabels(s, l) == [ok |-> l # <<>>, sc |-> [s EXCEPT !.labels = l @@ s.labels]]

WithParameters(s, l) == [ok |-> l # <<>>, sc |-> [s EXCEPT !.parameters = l @@ s.parameters]]

WithVolumeBindingMode(s, m) ==
  [ok |-> TRUE,
   sc |-> [s EXCEPT !.volumeBindingMode = IF m = "" THEN "WaitForFirstConsumer" ELSE m]]

WithReclaimPolicy(s, r) ==
  [ok |-> TRUE, sc |-> [s EXCEPT !.reclaimPolicy = IF r = "" THEN "Delete" ELSE r]]

WithAllowedTopologies(s, t) ==
  [ok |-> t # <<>>, sc |-> [s EXCEPT !.allowedTopologies = Append(s.allowedTopologies, t)]]

WithLocalPV(s) ==
  [ok |-> s.casType = "" /\ s.provisioner = "",
   sc |-> [s EXCEPT !.casType = "local", !.provisioner = "openebs.io/local"]]

WithHostpath(s, p) ==
  [ok |-> isValidPath(p) /\ isCompatibleWithHostpath(s),
   sc |-> writeOrAppendCASConfig(s, <<Value("StorageType", "hostpath"), BasePath(p)>>)]

WithDevice(s) ==
  [ok |-> isCompatibleWithDevice(s),
   sc |-> writeOrAppendCASConfig(s, <<Value("StorageType", "device")>>)]

\* The data of a quota option: none when both limits are empty.
QuotaData(soft, hard) ==
  IF soft = "" /\ hard = "" THEN {}
  ELSE {<<"softLimitGrace", soft>>, <<"hardLimitGrace", hard>>}

WithXfsQuota(s, soft, hard) ==
  [ok |-> isCompatibleWithQuota(s) /\ isValidQuotaData(QuotaData(soft, hard)),
   sc |-> writeOrAppendCASConfig(s, <<Quota("XFSQuota", QuotaData(soft, hard))>>)]

WithExt4Quota(s, soft, hard) ==
  [ok |-> isCompatibleWithQuota(s) /\ isValidQuotaData(QuotaData(soft, hard)),
   sc |-> writeOrAppendCASConfig(s, <<Quota("EXT4Quota", QuotaData(soft, hard))>>)]

NonEmpty(keys) == SelectSeq(keys, LAMBDA k : k # "")

WithNodeAffinityLabels(s, keys) ==
  [ok |-> NonEmpty(keys) # <<>> /\ isCompatibleWithNodeAffinityLabel(s),
   sc |-> writeOrAppendCASConfig(s, <<List("NodeAffinityLabels", NonEmpty(keys))>>)]

WithFSType(s, fs) ==
  [ok |-> isValidFilesystem(fs) /\ isCompatibleWithFSType(s),
   sc |-> writeOrAppendCASConfig(s, <<Value("FSType", fs)>>)]

\* Selectors without a value are left out.
WithBlockDeviceSelectors(s, sel) ==
  LET kept == {kv \in sel : kv[2] # ""}
  IN [ok |-> kept # {} /\ isCompatibleWithBlockDeviceTag(s),
      sc |-> writeOrAppendCASConfig(s, <<Data("BlockDeviceSelectors", kept)>>)]

ApplyOption(s, o) ==
  CASE o.opt = "WithName" -> WithName(s, o.arg)
    [] o.opt = "WithGenerateName" -> WithGenerateName(s, o.arg)
    [] o.opt = "WithLabels" -> WithLabels(s, o.map)
    [] o.opt = "WithParameters" -> WithParameters(s, o.map)
    [] o.opt = "WithVolumeBindingMode" -> WithVolumeBindingMode(s, o.arg)
    [] o.opt = "WithReclaimPolicy" -> WithReclaimPolicy(s, o.arg)
    [] o.opt = "WithAllowedTopologies" -> WithAllowedTopologies(s, o.map)
    [] o.opt = "WithLocalPV" -> WithLocalPV(s)
    [] o.opt = "WithHostpath" -> WithHostpath(s, o.path)
    [] o.opt = "WithDevice" -> WithDevice(s)
    [] o.opt = "WithXfsQuota" -> WithXfsQuota(s, o.soft, o.hard)
    [] o.opt = "WithExt4Quota" -> WithExt4Quota(s, o.soft, o.hard)
    [] o.opt = "WithNodeAffinityLabels" -> WithNodeAffinityLabels(s, o.keys)
    [] o.opt = "WithFSType" -> WithFSType(s, o.fs)
    [] o.opt = "WithBlockDeviceSelectors" -> WithBlockDeviceSelectors(s, o.sel)

SCInit ==
  /\ class = EmptyClass
  /\ applied = <<>>
  /\ refused = <<>>

\* One turn of the loop of NewStorageClass; after a refusal there is none.
NewStorageClass(o) ==
  /\ refused = <<>> /\ Len(applied) < MaxOptions
  /\ LET r == ApplyOption(class, o)
     IN IF r.ok
        THEN class' = r.sc /\ applied' = Append(applied, o) /\ UNCHANGED refused
        ELSE refused' = <<o>> /\ UNCHANGED <<class, applied>>

SCNext == \E o \in Options : NewStorageClass(o)
SCSpec == SCInit /\ [][SCNext]_scvars

-------------------------------------------------------------------------------
ParameterNames(s) == {e.name : e \in Parameters(s)}

\* A class never mixes parameters of directories with parameters of devices,
\* and never asks for both kinds of quota.
StorageKindsDoNotMix ==
  LET hostpath == \/ ParameterNames(class) \cap {"BasePath", "XFSQuota", "EXT4Quota"} # {}
                  \/ \E e \in Parameters(class) : IsType(e, {"hostpath"})
      device == \/ ParameterNames(class) \cap {"FSType", "BlockDeviceSelectors"} # {}
                \/ \E e \in Parameters(class) : IsType(e, {"device"})
  IN ~(hostpath /\ device) /\ ~({"XFSQuota", "EXT4Quota"} \subseteq ParameterNames(class))

\* Options of which one order builds a class build one in every order: an
\* option is refused for what the class is to be, not for its place.  Only the
\* place of WithNodeAffinityLabels matters, whose parameter the other checks
\* know by another name.
Builds(opts) ==
  LET built[n \in 0 .. Len(opts)] ==
        IF n = 0 THEN [ok |-> TRUE, sc |-> EmptyClass]
        ELSE IF built[n - 1].ok THEN ApplyOption(built[n - 1].sc, opts[n]) ELSE built[n - 1]
  IN built[Len(opts)].ok

OrderMattersOnlyForLabels ==
  LET opts == applied \o refused
  IN /\ refused # <<>>
     /\ \A i \in DOMAIN opts : opts[i].opt # "WithNodeAffinityLabels"
     => \A p \in {q \in [DOMAIN opts -> DOMAIN opts] : IsInjective(q)} :
          ~Builds([i \in DOMAIN opts |-> opts[p[i]]])

\* The provisioner, which merges the annotation with its defaults and reads it
\* through other code, finds what every option that was accepted asked for.
ReadsBack(o) ==
  LET c == MergeConfig(class.config, defaultConfig)
  IN CASE o.opt = "WithHostpath" ->
            GetStorageType(c) = "hostpath" /\ GetPath(c, "pv") = Append(PathNames(o.path), "pv")
       [] o.opt = "WithDevice" -> GetStorageType(c) = "device"
       [] o.opt = "WithXfsQuota" ->
            QuotaOf(c, "XFSQuota") = [enabled |-> TRUE, soft |-> o.soft, hard |-> o.hard]
       [] o.opt = "WithExt4Quota" ->
            QuotaOf(c, "EXT4Quota") = [enabled |-> TRUE, soft |-> o.soft, hard |-> o.hard]
       [] o.opt = "WithNodeAffinityLabels" -> GetNodeAffinityLabelKeys(c) = NonEmpty(o.keys)
       [] o.opt = "WithFSType" -> GetFSType(c) = o.fs
       [] o.opt = "WithBlockDeviceSelectors" ->
            getData(c, "BlockDeviceSelectors") = {kv \in o.sel : kv[2] # ""}
       [] OTHER -> TRUE

BuiltClassReadsBack == \A i \in DOMAIN applied : ReadsBack(applied[i])
===============================================================================
