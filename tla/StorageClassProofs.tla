-------------------------- MODULE StorageClassProofs --------------------------
(***************************************************************************)
(* Theorems about the StorageClass that options build, for every set of    *)
(* options, with whatever arguments, and every number of them.             *)
(*                                                                         *)
(* All three rest on one description of the options: what each writes      *)
(* (Writes), what it asks of its own arguments (Alone), which parameters   *)
(* it accepts beside its own (Accepts), and so which options exclude each  *)
(* other (Exclude), whichever comes first.                                 *)
(***************************************************************************)
EXTENDS StorageClass, SequenceTheorems, FiniteSetTheorems, WellFoundedInduction, TLAPS

\* The fields of the parameters.
LEMMA EntryNames ==
  /\ \A n, v : Value(n, v).name = n /\ Value(n, v).value = v
  /\ \A p : BasePath(p).name = "BasePath" /\ BasePath(p).path = p
  /\ \A n, d : Quota(n, d).name = n /\ Quota(n, d).data = d /\ Quota(n, d).enabled = "true"
  /\ \A n, d : Data(n, d).name = n /\ Data(n, d).data = d
  /\ \A n, l : List(n, l).name = n /\ List(n, l).list = l
<1>1. \A n, v : Value(n, v).name = n /\ Value(n, v).value = v
  BY DEF Value, NoEntry
<1>2. \A p : BasePath(p).name = "BasePath" /\ BasePath(p).path = p
  BY DEF BasePath, NoEntry
<1>3. \A n, d : Quota(n, d).name = n /\ Quota(n, d).data = d /\ Quota(n, d).enabled = "true"
  BY DEF Quota, NoEntry
<1>4. \A n, d : Data(n, d).name = n /\ Data(n, d).data = d
  BY DEF Data, NoEntry
<1>5. \A n, l : List(n, l).name = n /\ List(n, l).list = l
  BY DEF List, NoEntry
<1> QED BY <1>1, <1>2, <1>3, <1>4, <1>5

\* The options that add parameters, and what each adds.
ParameterOption ==
  {"WithHostpath", "WithDevice", "WithXfsQuota", "WithExt4Quota", "WithNodeAffinityLabels",
   "WithFSType", "WithBlockDeviceSelectors"}

Kept(sel) == {kv \in sel : kv[2] # ""}

Writes(o) ==
  CASE o.opt = "WithHostpath" -> <<Value("StorageType", "hostpath"), BasePath(o.path)>>
    [] o.opt = "WithDevice" -> <<Value("StorageType", "device")>>
    [] o.opt = "WithXfsQuota" -> <<Quota("XFSQuota", QuotaData(o.soft, o.hard))>>
    [] o.opt = "WithExt4Quota" -> <<Quota("EXT4Quota", QuotaData(o.soft, o.hard))>>
    [] o.opt = "WithNodeAffinityLabels" -> <<List("NodeAffinityLabels", NonEmpty(o.keys))>>
    [] o.opt = "WithFSType" -> <<Value("FSType", o.fs)>>
    [] o.opt = "WithBlockDeviceSelectors" -> <<Data("BlockDeviceSelectors", Kept(o.sel))>>
    [] OTHER -> <<>>

Written(o) == {Writes(o)[i] : i \in DOMAIN Writes(o)}

\* What an option asks of its own arguments ...
Alone(o) ==
  CASE o.opt \in {"WithName", "WithGenerateName"} -> o.arg # ""
    [] o.opt \in {"WithLabels", "WithParameters", "WithAllowedTopologies"} -> o.map # <<>>
    [] o.opt = "WithHostpath" -> isValidPath(o.path)
    [] o.opt \in {"WithXfsQuota", "WithExt4Quota"} -> isValidQuotaData(QuotaData(o.soft, o.hard))
    [] o.opt = "WithNodeAffinityLabels" -> NonEmpty(o.keys) # <<>>
    [] o.opt = "WithFSType" -> isValidFilesystem(o.fs)
    [] o.opt = "WithBlockDeviceSelectors" -> Kept(o.sel) # {}
    [] OTHER -> TRUE

\* ... and which parameter it accepts beside its own.
Accepts(o, e) ==
  CASE o.opt = "WithHostpath" -> e.name = "NodeAffinityLabel" \/ IsQuota(e)
    [] o.opt = "WithDevice" -> e.name \in {"BlockDeviceSelectors", "FSType"}
    [] o.opt \in {"WithXfsQuota", "WithExt4Quota"} ->
         IsType(e, {"hostpath"}) \/ IsBasePath(e) \/ e.name = "NodeAffinityLabel"
    [] o.opt = "WithNodeAffinityLabels" ->
         IsType(e, {"hostpath", "device"}) \/ IsBasePath(e) \/ IsQuota(e)
    [] o.opt = "WithFSType" -> IsType(e, {"device"}) \/ e.name = "BlockDeviceSelectors"
    [] o.opt = "WithBlockDeviceSelectors" -> IsType(e, {"device"}) \/ e.name = "FSType"
    [] OTHER -> TRUE

LEMMA CompatibleIff ==
  ASSUME NEW s, NEW o
  PROVE  Compatible(s, {e \in Parameters(s) : Accepts(o, e)}) <=>
           /\ isCompatibleWithLocalPVcasType(s) /\ s.provisioner \in {"", "openebs.io/local"}
           /\ \A e \in Parameters(s) : Accepts(o, e)
BY DEF Compatible

\* An option that adds parameters.
LEMMA ParameterOptionDoes ==
  ASSUME NEW s, NEW o, o.opt \in ParameterOption
  PROVE  /\ ApplyOption(s, o).sc = writeOrAppendCASConfig(s, Writes(o))
         /\ ApplyOption(s, o).ok <=>
              Alone(o) /\ Compatible(s, {e \in Parameters(s) : Accepts(o, e)})
<1> DEFINE accepted == {e \in Parameters(s) : Accepts(o, e)}
<1>1. CASE o.opt = "WithHostpath"
  <2>1. ApplyOption(s, o) = WithHostpath(s, o.path)
    BY <1>1 DEF ApplyOption
  <2>2. WithHostpath(s, o.path).sc = writeOrAppendCASConfig(s, <<Value("StorageType", "hostpath"), BasePath(o.path)>>)
    BY DEF WithHostpath
  <2>3. WithHostpath(s, o.path).ok <=> isValidPath(o.path) /\ isCompatibleWithHostpath(s)
    BY DEF WithHostpath
  <2>4. Writes(o) = <<Value("StorageType", "hostpath"), BasePath(o.path)>>
    BY <1>1 DEF Writes
  <2>5. Alone(o) <=> isValidPath(o.path)
    BY <1>1 DEF Alone
  <2>6. accepted = {e \in Parameters(s) : e.name = "NodeAffinityLabel" \/ IsQuota(e)}
    BY <1>1 DEF Accepts
  <2>7. isCompatibleWithHostpath(s) <=> Compatible(s, accepted)
    BY <2>6 DEF isCompatibleWithHostpath
  <2> HIDE DEF accepted
  <2>8. ApplyOption(s, o).ok <=> isValidPath(o.path) /\ isCompatibleWithHostpath(s)
    BY <2>1, <2>3, Zenon
  <2>9. ApplyOption(s, o).sc = writeOrAppendCASConfig(s, Writes(o))
    BY <2>1, <2>2, <2>4, Zenon
  <2> QED BY <2>5, <2>7, <2>8, <2>9, Zenon DEF accepted
<1>2. CASE o.opt = "WithDevice"
  <2>1. ApplyOption(s, o) = WithDevice(s)
    BY <1>2 DEF ApplyOption
  <2>2. WithDevice(s).sc = writeOrAppendCASConfig(s, <<Value("StorageType", "device")>>)
    BY DEF WithDevice
  <2>3. WithDevice(s).ok <=> TRUE /\ isCompatibleWithDevice(s)
    BY DEF WithDevice
  <2>4. Writes(o) = <<Value("StorageType", "device")>>
    BY <1>2 DEF Writes
  <2>5. Alone(o) <=> TRUE
    BY <1>2 DEF Alone
  <2>6. accepted = {e \in Parameters(s) : e.name \in {"BlockDeviceSelectors", "FSType"}}
    BY <1>2 DEF Accepts
  <2>7. isCompatibleWithDevice(s) <=> Compatible(s, accepted)
    BY <2>6 DEF isCompatibleWithDevice
  <2> HIDE DEF accepted
  <2>8. ApplyOption(s, o).ok <=> TRUE /\ isCompatibleWithDevice(s)
    BY <2>1, <2>3, Zenon
  <2>9. ApplyOption(s, o).sc = writeOrAppendCASConfig(s, Writes(o))
    BY <2>1, <2>2, <2>4, Zenon
  <2> QED BY <2>5, <2>7, <2>8, <2>9, Zenon DEF accepted
<1>3. CASE o.opt = "WithXfsQuota"
  <2>1. ApplyOption(s, o) = WithXfsQuota(s, o.soft, o.hard)
    BY <1>3 DEF ApplyOption
  <2>2. WithXfsQuota(s, o.soft, o.hard).sc = writeOrAppendCASConfig(s, <<Quota("XFSQuota", QuotaData(o.soft, o.hard))>>)
    BY DEF WithXfsQuota
  <2>3. WithXfsQuota(s, o.soft, o.hard).ok <=> isValidQuotaData(QuotaData(o.soft, o.hard)) /\ isCompatibleWithQuota(s)
    BY DEF WithXfsQuota
  <2>4. Writes(o) = <<Quota("XFSQuota", QuotaData(o.soft, o.hard))>>
    BY <1>3 DEF Writes
  <2>5. Alone(o) <=> isValidQuotaData(QuotaData(o.soft, o.hard))
    BY <1>3 DEF Alone
  <2>6. accepted = {e \in Parameters(s) : IsType(e, {"hostpath"}) \/ IsBasePath(e) \/ e.name = "NodeAffinityLabel"}
    BY <1>3 DEF Accepts
  <2>7. isCompatibleWithQuota(s) <=> Compatible(s, accepted)
    BY <2>6 DEF isCompatibleWithQuota
  <2> HIDE DEF accepted
  <2>8. ApplyOption(s, o).ok <=> isValidQuotaData(QuotaData(o.soft, o.hard)) /\ isCompatibleWithQuota(s)
    BY <2>1, <2>3, Zenon
  <2>9. ApplyOption(s, o).sc = writeOrAppendCASConfig(s, Writes(o))
    BY <2>1, <2>2, <2>4, Zenon
  <2> QED BY <2>5, <2>7, <2>8, <2>9, Zenon DEF accepted
<1>4. CASE o.opt = "WithExt4Quota"
  <2>1. ApplyOption(s, o) = WithExt4Quota(s, o.soft, o.hard)
    BY <1>4 DEF ApplyOption
  <2>2. WithExt4Quota(s, o.soft, o.hard).sc = writeOrAppendCASConfig(s, <<Quota("EXT4Quota", QuotaData(o.soft, o.hard))>>)
    BY DEF WithExt4Quota
  <2>3. WithExt4Quota(s, o.soft, o.hard).ok <=> isValidQuotaData(QuotaData(o.soft, o.hard)) /\ isCompatibleWithQuota(s)
    BY DEF WithExt4Quota
  <2>4. Writes(o) = <<Quota("EXT4Quota", QuotaData(o.soft, o.hard))>>
    BY <1>4 DEF Writes
  <2>5. Alone(o) <=> isValidQuotaData(QuotaData(o.soft, o.hard))
    BY <1>4 DEF Alone
  <2>6. accepted = {e \in Parameters(s) : IsType(e, {"hostpath"}) \/ IsBasePath(e) \/ e.name = "NodeAffinityLabel"}
    BY <1>4 DEF Accepts
  <2>7. isCompatibleWithQuota(s) <=> Compatible(s, accepted)
    BY <2>6 DEF isCompatibleWithQuota
  <2> HIDE DEF accepted
  <2>8. ApplyOption(s, o).ok <=> isValidQuotaData(QuotaData(o.soft, o.hard)) /\ isCompatibleWithQuota(s)
    BY <2>1, <2>3, Zenon
  <2>9. ApplyOption(s, o).sc = writeOrAppendCASConfig(s, Writes(o))
    BY <2>1, <2>2, <2>4, Zenon
  <2> QED BY <2>5, <2>7, <2>8, <2>9, Zenon DEF accepted
<1>5. CASE o.opt = "WithNodeAffinityLabels"
  <2>1. ApplyOption(s, o) = WithNodeAffinityLabels(s, o.keys)
    BY <1>5 DEF ApplyOption
  <2>2. WithNodeAffinityLabels(s, o.keys).sc = writeOrAppendCASConfig(s, <<List("NodeAffinityLabels", NonEmpty(o.keys))>>)
    BY DEF WithNodeAffinityLabels
  <2>3. WithNodeAffinityLabels(s, o.keys).ok <=> NonEmpty(o.keys) # <<>> /\ isCompatibleWithNodeAffinityLabel(s)
    BY DEF WithNodeAffinityLabels
  <2>4. Writes(o) = <<List("NodeAffinityLabels", NonEmpty(o.keys))>>
    BY <1>5 DEF Writes
  <2>5. Alone(o) <=> NonEmpty(o.keys) # <<>>
    BY <1>5 DEF Alone
  <2>6. accepted = {e \in Parameters(s) : IsType(e, {"hostpath", "device"}) \/ IsBasePath(e) \/ IsQuota(e)}
    BY <1>5 DEF Accepts
  <2>7. isCompatibleWithNodeAffinityLabel(s) <=> Compatible(s, accepted)
    BY <2>6 DEF isCompatibleWithNodeAffinityLabel
  <2> HIDE DEF accepted
  <2>8. ApplyOption(s, o).ok <=> NonEmpty(o.keys) # <<>> /\ isCompatibleWithNodeAffinityLabel(s)
    BY <2>1, <2>3, Zenon
  <2>9. ApplyOption(s, o).sc = writeOrAppendCASConfig(s, Writes(o))
    BY <2>1, <2>2, <2>4, Zenon
  <2> QED BY <2>5, <2>7, <2>8, <2>9, Zenon DEF accepted
<1>6. CASE o.opt = "WithFSType"
  <2>1. ApplyOption(s, o) = WithFSType(s, o.fs)
    BY <1>6 DEF ApplyOption
  <2>2. WithFSType(s, o.fs).sc = writeOrAppendCASConfig(s, <<Value("FSType", o.fs)>>)
    BY DEF WithFSType
  <2>3. WithFSType(s, o.fs).ok <=> isValidFilesystem(o.fs) /\ isCompatibleWithFSType(s)
    BY DEF WithFSType
  <2>4. Writes(o) = <<Value("FSType", o.fs)>>
    BY <1>6 DEF Writes
  <2>5. Alone(o) <=> isValidFilesystem(o.fs)
    BY <1>6 DEF Alone
  <2>6. accepted = {e \in Parameters(s) : IsType(e, {"device"}) \/ e.name = "BlockDeviceSelectors"}
    BY <1>6 DEF Accepts
  <2>7. isCompatibleWithFSType(s) <=> Compatible(s, accepted)
    BY <2>6 DEF isCompatibleWithFSType
  <2> HIDE DEF accepted
  <2>8. ApplyOption(s, o).ok <=> isValidFilesystem(o.fs) /\ isCompatibleWithFSType(s)
    BY <2>1, <2>3, Zenon
  <2>9. ApplyOption(s, o).sc = writeOrAppendCASConfig(s, Writes(o))
    BY <2>1, <2>2, <2>4, Zenon
  <2> QED BY <2>5, <2>7, <2>8, <2>9, Zenon DEF accepted
<1>7. CASE o.opt = "WithBlockDeviceSelectors"
  <2>1. ApplyOption(s, o) = WithBlockDeviceSelectors(s, o.sel)
    BY <1>7 DEF ApplyOption
  <2>2. WithBlockDeviceSelectors(s, o.sel).sc = writeOrAppendCASConfig(s, <<Data("BlockDeviceSelectors", Kept(o.sel))>>)
    BY DEF WithBlockDeviceSelectors, Kept
  <2>3. WithBlockDeviceSelectors(s, o.sel).ok <=> Kept(o.sel) # {} /\ isCompatibleWithBlockDeviceTag(s)
    BY DEF WithBlockDeviceSelectors, Kept
  <2>4. Writes(o) = <<Data("BlockDeviceSelectors", Kept(o.sel))>>
    BY <1>7 DEF Writes
  <2>5. Alone(o) <=> Kept(o.sel) # {}
    BY <1>7 DEF Alone
  <2>6. accepted = {e \in Parameters(s) : IsType(e, {"device"}) \/ e.name = "FSType"}
    BY <1>7 DEF Accepts
  <2>7. isCompatibleWithBlockDeviceTag(s) <=> Compatible(s, accepted)
    BY <2>6 DEF isCompatibleWithBlockDeviceTag
  <2> HIDE DEF accepted
  <2>8. ApplyOption(s, o).ok <=> Kept(o.sel) # {} /\ isCompatibleWithBlockDeviceTag(s)
    BY <2>1, <2>3, Zenon
  <2>9. ApplyOption(s, o).sc = writeOrAppendCASConfig(s, Writes(o))
    BY <2>1, <2>2, <2>4, Zenon
  <2> QED BY <2>5, <2>7, <2>8, <2>9, Zenon DEF accepted
<1> QED BY <1>1, <1>2, <1>3, <1>4, <1>5, <1>6, <1>7 DEF ParameterOption

\* An option that adds none; only WithLocalPV looks at the class.
LEMMA OtherOptionDoes ==
  ASSUME NEW s, NEW o, o.opt \in OptionNames \ ParameterOption,
         {"config", "casType", "provisioner"} \subseteq DOMAIN s
  PROVE  /\ DOMAIN ApplyOption(s, o).sc = DOMAIN s /\ ApplyOption(s, o).sc.config = s.config
         /\ o.opt # "WithLocalPV" =>
              /\ ApplyOption(s, o).ok <=> Alone(o)
              /\ ApplyOption(s, o).sc.casType = s.casType
              /\ ApplyOption(s, o).sc.provisioner = s.provisioner
         /\ o.opt = "WithLocalPV" =>
              /\ ApplyOption(s, o).ok <=> s.casType = "" /\ s.provisioner = ""
              /\ ApplyOption(s, o).sc.casType = "local"
              /\ ApplyOption(s, o).sc.provisioner = "openebs.io/local"
<1> DEFINE Same(t) == /\ DOMAIN t = DOMAIN s /\ t.config = s.config
                      /\ t.casType = s.casType /\ t.provisioner = s.provisioner
<1>1. CASE o.opt = "WithName"
  <2>1. ApplyOption(s, o) = WithName(s, o.arg)
    BY <1>1 DEF ApplyOption
  <2>2. Alone(o) <=> o.arg # ""
    BY <1>1 DEF Alone
  <2>3. WithName(s, o.arg).ok <=> o.arg # ""
    BY DEF WithName
  <2>4. Same(WithName(s, o.arg).sc)
    BY DEF WithName
  <2> HIDE DEF Same
  <2>5. (ApplyOption(s, o).ok <=> Alone(o)) /\ Same(ApplyOption(s, o).sc)
    BY <2>1, <2>2, <2>3, <2>4, Zenon
  <2> QED BY <1>1, <2>5, Zenon DEF Same
<1>2. CASE o.opt = "WithGenerateName"
  <2>1. ApplyOption(s, o) = WithGenerateName(s, o.arg)
    BY <1>2 DEF ApplyOption
  <2>2. Alone(o) <=> o.arg # ""
    BY <1>2 DEF Alone
  <2>3. WithGenerateName(s, o.arg).ok <=> o.arg # ""
    BY DEF WithGenerateName
  <2>4. Same(WithGenerateName(s, o.arg).sc)
    BY DEF WithGenerateName
  <2> HIDE DEF Same
  <2>5. (ApplyOption(s, o).ok <=> Alone(o)) /\ Same(ApplyOption(s, o).sc)
    BY <2>1, <2>2, <2>3, <2>4, Zenon
  <2> QED BY <1>2, <2>5, Zenon DEF Same
<1>3. CASE o.opt = "WithLabels"
  <2>1. ApplyOption(s, o) = WithLabels(s, o.map)
    BY <1>3 DEF ApplyOption
  <2>2. Alone(o) <=> o.map # <<>>
    BY <1>3 DEF Alone
  <2>3. WithLabels(s, o.map).ok <=> o.map # <<>>
    BY DEF WithLabels
  <2>4. Same(WithLabels(s, o.map).sc)
    BY DEF WithLabels
  <2> HIDE DEF Same
  <2>5. (ApplyOption(s, o).ok <=> Alone(o)) /\ Same(ApplyOption(s, o).sc)
    BY <2>1, <2>2, <2>3, <2>4, Zenon
  <2> QED BY <1>3, <2>5, Zenon DEF Same
<1>4. CASE o.opt = "WithParameters"
  <2>1. ApplyOption(s, o) = WithParameters(s, o.map)
    BY <1>4 DEF ApplyOption
  <2>2. Alone(o) <=> o.map # <<>>
    BY <1>4 DEF Alone
  <2>3. WithParameters(s, o.map).ok <=> o.map # <<>>
    BY DEF WithParameters
  <2>4. Same(WithParameters(s, o.map).sc)
    BY DEF WithParameters
  <2> HIDE DEF Same
  <2>5. (ApplyOption(s, o).ok <=> Alone(o)) /\ Same(ApplyOption(s, o).sc)
    BY <2>1, <2>2, <2>3, <2>4, Zenon
  <2> QED BY <1>4, <2>5, Zenon DEF Same
<1>5. CASE o.opt = "WithVolumeBindingMode"
  <2>1. ApplyOption(s, o) = WithVolumeBindingMode(s, o.arg)
    BY <1>5 DEF ApplyOption
  <2>2. Alone(o) <=> TRUE
    BY <1>5 DEF Alone
  <2>3. WithVolumeBindingMode(s, o.arg).ok <=> TRUE
    BY DEF WithVolumeBindingMode
  <2>4. Same(WithVolumeBindingMode(s, o.arg).sc)
    BY DEF WithVolumeBindingMode
  <2> HIDE DEF Same
  <2>5. (ApplyOption(s, o).ok <=> Alone(o)) /\ Same(ApplyOption(s, o).sc)
    BY <2>1, <2>2, <2>3, <2>4, Zenon
  <2> QED BY <1>5, <2>5, Zenon DEF Same
<1>6. CASE o.opt = "WithReclaimPolicy"
  <2>1. ApplyOption(s, o) = WithReclaimPolicy(s, o.arg)
    BY <1>6 DEF ApplyOption
  <2>2. Alone(o) <=> TRUE
    BY <1>6 DEF Alone
  <2>3. WithReclaimPolicy(s, o.arg).ok <=> TRUE
    BY DEF WithReclaimPolicy
  <2>4. Same(WithReclaimPolicy(s, o.arg).sc)
    BY DEF WithReclaimPolicy
  <2> HIDE DEF Same
  <2>5. (ApplyOption(s, o).ok <=> Alone(o)) /\ Same(ApplyOption(s, o).sc)
    BY <2>1, <2>2, <2>3, <2>4, Zenon
  <2> QED BY <1>6, <2>5, Zenon DEF Same
<1>7. CASE o.opt = "WithAllowedTopologies"
  <2>1. ApplyOption(s, o) = WithAllowedTopologies(s, o.map)
    BY <1>7 DEF ApplyOption
  <2>2. Alone(o) <=> o.map # <<>>
    BY <1>7 DEF Alone
  <2>3. WithAllowedTopologies(s, o.map).ok <=> o.map # <<>>
    BY DEF WithAllowedTopologies
  <2>4. Same(WithAllowedTopologies(s, o.map).sc)
    BY DEF WithAllowedTopologies
  <2> HIDE DEF Same
  <2>5. (ApplyOption(s, o).ok <=> Alone(o)) /\ Same(ApplyOption(s, o).sc)
    BY <2>1, <2>2, <2>3, <2>4, Zenon
  <2> QED BY <1>7, <2>5, Zenon DEF Same
<1>8. CASE o.opt = "WithLocalPV"
  <2>1. ApplyOption(s, o) = WithLocalPV(s)
    BY <1>8 DEF ApplyOption
  <2>2. WithLocalPV(s).ok <=> s.casType = "" /\ s.provisioner = ""
    BY DEF WithLocalPV
  <2>3. WithLocalPV(s).sc.casType = "local" /\ WithLocalPV(s).sc.provisioner = "openebs.io/local"
    BY DEF WithLocalPV
  <2>4. DOMAIN WithLocalPV(s).sc = DOMAIN s /\ WithLocalPV(s).sc.config = s.config
    BY DEF WithLocalPV
  <2> QED BY <1>8, <2>1, <2>2, <2>3, <2>4, Zenon
<1> QED BY <1>1, <1>2, <1>3, <1>4, <1>5, <1>6, <1>7, <1>8 DEF OptionNames, ParameterOption

-------------------------------------------------------------------------------
\* What an option writes.
LEMMA WrittenBy ==
  ASSUME NEW o, o.opt \in ParameterOption
  PROVE  /\ o.opt = "WithHostpath" =>
              Written(o) = {Value("StorageType", "hostpath"), BasePath(o.path)}
         /\ o.opt = "WithDevice" => Written(o) = {Value("StorageType", "device")}
         /\ o.opt = "WithXfsQuota" => Written(o) = {Quota("XFSQuota", QuotaData(o.soft, o.hard))}
         /\ o.opt = "WithExt4Quota" => Written(o) = {Quota("EXT4Quota", QuotaData(o.soft, o.hard))}
         /\ o.opt = "WithNodeAffinityLabels" =>
              Written(o) = {List("NodeAffinityLabels", NonEmpty(o.keys))}
         /\ o.opt = "WithFSType" => Written(o) = {Value("FSType", o.fs)}
         /\ o.opt = "WithBlockDeviceSelectors" =>
              Written(o) = {Data("BlockDeviceSelectors", Kept(o.sel))}
<1>1. ASSUME NEW e, Writes(o) = <<e>> PROVE Written(o) = {e}
  BY <1>1 DEF Written
<1>2. ASSUME o.opt = "WithHostpath"
      PROVE  Written(o) = {Value("StorageType", "hostpath"), BasePath(o.path)}
  <2>1. PICK a, b : a = Value("StorageType", "hostpath") /\ b = BasePath(o.path)
    OBVIOUS
  <2>2. Writes(o) = <<a, b>>
    BY <1>2, <2>1 DEF Writes
  <2>3. Written(o) = {a, b}
    BY <2>2 DEF Written
  <2> QED BY <2>1, <2>3
<1>3. o.opt = "WithDevice" => Writes(o) = <<Value("StorageType", "device")>>
  BY DEF Writes
<1>4. o.opt = "WithXfsQuota" => Writes(o) = <<Quota("XFSQuota", QuotaData(o.soft, o.hard))>>
  BY DEF Writes
<1>5. o.opt = "WithExt4Quota" => Writes(o) = <<Quota("EXT4Quota", QuotaData(o.soft, o.hard))>>
  BY DEF Writes
<1>6. o.opt = "WithNodeAffinityLabels" =>
        Writes(o) = <<List("NodeAffinityLabels", NonEmpty(o.keys))>>
  BY DEF Writes
<1>7. o.opt = "WithFSType" => Writes(o) = <<Value("FSType", o.fs)>>
  BY DEF Writes
<1>8. o.opt = "WithBlockDeviceSelectors" => Writes(o) = <<Data("BlockDeviceSelectors", Kept(o.sel))>>
  BY DEF Writes
<1> QED BY <1>1, <1>2, <1>3, <1>4, <1>5, <1>6, <1>7, <1>8

\* The options of directories and of devices.
HostpathOptions == {"WithHostpath", "WithXfsQuota", "WithExt4Quota"}
DeviceOptions == {"WithDevice", "WithFSType", "WithBlockDeviceSelectors"}

\* Two options that cannot both be in a class, whichever comes first.
Exclude(o, p) ==
  \/ o.opt = p.opt /\ o.opt \in HostpathOptions \cup DeviceOptions \cup {"WithLocalPV"}
  \/ o.opt \in HostpathOptions /\ p.opt \in DeviceOptions
  \/ o.opt \in DeviceOptions /\ p.opt \in HostpathOptions
  \/ o.opt = "WithXfsQuota" /\ p.opt = "WithExt4Quota"
  \/ o.opt = "WithExt4Quota" /\ p.opt = "WithXfsQuota"

LEMMA ExcludeSymmetric ==
  ASSUME NEW o, NEW p
  PROVE  Exclude(o, p) <=> Exclude(p, o)
BY DEF Exclude

\* Which parameter an option accepts, by its name.
LEMMA AcceptsIs ==
  ASSUME NEW o, NEW e
  PROVE  /\ o.opt = "WithHostpath" =>
              (Accepts(o, e) <=> e.name = "NodeAffinityLabel" \/ IsQuota(e))
         /\ o.opt = "WithDevice" => (Accepts(o, e) <=> e.name \in {"BlockDeviceSelectors", "FSType"})
         /\ o.opt \in {"WithXfsQuota", "WithExt4Quota"} =>
              (Accepts(o, e) <=> IsType(e, {"hostpath"}) \/ IsBasePath(e) \/ e.name = "NodeAffinityLabel")
         /\ o.opt = "WithNodeAffinityLabels" =>
              (Accepts(o, e) <=> IsType(e, {"hostpath", "device"}) \/ IsBasePath(e) \/ IsQuota(e))
         /\ o.opt = "WithFSType" =>
              (Accepts(o, e) <=> IsType(e, {"device"}) \/ e.name = "BlockDeviceSelectors")
         /\ o.opt = "WithBlockDeviceSelectors" =>
              (Accepts(o, e) <=> IsType(e, {"device"}) \/ e.name = "FSType")
BY DEF Accepts

\* An option accepts what another writes exactly if the two do not exclude
\* each other.
LEMMA AcceptedIff ==
  ASSUME NEW o, o.opt \in HostpathOptions \cup DeviceOptions,
         NEW p, p.opt \in HostpathOptions \cup DeviceOptions, Alone(p)
  PROVE  (\A e \in Written(p) : Accepts(o, e)) <=> ~Exclude(p, o)
<1>1. CASE p.opt = "WithHostpath"
  <2>1. PICK a, b : Written(p) = {a, b} /\ a.name = "StorageType" /\ a.value = "hostpath"
                    /\ b.name = "BasePath" /\ b.path = p.path
    BY <1>1, WrittenBy, EntryNames DEF ParameterOption
  <2>2. isValidPath(b.path)
    BY <1>1, <2>1 DEF Alone
  <2>3. IsType(a, {"hostpath"}) /\ IsBasePath(b) /\ ~IsQuota(a)
    BY <2>1, <2>2 DEF IsType, IsBasePath, IsQuota
  <2>4. ~IsType(a, {"device"})
    BY <2>1 DEF IsType
  <2> QED BY <1>1, <2>1, <2>3, <2>4, AcceptsIs DEF Exclude, HostpathOptions, DeviceOptions
<1>2. CASE p.opt = "WithDevice"
  <2>1. PICK a : Written(p) = {a} /\ a.name = "StorageType" /\ a.value = "device"
    BY <1>2, WrittenBy, EntryNames DEF ParameterOption
  <2>2. IsType(a, {"device"}) /\ ~IsType(a, {"hostpath"}) /\ ~IsQuota(a) /\ ~IsBasePath(a)
    BY <2>1 DEF IsType, IsQuota, IsBasePath
  <2> QED BY <1>2, <2>1, <2>2, AcceptsIs DEF Exclude, HostpathOptions, DeviceOptions
<1>3. CASE p.opt \in {"WithXfsQuota", "WithExt4Quota"}
  <2>1. PICK a : Written(p) = {a} /\ a.name \in {"XFSQuota", "EXT4Quota"}
                 /\ a.data = QuotaData(p.soft, p.hard)
    BY <1>3, WrittenBy, EntryNames DEF ParameterOption
  <2>2. isValidQuotaData(a.data)
    BY <1>3, <2>1 DEF Alone
  <2>3. IsQuota(a) /\ ~IsType(a, {"device"}) /\ ~IsType(a, {"hostpath"}) /\ ~IsBasePath(a)
    BY <2>1, <2>2 DEF IsType, IsQuota, IsBasePath
  <2> QED BY <1>3, <2>1, <2>3, AcceptsIs DEF Exclude, HostpathOptions, DeviceOptions
<1>4. CASE p.opt = "WithFSType"
  <2>1. PICK a : Written(p) = {a} /\ a.name = "FSType"
    BY <1>4, WrittenBy, EntryNames DEF ParameterOption
  <2>2. ~IsType(a, {"device"}) /\ ~IsType(a, {"hostpath"}) /\ ~IsQuota(a) /\ ~IsBasePath(a)
    BY <2>1 DEF IsType, IsQuota, IsBasePath
  <2> QED BY <1>4, <2>1, <2>2, AcceptsIs DEF Exclude, HostpathOptions, DeviceOptions
<1>5. CASE p.opt = "WithBlockDeviceSelectors"
  <2>1. PICK a : Written(p) = {a} /\ a.name = "BlockDeviceSelectors"
    BY <1>5, WrittenBy, EntryNames DEF ParameterOption
  <2>2. ~IsType(a, {"device"}) /\ ~IsType(a, {"hostpath"}) /\ ~IsQuota(a) /\ ~IsBasePath(a)
    BY <2>1 DEF IsType, IsQuota, IsBasePath
  <2> QED BY <1>5, <2>1, <2>2, AcceptsIs DEF Exclude, HostpathOptions, DeviceOptions
<1> QED BY <1>1, <1>2, <1>3, <1>4, <1>5 DEF HostpathOptions, DeviceOptions

\* What an option writes has other names than what it accepts.
LEMMA NamesAreNew ==
  ASSUME NEW o, o.opt \in ParameterOption, NEW e, Accepts(o, e), NEW w \in Written(o)
  PROVE  w.name # e.name
<1>1. CASE o.opt = "WithHostpath"
  <2>1. w.name \in {"StorageType", "BasePath"}
    BY <1>1, WrittenBy, EntryNames
  <2> QED BY <1>1, <2>1, AcceptsIs DEF IsQuota
<1>2. CASE o.opt = "WithDevice"
  <2>1. w.name = "StorageType"
    BY <1>2, WrittenBy, EntryNames
  <2> QED BY <1>2, <2>1, AcceptsIs
<1>3. CASE o.opt \in {"WithXfsQuota", "WithExt4Quota"}
  <2>1. w.name \in {"XFSQuota", "EXT4Quota"}
    BY <1>3, WrittenBy, EntryNames
  <2> QED BY <1>3, <2>1, AcceptsIs DEF IsType, IsBasePath
<1>4. CASE o.opt = "WithNodeAffinityLabels"
  <2>1. w.name = "NodeAffinityLabels"
    BY <1>4, WrittenBy, EntryNames
  <2> QED BY <1>4, <2>1, AcceptsIs DEF IsType, IsBasePath, IsQuota
<1>5. CASE o.opt = "WithFSType"
  <2>1. w.name = "FSType"
    BY <1>5, WrittenBy, EntryNames
  <2> QED BY <1>5, <2>1, AcceptsIs DEF IsType
<1>6. CASE o.opt = "WithBlockDeviceSelectors"
  <2>1. w.name = "BlockDeviceSelectors"
    BY <1>6, WrittenBy, EntryNames
  <2> QED BY <1>6, <2>1, AcceptsIs DEF IsType
<1> QED BY <1>1, <1>2, <1>3, <1>4, <1>5, <1>6 DEF ParameterOption

-------------------------------------------------------------------------------
\* The class that a set of options builds: it has their parameters, one of each
\* name, and it is a class of this provisioner once WithLocalPV is among them.
Distinct(c) == \A i, j \in DOMAIN c : c[i].name = c[j].name => i = j

Shaped(s) ==
  /\ {"config", "casType", "provisioner"} \subseteq DOMAIN s
  /\ s.config \in Seq(Parameters(s)) /\ Distinct(s.config)

LocalFields(s, b) ==
  /\ s.casType = IF b THEN "local" ELSE ""
  /\ s.provisioner = IF b THEN "openebs.io/local" ELSE ""

HasLocal(S) == \E o \in S : o.opt = "WithLocalPV"

BuiltBy(s, S) ==
  /\ Shaped(s)
  /\ Parameters(s) = UNION {Written(o) : o \in S}
  /\ LocalFields(s, HasLocal(S))

LEMMA WritesType ==
  ASSUME NEW o, o.opt \in OptionNames
  PROVE  /\ Writes(o) \in Seq(Written(o)) /\ Distinct(Writes(o))
         /\ o.opt \notin ParameterOption => Written(o) = {}
<1>1. ASSUME NEW e, Writes(o) = <<e>> PROVE Writes(o) \in Seq(Written(o)) /\ Distinct(Writes(o))
  BY <1>1 DEF Written, Distinct
<1>2. CASE o.opt = "WithHostpath"
  <2>1. PICK a, b : a = Value("StorageType", "hostpath") /\ b = BasePath(o.path)
    OBVIOUS
  <2>2. Writes(o) = <<a, b>> /\ a.name # b.name
    <3>1. Writes(o) = <<a, b>>
      BY <1>2, <2>1 DEF Writes
    <3>2. a.name = "StorageType" /\ b.name = "BasePath"
      BY <2>1, EntryNames
    <3> QED BY <3>1, <3>2
  <2>3. Writes(o) \in Seq(Written(o)) /\ Distinct(Writes(o))
    BY <2>2 DEF Written, Distinct
  <2> QED BY <1>2, <2>3 DEF ParameterOption
<1>3. CASE o.opt \in ParameterOption \ {"WithHostpath"}
  <2>1. \E e : Writes(o) = <<e>>
    BY <1>3 DEF Writes, ParameterOption
  <2> QED BY <1>1, <1>3, <2>1
<1>4. CASE o.opt \notin ParameterOption
  <2>1. Writes(o) = <<>>
    BY <1>4 DEF Writes, ParameterOption
  <2>2. Written(o) = {}
    BY <2>1 DEF Written
  <2> QED BY <2>1, <2>2 DEF Distinct
<1> QED BY <1>2, <1>3, <1>4

EntrySet(c) == {c[i] : i \in DOMAIN c}

\* Entries that are appended.
LEMMA Appended ==
  ASSUME NEW c, NEW d, c \in Seq(EntrySet(c)), d \in Seq(EntrySet(d)), Distinct(c), Distinct(d),
         \A e \in EntrySet(c), w \in EntrySet(d) : w.name # e.name
  PROVE  /\ c \o d \in Seq(EntrySet(c) \cup EntrySet(d))
         /\ EntrySet(c \o d) = EntrySet(c) \cup EntrySet(d)
         /\ Distinct(c \o d)
<1>0. PICK P, W : P = EntrySet(c) /\ W = EntrySet(d)
  OBVIOUS
<1>1. PICK m \in Nat, n \in Nat : /\ m = Len(c) /\ n = Len(d)
                                 /\ DOMAIN c = 1 .. m /\ DOMAIN d = 1 .. n
  OBVIOUS
<1>2. PICK t : t = c \o d
  OBVIOUS
<1>3. t \in Seq(P \cup W) /\ DOMAIN t = 1 .. m + n
  BY <1>0, <1>1, <1>2
<1>4. \A i \in 1 .. m : t[i] = c[i] /\ c[i] \in P
  BY <1>0, <1>1, <1>2
<1>5. \A i \in 1 .. n : t[m + i] = d[i] /\ d[i] \in W
  BY <1>0, <1>1, <1>2
<1>6. \A i \in 1 .. m + n : i \in 1 .. m \/ \E k \in 1 .. n : i = m + k
  <2> TAKE i \in 1 .. m + n
  <2>1. i \in 1 .. m \/ (i - m \in 1 .. n /\ i = m + (i - m))
    OBVIOUS
  <2> QED BY <2>1
<1>7. (\A k \in 1 .. n : m + k \in 1 .. m + n) /\ \A k \in 1 .. m : k \in 1 .. m + n
  OBVIOUS
<1>8. EntrySet(t) = P \cup W
  <2>1. ASSUME NEW e \in P PROVE \E i \in DOMAIN t : t[i] = e
    <3>1. PICK i \in 1 .. m : c[i] = e
      BY <1>0, <1>1 DEF EntrySet
    <3> QED BY <1>3, <1>4, <1>7, <3>1
  <2>2. ASSUME NEW e \in W PROVE \E i \in DOMAIN t : t[i] = e
    <3>1. PICK i \in 1 .. n : d[i] = e
      BY <1>0, <1>1 DEF EntrySet
    <3>2. m + i \in DOMAIN t /\ t[m + i] = e
      BY <1>3, <1>5, <1>7, <3>1
    <3> QED BY <3>2
  <2>3. ASSUME NEW i \in DOMAIN t PROVE t[i] \in P \cup W
    BY <1>3
  <2>4. \A e : e \in EntrySet(t) <=> e \in P \cup W
    BY <2>1, <2>2, <2>3 DEF EntrySet
  <2> QED BY <2>4
<1>9. Distinct(t)
  <2> SUFFICES ASSUME NEW i \in 1 .. m + n, NEW j \in 1 .. m + n, t[i].name = t[j].name
               PROVE  i = j
    BY <1>3 DEF Distinct
  <2>1. CASE i \in 1 .. m /\ j \in 1 .. m
    BY <1>1, <1>4, <2>1 DEF Distinct
  <2>2. \A e \in P, w \in W : w.name # e.name
    BY <1>0
  <2>3. ASSUME NEW k \in 1 .. n, i \in 1 .. m, j = m + k PROVE FALSE
    <3>1. t[i] \in P /\ t[j] \in W
      BY <1>4, <1>5, <2>3
    <3> QED BY <2>2, <3>1
  <2>4. ASSUME NEW k \in 1 .. n, j \in 1 .. m, i = m + k PROVE FALSE
    <3>1. t[j] \in P /\ t[i] \in W
      BY <1>4, <1>5, <2>4
    <3> QED BY <2>2, <3>1
  <2>5. ASSUME NEW k \in 1 .. n, NEW l \in 1 .. n, i = m + k, j = m + l PROVE i = j
    <3>1. d[k].name = d[l].name
      BY <1>5, <2>5
    <3> QED BY <1>1, <2>5, <3>1 DEF Distinct
  <2> QED BY <1>6, <2>1, <2>3, <2>4, <2>5
<1> QED BY <1>0, <1>2, <1>3, <1>8, <1>9

\* An option that is accepted builds on what is there.
LEMMA OptionBuilds ==
  ASSUME NEW s, NEW S, BuiltBy(s, S), NEW o, o.opt \in OptionNames, ApplyOption(s, o).ok
  PROVE  BuiltBy(ApplyOption(s, o).sc, S \cup {o}) /\ Alone(o)
<1> DEFINE t == ApplyOption(s, o).sc
<1>0. {"config", "casType", "provisioner"} \subseteq DOMAIN s
  BY DEF BuiltBy, Shaped
<1>1. UNION {Written(p) : p \in S \cup {o}} = Parameters(s) \cup Written(o)
  BY DEF BuiltBy
<1>2. CASE o.opt \in ParameterOption
  <2>1. t = writeOrAppendCASConfig(s, Writes(o)) /\ Alone(o)
    BY <1>2, ParameterOptionDoes
  <2>2. \A e \in Parameters(s) : Accepts(o, e)
    BY <1>2, ParameterOptionDoes, CompatibleIff
  <2>3. \A e \in Parameters(s), w \in Written(o) : w.name # e.name
    BY <1>2, <2>2, NamesAreNew
  <2> HIDE DEF t
  <2>4. /\ DOMAIN t = DOMAIN s /\ t.config = s.config \o Writes(o)
        /\ t.casType = s.casType /\ t.provisioner = s.provisioner
    BY <1>0, <2>1 DEF writeOrAppendCASConfig
  <2>5. PICK c, d : c = s.config /\ d = Writes(o)
    OBVIOUS
  <2>6. Parameters(s) = EntrySet(c) /\ Written(o) = EntrySet(d)
    BY <2>5 DEF Parameters, Written, EntrySet
  <2>7. c \in Seq(EntrySet(c)) /\ Distinct(c) /\ d \in Seq(EntrySet(d)) /\ Distinct(d)
    BY <2>5, <2>6, WritesType DEF BuiltBy, Shaped
  <2>8. /\ c \o d \in Seq(EntrySet(c) \cup EntrySet(d)) /\ Distinct(c \o d)
        /\ EntrySet(c \o d) = EntrySet(c) \cup EntrySet(d)
    <3>1. \A e \in EntrySet(c), w \in EntrySet(d) : w.name # e.name
      BY <2>3, <2>6
    <3> QED BY <2>7, <3>1, Appended, Zenon
  <2>9. Parameters(t) = EntrySet(c \o d) /\ EntrySet(c \o d) = Parameters(s) \cup Written(o)
    <3>1. Parameters(t) = EntrySet(t.config)
      BY DEF Parameters, EntrySet
    <3> QED BY <2>4, <2>5, <2>6, <2>8, <3>1, Zenon
  <2>10. Shaped(t)
    BY <1>0, <2>4, <2>5, <2>6, <2>8, <2>9 DEF Shaped
  <2>11. LocalFields(t, HasLocal(S \cup {o}))
    <3>1. HasLocal(S \cup {o}) <=> HasLocal(S)
      BY <1>2 DEF HasLocal, ParameterOption
    <3>2. LocalFields(t, HasLocal(S))
      BY <2>4 DEF BuiltBy, LocalFields
    <3> QED BY <3>1, <3>2, Zenon DEF LocalFields
  <2> QED BY <1>1, <2>1, <2>9, <2>10, <2>11 DEF BuiltBy, t
<1>3. CASE o.opt \notin ParameterOption
  <2>1. DOMAIN t = DOMAIN s /\ t.config = s.config
    BY <1>0, <1>3, OtherOptionDoes
  <2>2. Alone(o)
    <3>1. o.opt = "WithLocalPV" => Alone(o)
      BY DEF Alone
    <3> QED BY <1>0, <1>3, <3>1, OtherOptionDoes
  <2>3. LocalFields(t, HasLocal(S \cup {o}))
    <3>1. CASE o.opt = "WithLocalPV"
      <4>1. HasLocal(S \cup {o})
        BY <3>1 DEF HasLocal
      <4>2. t.casType = "local" /\ t.provisioner = "openebs.io/local"
        BY <1>0, <1>3, <3>1, OtherOptionDoes
      <4> QED BY <4>1, <4>2 DEF LocalFields
    <3>2. CASE o.opt # "WithLocalPV"
      <4>1. HasLocal(S \cup {o}) <=> HasLocal(S)
        BY <3>2 DEF HasLocal
      <4>2. t.casType = s.casType /\ t.provisioner = s.provisioner
        BY <1>0, <1>3, <3>2, OtherOptionDoes
      <4>3. LocalFields(s, HasLocal(S))
        BY DEF BuiltBy
      <4> QED BY <4>1, <4>2, <4>3, Zenon DEF LocalFields
    <3> QED BY <3>1, <3>2
  <2>4. Written(o) = {}
    BY <1>3, WritesType
  <2> HIDE DEF t
  <2>5. Parameters(t) = Parameters(s)
    BY <2>1 DEF Parameters
  <2>6. Shaped(t)
    BY <2>1, <2>5 DEF BuiltBy, Shaped
  <2> QED BY <1>1, <2>2, <2>3, <2>4, <2>5, <2>6 DEF BuiltBy, t
<1> QED BY <1>2, <1>3

\* Of the other options, one is accepted exactly if its arguments are right and
\* nothing that is there excludes it.
LEMMA AppliesIff ==
  ASSUME NEW s, NEW S, BuiltBy(s, S),
         \A p \in S : p.opt \in OptionNames \ {"WithNodeAffinityLabels"} /\ Alone(p),
         NEW o, o.opt \in OptionNames \ {"WithNodeAffinityLabels"}
  PROVE  ApplyOption(s, o).ok <=> Alone(o) /\ \A p \in S : ~Exclude(p, o)
<1>0. {"config", "casType", "provisioner"} \subseteq DOMAIN s
  BY DEF BuiltBy, Shaped
<1>1. LocalFields(s, HasLocal(S))
  BY DEF BuiltBy
<1>2. CASE o.opt \in ParameterOption
  <2>1. o.opt \in HostpathOptions \cup DeviceOptions
    BY <1>2 DEF ParameterOption, HostpathOptions, DeviceOptions
  <2>2. ApplyOption(s, o).ok <=>
          Alone(o) /\ Compatible(s, {e \in Parameters(s) : Accepts(o, e)})
    BY <1>2, ParameterOptionDoes
  <2>3. isCompatibleWithLocalPVcasType(s) /\ s.provisioner \in {"", "openebs.io/local"}
    BY <1>1 DEF LocalFields, isCompatibleWithLocalPVcasType
  <2>4. Compatible(s, {e \in Parameters(s) : Accepts(o, e)}) <=> \A e \in Parameters(s) : Accepts(o, e)
    BY <2>3, CompatibleIff
  <2>5. (\A e \in Parameters(s) : Accepts(o, e)) <=> \A p \in S : \A e \in Written(p) : Accepts(o, e)
    BY DEF BuiltBy
  <2>6. ASSUME NEW p \in S PROVE (\A e \in Written(p) : Accepts(o, e)) <=> ~Exclude(p, o)
    <3>1. CASE p.opt \in ParameterOption
      <4>1. p.opt \in HostpathOptions \cup DeviceOptions
        BY <3>1 DEF ParameterOption, HostpathOptions, DeviceOptions
      <4> QED BY <2>1, <4>1, AcceptedIff
    <3>2. CASE p.opt \notin ParameterOption
      <4>1. Written(p) = {}
        BY <3>2, WritesType
      <4>2. ~Exclude(p, o)
        BY <2>1, <3>2 DEF Exclude, ParameterOption, HostpathOptions, DeviceOptions
      <4> QED BY <4>1, <4>2
    <3> QED BY <3>1, <3>2
  <2> QED BY <2>2, <2>4, <2>5, <2>6
<1>3. CASE o.opt = "WithLocalPV"
  <2>1. ApplyOption(s, o).ok <=> s.casType = "" /\ s.provisioner = ""
    BY <1>0, <1>3, OtherOptionDoes DEF ParameterOption
  <2>2. s.casType = "" /\ s.provisioner = "" <=> ~HasLocal(S)
    BY <1>1 DEF LocalFields
  <2>3. \A p \in S : Exclude(p, o) <=> p.opt = "WithLocalPV"
    BY <1>3 DEF Exclude, HostpathOptions, DeviceOptions
  <2>4. Alone(o)
    BY <1>3 DEF Alone
  <2> QED BY <2>1, <2>2, <2>3, <2>4 DEF HasLocal
<1>4. CASE o.opt \notin ParameterOption \cup {"WithLocalPV"}
  <2>1. ApplyOption(s, o).ok <=> Alone(o)
    BY <1>0, <1>4, OtherOptionDoes
  <2>2. \A p \in S : ~Exclude(p, o)
    BY <1>4 DEF Exclude, HostpathOptions, DeviceOptions, ParameterOption
  <2> QED BY <2>1, <2>2
<1> QED BY <1>2, <1>3, <1>4

-------------------------------------------------------------------------------
\* What the provisioner reads.

\* The entry of a name that only one entry has.
LEMMA ReadEntry ==
  ASSUME NEW X, NEW c \in Seq(X), Distinct(c), NEW i \in DOMAIN c
  PROVE  /\ Option(c, c[i].name) = c[i]
         /\ getData(c, c[i].name) = c[i].data
         /\ getList(c, c[i].name) = c[i].list
<1>1. i \in Int /\ Max({i}) = i
  <2>1. i \in Int
    OBVIOUS
  <2> QED BY <2>1 DEF Max
<1>2. {j \in DOMAIN c : c[j].name = c[i].name} = {i}
  BY DEF Distinct
<1>3. Option(c, c[i].name) = c[i]
  BY <1>1, <1>2 DEF Option, LastOf
<1>4. NoEntry.data = {} /\ NoEntry.list = <<>>
  BY DEF NoEntry
<1>5. getData(c, c[i].name) = c[i].data
  <2>1. PICK T : T = {j \in DOMAIN c : c[j].name = c[i].name /\ c[j].data # {}}
    OBVIOUS
  <2>2. T = IF c[i].data # {} THEN {i} ELSE {}
    BY <1>2, <2>1
  <2>3. getData(c, c[i].name) = LastOf(c, T).data
    BY <2>1 DEF getData
  <2>4. CASE c[i].data # {}
    <3>1. LastOf(c, T) = c[i]
      BY <1>1, <2>2, <2>4 DEF LastOf
    <3> QED BY <2>3, <3>1
  <2>5. CASE c[i].data = {}
    <3>1. LastOf(c, T) = NoEntry
      BY <2>2, <2>5 DEF LastOf
    <3> QED BY <1>4, <2>3, <2>5, <3>1
  <2> QED BY <2>4, <2>5
<1>6. getList(c, c[i].name) = c[i].list
  <2>1. PICK T : T = {j \in DOMAIN c : c[j].name = c[i].name /\ c[j].list # <<>>}
    OBVIOUS
  <2>2. T = IF c[i].list # <<>> THEN {i} ELSE {}
    BY <1>2, <2>1
  <2>3. getList(c, c[i].name) = LastOf(c, T).list
    BY <2>1 DEF getList
  <2>4. CASE c[i].list # <<>>
    <3>1. LastOf(c, T) = c[i]
      BY <1>1, <2>2, <2>4 DEF LastOf
    <3> QED BY <2>3, <3>1
  <2>5. CASE c[i].list = <<>>
    <3>1. LastOf(c, T) = NoEntry
      BY <2>2, <2>5 DEF LastOf
    <3> QED BY <1>4, <2>3, <2>5, <3>1
  <2> QED BY <2>4, <2>5
<1> QED BY <1>3, <1>5, <1>6

\* The default joins a class that does not name a base path of its own.
LEMMA MergedEntry ==
  ASSUME NEW s, Shaped(s), NEW e \in Parameters(s)
  PROVE  LET c == MergeConfig(s.config, defaultConfig)
         IN /\ Option(c, e.name) = e /\ getData(c, e.name) = e.data /\ getList(c, e.name) = e.list
<1>1. PICK c, h : c = MergeConfig(s.config, defaultConfig) /\ h = s.config
  OBVIOUS
<1>2. h \in Seq(Parameters(s)) /\ Distinct(h) /\ Parameters(s) = EntrySet(h)
  BY <1>1 DEF Shaped, Parameters, EntrySet
<1>3. PICK i \in DOMAIN h : h[i] = e
  BY <1>2 DEF EntrySet
<1>4. PICK d : d = defaultConfig /\ d.name = "BasePath"
  BY EntryNames DEF defaultConfig
<1>5. CASE \E j \in DOMAIN h : h[j].name = d.name
  <2>1. c = h
    BY <1>1, <1>4, <1>5 DEF MergeConfig
  <2> QED BY <1>1, <1>2, <1>3, <2>1, ReadEntry
<1>6. CASE ~\E j \in DOMAIN h : h[j].name = d.name
  <2>1. c = Append(h, d)
    BY <1>1, <1>4, <1>6 DEF MergeConfig
  <2>2. PICK n \in Nat : n = Len(h) /\ DOMAIN h = 1 .. n
    BY <1>2
  <2>3. /\ c \in Seq(Parameters(s) \cup {d}) /\ DOMAIN c = 1 .. n + 1 /\ c[n + 1] = d
        /\ \A j \in 1 .. n : c[j] = h[j]
    BY <1>2, <2>1, <2>2
  <2>4. Distinct(c)
    <3> SUFFICES ASSUME NEW j \in 1 .. n + 1, NEW k \in 1 .. n + 1, c[j].name = c[k].name
                 PROVE  j = k
      BY <2>3 DEF Distinct
    <3>1. CASE j \in 1 .. n /\ k \in 1 .. n
      BY <1>2, <2>2, <2>3, <3>1 DEF Distinct
    <3>2. CASE j = n + 1 /\ k \in 1 .. n
      BY <1>6, <2>2, <2>3, <3>2
    <3>3. CASE j \in 1 .. n /\ k = n + 1
      BY <1>6, <2>2, <2>3, <3>3
    <3> QED BY <3>1, <3>2, <3>3
  <2>5. i \in DOMAIN c /\ c[i] = e
    BY <1>3, <2>2, <2>3
  <2> QED BY <1>1, <2>3, <2>4, <2>5, ReadEntry
<1> QED BY <1>5, <1>6

\* A valid path has a name in it.
LEMMA ValidPathHasName ==
  ASSUME NEW p \in Seq(STRING), isValidPath(p)
  PROVE  \E i \in DOMAIN p : p[i] # "/"
<1>1. PICK path : path = TrimSlash(p)
  OBVIOUS
<1>2. path \in Seq(STRING) /\ Len(path) <= Len(p) /\ \A i \in 1 .. Len(path) : path[i] = p[i]
  <2>1. CASE path = p
    BY <2>1
  <2>2. CASE path # p
    <3>1. path = SubSeq(p, 1, Len(p) - 1) /\ p # <<>>
      BY <1>1, <2>2 DEF TrimSlash, Front
    <3>2. PICK m \in Nat : m = Len(p) - 1 /\ m <= Len(p)
      BY <3>1
    <3> QED BY <3>1, <3>2
  <2> QED BY <2>1, <2>2
<1>3. PICK n \in Nat : n = Len(path) /\ n <= Len(p) /\ DOMAIN path = 1 .. n
  BY <1>2
<1> DEFINE slash == {i \in DOMAIN path : path[i] = "/"}
           cut == IF slash = {} THEN 0 ELSE CHOOSE i \in slash : \A j \in slash : j <= i
<1>4. SubSeq(path, cut + 1, Len(path)) # <<>>
  BY <1>1 DEF isValidPath
<1>5. CASE n \in slash
  <2>1. \A j \in slash : j <= n
    BY <1>3
  <2>2. cut \in slash /\ \A j \in slash : j <= cut
    BY <1>5, <2>1
  <2>3. cut = n
    <3> HIDE DEF cut
    <3> QED BY <1>3, <1>5, <2>1, <2>2
  <2>4. SubSeq(path, n + 1, n) = <<>>
    BY <1>2, <1>3
  <2> QED BY <1>3, <1>4, <2>3, <2>4
<1>6. CASE n \notin slash /\ n # 0
  <2>1. n \in DOMAIN path /\ path[n] # "/" /\ n \in DOMAIN p
    BY <1>3, <1>6
  <2> QED BY <1>2, <1>3, <2>1
<1>7. CASE n = 0
  <2>1. slash = {} /\ path = <<>>
    BY <1>2, <1>3, <1>7
  <2>2. cut = 0
    BY <2>1
  <2>3. SubSeq(path, 1, 0) = <<>>
    BY <2>1
  <2> QED BY <1>3, <1>4, <1>7, <2>2, <2>3
<1> QED BY <1>5, <1>6, <1>7

\* A set of numbers that is not empty has a least one.
LEMMA LeastNumber ==
  ASSUME NEW T, T \subseteq Nat, T # {}
  PROVE  \E n \in T : \A m \in T : n <= m
<1>1. PICK n \in T : \A m \in T : ~(<<m, n>> \in OpToRel(<, Nat))
  BY NatLessThanWellFounded, WFMin
<1>2. \A m \in T : ~(m < n)
  BY <1>1 DEF OpToRel
<1> QED BY <1>2

\* f collects the names among the first n parts of a path.
NamesUpTo(f, p, n) ==
  /\ f \in [0 .. n -> Seq(STRING)]
  /\ \A k \in 0 .. n : f[k] = IF k = 0 THEN <<>>
                              ELSE IF p[k] = "/" THEN f[k - 1] ELSE Append(f[k - 1], p[k])

LEMMA NamesExist ==
  ASSUME NEW p \in Seq(STRING)
  PROVE  \A n \in 0 .. Len(p) : \E f : NamesUpTo(f, p, n)
<1> DEFINE T == {n \in 0 .. Len(p) : ~\E f : NamesUpTo(f, p, n)}
<1> SUFFICES ASSUME T # {} PROVE FALSE
  OBVIOUS
<1>1. PICK n \in T : \A m \in T : n <= m
  <2>1. T \subseteq Nat
    OBVIOUS
  <2> HIDE DEF T
  <2> QED BY <2>1, LeastNumber
<1>2. CASE n = 0
  <2>1. NamesUpTo([k \in 0 .. 0 |-> <<>>], p, 0)
    BY DEF NamesUpTo
  <2> QED BY <1>1, <1>2, <2>1
<1>3. CASE n # 0
  <2>1. n - 1 \in 0 .. Len(p) /\ ~(n <= n - 1) /\ n \in 1 .. Len(p) /\ n \in Nat
    BY <1>1, <1>3
  <2>2. PICK f : NamesUpTo(f, p, n - 1)
    BY <1>1, <2>1
  <2>3. f[n - 1] \in Seq(STRING) /\ p[n] \in STRING
    BY <2>1, <2>2 DEF NamesUpTo
  <2>4. PICK l : l \in Seq(STRING) /\ l = IF p[n] = "/" THEN f[n - 1] ELSE Append(f[n - 1], p[n])
    <3>1. Append(f[n - 1], p[n]) \in Seq(STRING)
      BY <2>3
    <3> QED BY <2>3, <3>1
  <2>5. PICK g : g = [k \in 0 .. n |-> IF k < n THEN f[k] ELSE l]
    OBVIOUS
  <2>6. \A k \in 0 .. n : k \in 0 .. n - 1 \/ (k = n /\ ~(k < n))
    BY <2>1
  <2>7. \A k \in 0 .. n - 1 : g[k] = f[k] /\ f[k] \in Seq(STRING)
    BY <2>1, <2>2, <2>5 DEF NamesUpTo
  <2>8. g[n] = l /\ g[n - 1] = f[n - 1]
    BY <2>1, <2>5, <2>7
  <2>9. g \in [0 .. n -> Seq(STRING)]
    <3>1. \A k \in 0 .. n : g[k] \in Seq(STRING)
      BY <2>4, <2>6, <2>7, <2>8
    <3> QED BY <2>5, <3>1
  <2>10. ASSUME NEW k \in 0 .. n
         PROVE  g[k] = IF k = 0 THEN <<>>
                       ELSE IF p[k] = "/" THEN g[k - 1] ELSE Append(g[k - 1], p[k])
    <3>1. CASE k = n
      BY <1>3, <2>4, <2>8, <3>1
    <3>2. CASE k \in 0 .. n - 1
      <4>1. g[k] = f[k] /\ f[k] = IF k = 0 THEN <<>>
                                  ELSE IF p[k] = "/" THEN f[k - 1] ELSE Append(f[k - 1], p[k])
        BY <2>2, <2>7, <3>2 DEF NamesUpTo
      <4>2. k # 0 => g[k - 1] = f[k - 1]
        BY <2>1, <2>7, <3>2
      <4> QED BY <4>1, <4>2
    <3> QED BY <2>6, <3>1, <3>2
  <2>11. NamesUpTo(g, p, n)
    BY <2>9, <2>10 DEF NamesUpTo
  <2> QED BY <1>1, <2>11
<1> QED BY <1>2, <1>3

\* A path with a name in it has names.
LEMMA PathHasNames ==
  ASSUME NEW p \in Seq(STRING), \E i \in DOMAIN p : p[i] # "/"
  PROVE  PathNames(p) \in Seq(STRING) /\ Len(PathNames(p)) >= 1
<1>1. PICK n \in Nat : n = Len(p) /\ DOMAIN p = 1 .. n
  OBVIOUS
<1> DEFINE Rec(f) == f = [k \in 0 .. Len(p) |->
                            IF k = 0 THEN <<>>
                            ELSE IF p[k] = "/" THEN f[k - 1] ELSE Append(f[k - 1], p[k])]
<1>2. PICK f : NamesUpTo(f, p, Len(p))
  BY <1>1, NamesExist
<1>3. Rec(f)
  BY <1>2 DEF NamesUpTo
<1>4. PICK g : PathNames(p) = g[Len(p)] /\ Rec(g)
  BY <1>3 DEF PathNames
<1>5. \A k \in 0 .. n : g[k] = IF k = 0 THEN <<>>
                               ELSE IF p[k] = "/" THEN g[k - 1] ELSE Append(g[k - 1], p[k])
  BY <1>1, <1>4
<1> HIDE DEF Rec
<1> DEFINE T == {k \in 0 .. n : ~(g[k] \in Seq(STRING)
                                  /\ ((\E i \in 1 .. k : p[i] # "/") => Len(g[k]) >= 1))}
<1>6. T = {}
  <2> SUFFICES ASSUME T # {} PROVE FALSE
    OBVIOUS
  <2>1. PICK k \in T : \A j \in T : k <= j
    <3>1. T \subseteq Nat
      OBVIOUS
    <3> HIDE DEF T
    <3> QED BY <3>1, LeastNumber
  <2>2. CASE k = 0
    <3>1. g[k] = <<>>
      BY <1>5, <2>1, <2>2
    <3>2. g[k] \in Seq(STRING) /\ ~\E i \in 1 .. k : p[i] # "/"
      BY <2>2, <3>1
    <3> QED BY <2>1, <3>2
  <2>3. CASE k # 0
    <3>1. k - 1 \in 0 .. n /\ ~(k <= k - 1) /\ k \in 1 .. n /\ k \in 0 .. n
      BY <2>1, <2>3
    <3>2. g[k - 1] \in Seq(STRING) /\ ((\E i \in 1 .. k - 1 : p[i] # "/") => Len(g[k - 1]) >= 1)
      BY <2>1, <3>1
    <3>3. CASE p[k] = "/"
      <4>1. g[k] = g[k - 1]
        BY <1>5, <2>3, <3>1, <3>3
      <4>2. \A i \in 1 .. k : p[i] # "/" => i \in 1 .. k - 1
        BY <3>1, <3>3
      <4> QED BY <2>1, <3>2, <4>1, <4>2
    <3>4. CASE p[k] # "/"
      <4>1. g[k] = Append(g[k - 1], p[k])
        BY <1>5, <2>3, <3>1, <3>4
      <4>2. p[k] \in STRING
        BY <1>1, <3>1
      <4>3. g[k] \in Seq(STRING) /\ Len(g[k]) >= 1
        BY <3>2, <4>1, <4>2
      <4>4. k \in 0 .. n /\ ~(g[k] \in Seq(STRING) /\ Len(g[k]) >= 1)
        BY <2>1
      <4> QED BY <4>3, <4>4
    <3> QED BY <3>3, <3>4
  <2> QED BY <2>2, <2>3
<1>7. n \in 0 .. n /\ \E i \in 1 .. n : p[i] # "/"
  BY <1>1
<1>8. g[n] \in Seq(STRING) /\ Len(g[n]) >= 1
  BY <1>6, <1>7
<1> QED BY <1>1, <1>4, <1>8

\* The two limits of a quota.
LEMMA QuotaReadsBack ==
  ASSUME NEW c, NEW key, NEW soft, NEW hard, getData(c, key) = QuotaData(soft, hard)
  PROVE  getDataField(c, key, "softLimitGrace") = soft /\ getDataField(c, key, "hardLimitGrace") = hard
<1>1. CASE soft = "" /\ hard = ""
  <2>1. getData(c, key) = {}
    BY <1>1 DEF QuotaData
  <2>2. \A f : {kv \in getData(c, key) : kv[1] = f} = {}
    BY <2>1
  <2> QED BY <1>1, <2>2 DEF getDataField
<1>2. CASE ~(soft = "" /\ hard = "")
  <2>1. PICK a, b : a = <<"softLimitGrace", soft>> /\ b = <<"hardLimitGrace", hard>>
    OBVIOUS
  <2>2. getData(c, key) = {a, b}
    BY <1>2, <2>1 DEF QuotaData
  <2>3. a[1] = "softLimitGrace" /\ b[1] = "hardLimitGrace" /\ a[2] = soft /\ b[2] = hard
    BY <2>1
  <2>4. /\ {kv \in getData(c, key) : kv[1] = "softLimitGrace"} = {a}
        /\ {kv \in getData(c, key) : kv[1] = "hardLimitGrace"} = {b}
    BY <2>2, <2>3
  <2>5. (CHOOSE kv \in {a} : TRUE) = a /\ (CHOOSE kv \in {b} : TRUE) = b
    OBVIOUS
  <2>6. /\ getDataField(c, key, "softLimitGrace") = a[2]
        /\ getDataField(c, key, "hardLimitGrace") = b[2]
    BY <2>4, <2>5 DEF getDataField
  <2> QED BY <2>3, <2>6
<1> QED BY <1>1, <1>2

-------------------------------------------------------------------------------
\* Parameters of directories and of devices.
HostpathOnly(e) == e.name \in {"BasePath", "XFSQuota", "EXT4Quota"} \/ IsType(e, {"hostpath"})
DeviceOnly(e) == e.name \in {"FSType", "BlockDeviceSelectors"} \/ IsType(e, {"device"})

\* No two parameters exclude each other.
NoMix(P) ==
  \A e, f \in P : /\ ~(HostpathOnly(e) /\ DeviceOnly(f))
                  /\ ~(e.name = "XFSQuota" /\ f.name = "EXT4Quota")

\* An option adds nothing to what it accepts that does not go with it.
LEMMA WritesDoNotMix ==
  ASSUME NEW o, o.opt \in ParameterOption, NEW P, NoMix(P), \A e \in P : Accepts(o, e)
  PROVE  NoMix(P \cup Written(o))
<1>1. CASE o.opt = "WithHostpath"
  <2>1. PICK t, b : Written(o) = {t, b} /\ t.name = "StorageType" /\ t.value = "hostpath"
                    /\ b.name = "BasePath"
    BY <1>1, WrittenBy, EntryNames
  <2>2. \A e \in P : e.name \in {"NodeAffinityLabel", "XFSQuota", "EXT4Quota"}
    BY <1>1, AcceptsIs DEF IsQuota
  <2> QED BY <2>1, <2>2 DEF NoMix, HostpathOnly, DeviceOnly, IsType
<1>2. CASE o.opt = "WithDevice"
  <2>1. PICK t : Written(o) = {t} /\ t.name = "StorageType" /\ t.value = "device"
    BY <1>2, WrittenBy, EntryNames
  <2>2. \A e \in P : e.name \in {"BlockDeviceSelectors", "FSType"}
    BY <1>2, AcceptsIs
  <2> QED BY <2>1, <2>2 DEF NoMix, HostpathOnly, DeviceOnly, IsType
<1>3. CASE o.opt \in {"WithXfsQuota", "WithExt4Quota"}
  <2>1. PICK q : Written(o) = {q} /\ q.name \in {"XFSQuota", "EXT4Quota"}
    BY <1>3, WrittenBy, EntryNames
  <2>2. \A e \in P : e.name \in {"BasePath", "NodeAffinityLabel"} \/ IsType(e, {"hostpath"})
    BY <1>3, AcceptsIs DEF IsBasePath
  <2> QED BY <2>1, <2>2 DEF NoMix, HostpathOnly, DeviceOnly, IsType
<1>4. CASE o.opt = "WithNodeAffinityLabels"
  <2>1. PICK l : Written(o) = {l} /\ l.name = "NodeAffinityLabels"
    BY <1>4, WrittenBy, EntryNames
  <2> QED BY <2>1 DEF NoMix, HostpathOnly, DeviceOnly, IsType
<1>5. CASE o.opt \in {"WithFSType", "WithBlockDeviceSelectors"}
  <2>1. PICK t : Written(o) = {t} /\ t.name \in {"FSType", "BlockDeviceSelectors"}
    BY <1>5, WrittenBy, EntryNames
  <2>2. \A e \in P : e.name \in {"FSType", "BlockDeviceSelectors"} \/ IsType(e, {"device"})
    BY <1>5, AcceptsIs
  <2> QED BY <2>1, <2>2 DEF NoMix, HostpathOnly, DeviceOnly, IsType
<1> QED BY <1>1, <1>2, <1>3, <1>4, <1>5 DEF ParameterOption

LEMMA OptionDoesNotMix ==
  ASSUME NEW s, NEW S, BuiltBy(s, S), NoMix(Parameters(s)), NEW o, o.opt \in OptionNames,
         ApplyOption(s, o).ok
  PROVE  NoMix(Parameters(ApplyOption(s, o).sc))
<1>1. Parameters(ApplyOption(s, o).sc) = Parameters(s) \cup Written(o)
  <2>1. PICK t : t = ApplyOption(s, o).sc /\ BuiltBy(t, S \cup {o})
    BY OptionBuilds
  <2>2. /\ Parameters(t) = UNION {Written(p) : p \in S \cup {o}}
        /\ Parameters(s) = UNION {Written(p) : p \in S}
    BY <2>1 DEF BuiltBy
  <2>3. Parameters(t) = Parameters(s) \cup Written(o)
    BY <2>2
  <2> QED BY <2>1, <2>3
<1>2. CASE o.opt \in ParameterOption
  <2>1. \A e \in Parameters(s) : Accepts(o, e)
    BY <1>2, ParameterOptionDoes, CompatibleIff
  <2> QED BY <1>1, <1>2, <2>1, WritesDoNotMix
<1>3. CASE o.opt \notin ParameterOption
  BY <1>1, <1>3, WritesType
<1> QED BY <1>2, <1>3

-------------------------------------------------------------------------------
\* The invariant of NewStorageClass: the class is what the options applied so
\* far build, and an option that was refused does not apply to it.
Applied == {applied[i] : i \in DOMAIN applied}

SCInv ==
  /\ applied \in Seq(Options)
  /\ BuiltBy(class, Applied) /\ NoMix(Parameters(class))
  /\ \A o \in Applied : Alone(o)
  /\ refused # <<>> => \E o \in Options : refused = <<o>> /\ ~ApplyOption(class, o).ok

LEMMA EmptyBuilt == BuiltBy(EmptyClass, {}) /\ NoMix(Parameters(EmptyClass))
<1>1. PICK s : s = EmptyClass
  OBVIOUS
<1>2. s.config = <<>> /\ {"config", "casType", "provisioner"} \subseteq DOMAIN s
  BY <1>1 DEF EmptyClass
<1>3. s.casType = "" /\ s.provisioner = ""
  BY <1>1 DEF EmptyClass
<1>4. Parameters(s) = {}
  BY <1>2 DEF Parameters
<1>5. Shaped(s)
  BY <1>2, <1>4 DEF Shaped, Distinct
<1>6. LocalFields(s, HasLocal({}))
  <2>1. HasLocal({}) = FALSE
    BY DEF HasLocal
  <2> QED BY <1>3, <2>1 DEF LocalFields
<1> QED BY <1>1, <1>4, <1>5, <1>6 DEF BuiltBy, NoMix

LEMMA SCInitial == SCInit => SCInv
<1> SUFFICES ASSUME SCInit PROVE SCInv
  OBVIOUS
<1>1. applied = <<>> /\ refused = <<>> /\ class = EmptyClass
  BY DEF SCInit
<1>2. Applied = {}
  BY <1>1 DEF Applied
<1> QED BY <1>1, <1>2, EmptyBuilt DEF SCInv

LEMMA SCStep == SCInv /\ [SCNext]_scvars => SCInv'
<1> SUFFICES ASSUME SCInv, [SCNext]_scvars PROVE SCInv'
  OBVIOUS
<1>1. CASE UNCHANGED scvars
  <2>1. class' = class /\ applied' = applied /\ refused' = refused
    BY <1>1 DEF scvars
  <2> QED BY <2>1 DEF SCInv, Applied
<1>2. ASSUME NEW o \in Options, NewStorageClass(o) PROVE SCInv'
  <2>0. o.opt \in OptionNames
    BY OptionsAssumption
  <2>1. CASE ApplyOption(class, o).ok
    <3>1. /\ class' = ApplyOption(class, o).sc /\ applied' = Append(applied, o) /\ refused' = <<>>
      BY <1>2, <2>1 DEF NewStorageClass
    <3>2. applied' \in Seq(Options) /\ Applied' = Applied \cup {o}
      <4>1. applied \in Seq(Options)
        BY DEF SCInv
      <4>2. PICK n \in Nat : n = Len(applied) /\ DOMAIN applied = 1 .. n
        BY <4>1
      <4>3. /\ applied' \in Seq(Options) /\ DOMAIN applied' = 1 .. n + 1 /\ applied'[n + 1] = o
            /\ \A i \in 1 .. n : applied'[i] = applied[i]
        BY <3>1, <4>1, <4>2
      <4>4. \A i \in 1 .. n + 1 : i \in 1 .. n \/ i = n + 1
        OBVIOUS
      <4>5. n + 1 \in 1 .. n + 1 /\ \A i \in 1 .. n : i \in 1 .. n + 1
        OBVIOUS
      <4>6. \A x : x \in Applied' <=> x \in Applied \cup {o}
        BY <4>2, <4>3, <4>4, <4>5 DEF Applied
      <4> QED BY <4>3, <4>6
    <3>3. BuiltBy(class', Applied \cup {o}) /\ Alone(o)
      BY <2>0, <2>1, <3>1, OptionBuilds DEF SCInv
    <3>4. NoMix(Parameters(class'))
      BY <2>0, <2>1, <3>1, OptionDoesNotMix DEF SCInv
    <3> QED BY <3>1, <3>2, <3>3, <3>4 DEF SCInv
  <2>2. CASE ~ApplyOption(class, o).ok
    <3>1. class' = class /\ applied' = applied /\ refused' = <<o>>
      BY <1>2, <2>2 DEF NewStorageClass
    <3>2. ~ApplyOption(class', o).ok
      BY <2>2, <3>1, Zenon
    <3> QED BY <3>1, <3>2 DEF SCInv, Applied
  <2> QED BY <2>1, <2>2
<1> QED BY <1>1, <1>2 DEF SCNext

LEMMA SCInvariance == SCSpec => []SCInv
BY SCInitial, SCStep, PTL DEF SCSpec

(***************************************************************************)
(* Whatever options are passed, in whatever order and number, the class    *)
(* under construction never mixes parameters of directories with those of  *)
(* devices and never asks for both kinds of quota: the checks of the       *)
(* options, each of which looks only at what the earlier ones left, are    *)
(* together complete.                                                      *)
(***************************************************************************)
THEOREM KindsAreNotMixed == SCSpec => []StorageKindsDoNotMix
<1>1. SCInv => StorageKindsDoNotMix
  <2> SUFFICES ASSUME NoMix(Parameters(class)) PROVE StorageKindsDoNotMix
    BY DEF SCInv
  <2> QED BY DEF NoMix, StorageKindsDoNotMix, HostpathOnly, DeviceOnly, ParameterNames
<1> QED BY <1>1, SCInvariance, PTL

\* An entry that an accepted option wrote is read as it was written.
LEMMA WrittenIsRead ==
  ASSUME SCInv, NEW o \in Applied, NEW w \in Written(o), NEW c,
         c = MergeConfig(class.config, defaultConfig)
  PROVE  Option(c, w.name) = w /\ getData(c, w.name) = w.data /\ getList(c, w.name) = w.list
<1>1. Shaped(class) /\ w \in Parameters(class)
  BY DEF SCInv, BuiltBy
<1> QED BY <1>1, MergedEntry

LEMMA QuotaIsRead ==
  ASSUME NEW c, NEW key, NEW soft, NEW hard, NEW e, Option(c, key) = e, e.enabled = "true",
         getData(c, key) = QuotaData(soft, hard)
  PROVE  QuotaOf(c, key) = [enabled |-> TRUE, soft |-> soft, hard |-> hard]
<1>1. (Option(c, key).enabled = "true") = TRUE
  BY Zenon
<1>2. getDataField(c, key, "softLimitGrace") = soft /\ getDataField(c, key, "hardLimitGrace") = hard
  BY QuotaReadsBack
<1> QED BY <1>1, <1>2, Zenon DEF QuotaOf

LEMMA AppliedReadsBack ==
  ASSUME SCInv, NEW o \in Applied
  PROVE  ReadsBack(o)
<1>1. PICK c : c = MergeConfig(class.config, defaultConfig)
  OBVIOUS
<1>2. o \in Options /\ o.opt \in OptionNames /\ Alone(o)
  <2>1. applied \in Seq(Options)
    BY DEF SCInv
  <2>2. o \in Options
    BY <2>1 DEF Applied
  <2> QED BY <2>2, OptionsAssumption DEF SCInv
<1>3. CASE o.opt = "WithHostpath"
  <2>1. PICK a, b : a \in Written(o) /\ b \in Written(o) /\ a = Value("StorageType", "hostpath") /\ b = BasePath(o.path)
    BY <1>3, WrittenBy DEF ParameterOption
  <2>2. a.name = "StorageType" /\ a.value = "hostpath" /\ b.name = "BasePath" /\ b.path = o.path
    BY <2>1, EntryNames
  <2>3. Option(c, "StorageType") = a /\ Option(c, "BasePath") = b
    BY <1>1, <2>1, <2>2, WrittenIsRead
  <2>4. GetStorageType(c) = "hostpath"
    BY <2>2, <2>3 DEF GetStorageType
  <2>5. o.path \in Seq(STRING) /\ isValidPath(o.path)
    BY <1>2, <1>3, OptionsAssumption DEF Alone
  <2>6. PathNames(o.path) \in Seq(STRING) /\ Len(PathNames(o.path)) >= 1
    BY <2>5, ValidPathHasName, PathHasNames
  <2>7. PICK l : l = PathNames(o.path)
    OBVIOUS
  <2>8. Len(Append(l, "pv")) >= 2
    BY <2>6, <2>7
  <2>9. GetPath(c, "pv") = Append(l, "pv")
    BY <2>2, <2>3, <2>7, <2>8 DEF GetPath
  <2> QED BY <1>1, <1>3, <2>4, <2>7, <2>9 DEF ReadsBack
<1>4. CASE o.opt = "WithDevice"
  <2>1. PICK a : a \in Written(o) /\ a = Value("StorageType", "device")
    BY <1>4, WrittenBy DEF ParameterOption
  <2>2. a.name = "StorageType" /\ a.value = "device"
    BY <2>1, EntryNames
  <2>3. Option(c, "StorageType") = a
    BY <1>1, <2>1, <2>2, WrittenIsRead
  <2>4. GetStorageType(c) = "device"
    BY <2>2, <2>3 DEF GetStorageType
  <2> QED BY <1>1, <1>4, <2>4 DEF ReadsBack
<1>5. CASE o.opt = "WithXfsQuota"
  <2>1. PICK a : a \in Written(o) /\ a = Quota("XFSQuota", QuotaData(o.soft, o.hard))
    BY <1>5, WrittenBy DEF ParameterOption
  <2>2. a.name = "XFSQuota" /\ a.data = QuotaData(o.soft, o.hard) /\ a.enabled = "true"
    BY <2>1, EntryNames
  <2>3. Option(c, "XFSQuota") = a /\ getData(c, "XFSQuota") = QuotaData(o.soft, o.hard)
    BY <1>1, <2>1, <2>2, WrittenIsRead
  <2>4. QuotaOf(c, "XFSQuota") = [enabled |-> TRUE, soft |-> o.soft, hard |-> o.hard]
    BY <2>2, <2>3, QuotaIsRead
  <2> QED BY <1>1, <1>5, <2>4 DEF ReadsBack
<1>6. CASE o.opt = "WithExt4Quota"
  <2>1. PICK a : a \in Written(o) /\ a = Quota("EXT4Quota", QuotaData(o.soft, o.hard))
    BY <1>6, WrittenBy DEF ParameterOption
  <2>2. a.name = "EXT4Quota" /\ a.data = QuotaData(o.soft, o.hard) /\ a.enabled = "true"
    BY <2>1, EntryNames
  <2>3. Option(c, "EXT4Quota") = a /\ getData(c, "EXT4Quota") = QuotaData(o.soft, o.hard)
    BY <1>1, <2>1, <2>2, WrittenIsRead
  <2>4. QuotaOf(c, "EXT4Quota") = [enabled |-> TRUE, soft |-> o.soft, hard |-> o.hard]
    BY <2>2, <2>3, QuotaIsRead
  <2> QED BY <1>1, <1>6, <2>4 DEF ReadsBack
<1>7. CASE o.opt = "WithNodeAffinityLabels"
  <2>1. PICK a : a \in Written(o) /\ a = List("NodeAffinityLabels", NonEmpty(o.keys))
    BY <1>7, WrittenBy DEF ParameterOption
  <2>2. a.name = "NodeAffinityLabels" /\ a.list = NonEmpty(o.keys)
    BY <2>1, EntryNames
  <2>3. GetNodeAffinityLabelKeys(c) = NonEmpty(o.keys)
    BY <1>1, <2>1, <2>2, WrittenIsRead DEF GetNodeAffinityLabelKeys
  <2> QED BY <1>1, <1>7, <2>3 DEF ReadsBack
<1>8. CASE o.opt = "WithFSType"
  <2>1. PICK a : a \in Written(o) /\ a = Value("FSType", o.fs)
    BY <1>8, WrittenBy DEF ParameterOption
  <2>2. a.name = "FSType" /\ a.value = o.fs
    BY <2>1, EntryNames
  <2>3. GetFSType(c) = o.fs
    BY <1>1, <2>1, <2>2, WrittenIsRead DEF GetFSType
  <2> QED BY <1>1, <1>8, <2>3 DEF ReadsBack
<1>9. CASE o.opt = "WithBlockDeviceSelectors"
  <2>1. PICK a : a \in Written(o) /\ a = Data("BlockDeviceSelectors", Kept(o.sel))
    BY <1>9, WrittenBy DEF ParameterOption
  <2>2. a.name = "BlockDeviceSelectors" /\ a.data = Kept(o.sel)
    BY <2>1, EntryNames
  <2>3. getData(c, "BlockDeviceSelectors") = {kv \in o.sel : kv[2] # ""}
    BY <1>1, <2>1, <2>2, WrittenIsRead DEF Kept
  <2> QED BY <1>1, <1>9, <2>3 DEF ReadsBack
<1>10. CASE o.opt \notin ParameterOption
  BY <1>10 DEF ReadsBack, ParameterOption
<1> QED BY <1>3, <1>4, <1>5, <1>6, <1>7, <1>8, <1>9, <1>10 DEF ParameterOption

(***************************************************************************)
(* What an accepted option asked for is what the provisioner reads from    *)
(* the annotation, through GetVolumeConfig and its getters, whatever other *)
(* options were accepted before or after it: no option writes over or      *)
(* shadows what another wrote, the defaults that are merged in replace     *)
(* nothing, and a path that isValidPath accepts is one that GetPath makes  *)
(* a directory of.                                                         *)
(***************************************************************************)
THEOREM OptionsReadBack == SCSpec => []BuiltClassReadsBack
<1>1. SCInv => BuiltClassReadsBack
  <2> SUFFICES ASSUME SCInv, NEW i \in DOMAIN applied PROVE ReadsBack(applied[i])
    BY DEF BuiltClassReadsBack
  <2>1. applied[i] \in Applied
    BY DEF Applied
  <2> QED BY <2>1, AppliedReadsBack
<1> QED BY <1>1, SCInvariance, PTL

-------------------------------------------------------------------------------
\* The loop of NewStorageClass over a whole list of options: what is left of the
\* class after k of them.
BuildStep(r, o) == IF r.ok THEN ApplyOption(r.sc, o) ELSE r

BuildsTo(f, opts, n) ==
  f = [k \in 0 .. n |-> IF k = 0 THEN [ok |-> TRUE, sc |-> EmptyClass] ELSE BuildStep(f[k - 1], opts[k])]

LEMMA BuildsToExists ==
  ASSUME NEW opts, NEW N \in Nat
  PROVE  \A n \in 0 .. N : \E f : BuildsTo(f, opts, n)
<1> DEFINE T == {n \in 0 .. N : ~\E f : BuildsTo(f, opts, n)}
<1> SUFFICES ASSUME T # {} PROVE FALSE
  OBVIOUS
<1>1. PICK n \in T : \A m \in T : n <= m
  <2>1. T \subseteq Nat
    OBVIOUS
  <2> HIDE DEF T
  <2> QED BY <2>1, LeastNumber
<1>0. PICK empty : empty = [ok |-> TRUE, sc |-> EmptyClass]
  OBVIOUS
<1>2. CASE n = 0
  <2>1. PICK f : f = [k \in 0 .. 0 |-> empty]
    OBVIOUS
  <2>2. f = [k \in 0 .. 0 |-> IF k = 0 THEN empty ELSE BuildStep(f[k - 1], opts[k])]
    BY <2>1
  <2>3. BuildsTo(f, opts, 0)
    BY <1>0, <2>2 DEF BuildsTo
  <2> QED BY <1>1, <1>2, <2>3
<1>3. CASE n # 0
  <2>1. n - 1 \in 0 .. N /\ ~(n <= n - 1) /\ n \in 1 .. N /\ n \in Nat
    BY <1>1, <1>3
  <2>2. PICK f : BuildsTo(f, opts, n - 1)
    BY <1>1, <2>1
  <2>3. \A k \in 0 .. n - 1 : f[k] = IF k = 0 THEN empty ELSE BuildStep(f[k - 1], opts[k])
    BY <1>0, <2>2 DEF BuildsTo
  <2>4. PICK l : l = BuildStep(f[n - 1], opts[n])
    OBVIOUS
  <2>5. PICK g : g = [k \in 0 .. n |-> IF k < n THEN f[k] ELSE l]
    OBVIOUS
  <2>6. /\ \A k \in 0 .. n : k \in 0 .. n - 1 \/ (k = n /\ ~(k < n))
        /\ \A k \in 0 .. n - 1 : k \in 0 .. n /\ k < n /\ (k # 0 => k - 1 \in 0 .. n - 1)
    BY <2>1
  <2>7. \A k \in 0 .. n - 1 : g[k] = f[k]
    BY <2>5, <2>6
  <2>8. g[n] = l /\ g[n - 1] = f[n - 1]
    BY <2>1, <2>5, <2>7
  <2>9. ASSUME NEW k \in 0 .. n
        PROVE  g[k] = IF k = 0 THEN empty ELSE BuildStep(g[k - 1], opts[k])
    <3>1. CASE k = n
      BY <1>3, <2>4, <2>8, <3>1
    <3>2. CASE k \in 0 .. n - 1
      <4>1. g[k] = IF k = 0 THEN empty ELSE BuildStep(f[k - 1], opts[k])
        BY <2>3, <2>7, <3>2
      <4>2. k # 0 => g[k - 1] = f[k - 1]
        BY <2>6, <2>7, <3>2
      <4> QED BY <4>1, <4>2
    <3> QED BY <2>6, <3>1, <3>2
  <2>10. g = [k \in 0 .. n |-> IF k = 0 THEN empty ELSE BuildStep(g[k - 1], opts[k])]
    BY <2>5, <2>9
  <2>11. BuildsTo(g, opts, n)
    BY <1>0, <2>10 DEF BuildsTo
  <2> QED BY <1>1, <2>11
<1> QED BY <1>2, <1>3

LEMMA BuildsIs ==
  ASSUME NEW opts, NEW n \in Nat, n = Len(opts)
  PROVE  \E f : BuildsTo(f, opts, n) /\ (Builds(opts) <=> f[n].ok)
<1> DEFINE Rec(f) == f = [k \in 0 .. Len(opts) |->
                            IF k = 0 THEN [ok |-> TRUE, sc |-> EmptyClass]
                            ELSE IF f[k - 1].ok THEN ApplyOption(f[k - 1].sc, opts[k]) ELSE f[k - 1]]
<1>1. PICK f : BuildsTo(f, opts, n)
  <2>1. n \in 0 .. n
    OBVIOUS
  <2> QED BY <2>1, BuildsToExists
<1>2. \A g : Rec(g) <=> BuildsTo(g, opts, n)
  BY DEF BuildsTo, BuildStep
<1>3. \E g : Rec(g)
  BY <1>1, <1>2
<1>4. Rec(CHOOSE g : Rec(g))
  <2> HIDE DEF Rec
  <2> QED BY <1>3
<1>5. Builds(opts) <=> (CHOOSE g : Rec(g))[Len(opts)].ok
  BY DEF Builds
<1> HIDE DEF Rec
<1> QED BY <1>2, <1>4, <1>5

\* Options that are right by themselves and do not exclude each other.
Fits(opts, n) ==
  \A i \in 1 .. n : /\ Alone(opts[i])
                    /\ \A j \in 1 .. n : j < i => ~Exclude(opts[j], opts[i])

Labelless == OptionNames \ {"WithNodeAffinityLabels"}

First(opts, k) == {opts[i] : i \in 1 .. k}

\* A class that is built has options that fit.
LEMMA BuildsFits ==
  ASSUME NEW opts, NEW n \in Nat, n = Len(opts), \A i \in 1 .. n : opts[i].opt \in Labelless,
         Builds(opts)
  PROVE  Fits(opts, n)
<1>1. PICK f : BuildsTo(f, opts, n) /\ f[n].ok
  BY BuildsIs
<1>2. PICK empty : empty = [ok |-> TRUE, sc |-> EmptyClass]
  OBVIOUS
<1>3. \A k \in 0 .. n : f[k] = IF k = 0 THEN empty ELSE BuildStep(f[k - 1], opts[k])
  BY <1>1, <1>2 DEF BuildsTo
<1> DEFINE P(k) == f[k].ok => BuiltBy(f[k].sc, First(opts, k)) /\ Fits(opts, k)
           T == {k \in 0 .. n : ~P(k)}
<1>4. T = {}
  <2> SUFFICES ASSUME T # {} PROVE FALSE
    OBVIOUS
  <2>1. PICK k \in T : \A j \in T : k <= j
    <3>1. T \subseteq Nat
      OBVIOUS
    <3> HIDE DEF T
    <3> QED BY <3>1, LeastNumber
  <2>2. CASE k = 0
    <3>1. f[k].sc = EmptyClass
      BY <1>2, <1>3, <2>1, <2>2
    <3>2. First(opts, k) = {} /\ Fits(opts, k)
      BY <2>2 DEF First, Fits
    <3>3. BuiltBy(EmptyClass, {})
      BY EmptyBuilt
    <3> QED BY <2>1, <3>1, <3>2, <3>3
  <2>3. CASE k # 0
    <3>1. k - 1 \in 0 .. n /\ ~(k <= k - 1) /\ k \in 1 .. n /\ k \in 0 .. n
      BY <2>1, <2>3
    <3>2. P(k - 1)
      BY <2>1, <3>1
    <3>3. f[k].ok /\ ~(BuiltBy(f[k].sc, First(opts, k)) /\ Fits(opts, k))
      BY <2>1
    <3>4. PICK r, o : r = f[k - 1] /\ o = opts[k]
      OBVIOUS
    <3>5. f[k] = IF r.ok THEN ApplyOption(r.sc, o) ELSE r
      BY <1>3, <2>3, <3>1, <3>4 DEF BuildStep
    <3>6. r.ok
      BY <3>3, <3>5
    <3>7. f[k] = ApplyOption(r.sc, o)
      BY <3>5, <3>6
    <3>8. PICK S : S = First(opts, k - 1)
      OBVIOUS
    <3>9. BuiltBy(r.sc, S) /\ Fits(opts, k - 1) /\ ApplyOption(r.sc, o).ok
      BY <3>2, <3>3, <3>4, <3>6, <3>7, <3>8
    <3>10. o.opt \in Labelless
      BY <3>1, <3>4
    <3>11. \A p \in S : p.opt \in Labelless /\ Alone(p)
      <4>1. \A i \in 1 .. k - 1 : i \in 1 .. n
        BY <3>1
      <4> QED BY <3>8, <3>9, <4>1 DEF First, Fits
    <3>12. Alone(o) /\ \A p \in S : ~Exclude(p, o)
      BY <3>9, <3>10, <3>11, AppliesIff DEF Labelless
    <3>13. \A i \in 1 .. k : i = k \/ i \in 1 .. k - 1
      BY <3>1
    <3>14. First(opts, k) = S \cup {o}
      <4>1. k \in 1 .. k /\ \A i \in 1 .. k - 1 : i \in 1 .. k
        BY <3>1
      <4>2. \A x : x \in First(opts, k) <=> x \in S \cup {o}
        BY <3>4, <3>8, <3>13, <4>1 DEF First
      <4> QED BY <4>2
    <3>15. BuiltBy(f[k].sc, First(opts, k))
      <4>1. BuiltBy(ApplyOption(r.sc, o).sc, S \cup {o})
        BY <3>9, <3>10, OptionBuilds DEF Labelless
      <4> QED BY <3>7, <3>14, <4>1
    <3>16. Fits(opts, k)
      <4> SUFFICES ASSUME NEW i \in 1 .. k
                   PROVE  Alone(opts[i]) /\ \A j \in 1 .. k : j < i => ~Exclude(opts[j], opts[i])
        BY DEF Fits
      <4>1. CASE i = k
        <5>1. \A j \in 1 .. k : j < k => opts[j] \in S
          BY <3>8, <3>13 DEF First
        <5> QED BY <3>4, <3>12, <4>1, <5>1
      <4>2. CASE i \in 1 .. k - 1
        <5>1. \A j \in 1 .. k : j < i => j \in 1 .. k - 1
          BY <3>1, <4>2
        <5> QED BY <3>9, <4>2, <5>1 DEF Fits
      <4> QED BY <3>13, <4>1, <4>2
    <3> QED BY <3>3, <3>15, <3>16
  <2> QED BY <2>2, <2>3
<1>5. n \in 0 .. n
  OBVIOUS
<1>6. P(n)
  BY <1>4, <1>5
<1> QED BY <1>1, <1>6

\* An injection of a list's places into themselves reaches every place.
LEMMA Permutes ==
  ASSUME NEW n \in Nat, NEW q \in [1 .. n -> 1 .. n], IsInjective(q)
  PROVE  \A a \in 1 .. n : \E i \in 1 .. n : q[i] = a
<1>1. q \in Injection(1 .. n, 1 .. n)
  BY DEF Injection
<1>2. IsFiniteSet(1 .. n)
  BY FS_Interval
<1>3. q \in Surjection(1 .. n, 1 .. n)
  BY <1>1, <1>2, FS_Injection
<1> QED BY <1>3 DEF Surjection

(***************************************************************************)
(* When an option is refused, no order of the options builds a class,      *)
(* unless WithNodeAffinityLabels is among them: each option only looks at  *)
(* what the earlier ones left, and yet what a caller gets does not depend  *)
(* on the order in which it lists its options.                             *)
(***************************************************************************)
THEOREM OrderIsForLabelsOnly == SCSpec => []OrderMattersOnlyForLabels
<1>1. SCInv => OrderMattersOnlyForLabels
  <2> SUFFICES ASSUME SCInv, refused # <<>>,
                      NEW opts, opts = applied \o refused,
                      \A i \in DOMAIN opts : opts[i].opt # "WithNodeAffinityLabels",
                      NEW q \in [DOMAIN opts -> DOMAIN opts], IsInjective(q),
                      Builds([i \in DOMAIN opts |-> opts[q[i]]])
               PROVE  FALSE
    BY DEF OrderMattersOnlyForLabels
  <2>1. PICK o \in Options : refused = <<o>> /\ ~ApplyOption(class, o).ok
    BY DEF SCInv
  <2>2. applied \in Seq(Options) /\ BuiltBy(class, Applied) /\ \A p \in Applied : Alone(p)
    BY DEF SCInv
  <2>3. PICK m \in Nat : m = Len(applied) /\ DOMAIN applied = 1 .. m
    BY <2>2
  <2>4. PICK n \in Nat : n = m + 1
    OBVIOUS
  <2>5. /\ opts \in Seq(Options) /\ Len(opts) = n /\ DOMAIN opts = 1 .. n /\ opts[n] = o
        /\ \A i \in 1 .. m : opts[i] = applied[i]
    <3>1. refused \in Seq(Options) /\ Len(refused) = 1 /\ refused[1] = o
      BY <2>1
    <3>2. opts \in Seq(Options) /\ Len(opts) = m + 1
      <4>1. opts \in Seq(Options) /\ Len(opts) = Len(applied) + Len(refused)
        BY <2>2, <3>1, ConcatProperties, Zenon
      <4> QED BY <2>3, <3>1, <4>1
    <3>3. \A i \in 1 .. m : opts[i] = applied[i]
      BY <2>2, <2>3, <3>1
    <3>4. opts[m + 1] = refused[m + 1 - m]
      BY <2>2, <2>3, <3>1
    <3>5. m + 1 - m = 1
      OBVIOUS
    <3>6. DOMAIN opts = 1 .. n
      BY <2>4, <3>2
    <3> QED BY <2>4, <3>1, <3>2, <3>3, <3>4, <3>5, <3>6
  <2>6. \A i \in 1 .. n : opts[i] \in Options /\ opts[i].opt \in Labelless
    <3>1. \A i \in 1 .. n : opts[i] \in Options
      BY <2>5, ElementOfSeq
    <3> QED BY <2>5, <3>1, OptionsAssumption DEF Labelless
  <2>7. PICK perm : perm = [i \in DOMAIN opts |-> opts[q[i]]]
    OBVIOUS
  <2>8. /\ perm = [i \in 1 .. n |-> opts[q[i]]] /\ q \in [1 .. n -> 1 .. n]
        /\ \A i \in 1 .. n : perm[i] = opts[q[i]] /\ q[i] \in 1 .. n
    BY <2>5, <2>7
  <2>9. Len(perm) = n
    BY <2>6, <2>8
  <2>10. Fits(perm, n)
    <3>1. \A i \in 1 .. n : perm[i].opt \in Labelless
      BY <2>6, <2>8
    <3> QED BY <2>7, <2>9, <3>1, BuildsFits
  <2>11. ASSUME NEW a \in 1 .. n, NEW b \in 1 .. n, a # b
         PROVE  Alone(opts[b]) /\ ~Exclude(opts[a], opts[b])
    <3>1. PICK i \in 1 .. n : q[i] = a
      BY <2>8, Permutes
    <3>2. PICK j \in 1 .. n : q[j] = b
      BY <2>8, Permutes
    <3>3. perm[i] = opts[a] /\ perm[j] = opts[b]
      BY <2>8, <3>1, <3>2
    <3>4. i # j
      BY <2>11, <3>1, <3>2
    <3>5. i < j \/ j < i
      BY <3>4
    <3> QED BY <2>10, <3>3, <3>5, ExcludeSymmetric DEF Fits
  <2>12. Alone(o)
    <3>1. n \in 1 .. n
      BY <2>4
    <3>2. PICK j \in 1 .. n : q[j] = n
      BY <2>8, <3>1, Permutes
    <3> QED BY <2>5, <2>8, <2>10, <3>2 DEF Fits
  <2>13. \A p \in Applied : ~Exclude(p, o)
    <3> SUFFICES ASSUME NEW i \in 1 .. m PROVE ~Exclude(applied[i], o)
      BY <2>3 DEF Applied
    <3>1. i \in 1 .. n /\ n \in 1 .. n /\ i # n
      BY <2>4
    <3> QED BY <2>5, <2>11, <3>1
  <2>14. \A p \in Applied : p.opt \in Labelless /\ Alone(p)
    <3> SUFFICES ASSUME NEW i \in 1 .. m PROVE applied[i].opt \in Labelless
      BY <2>2, <2>3 DEF Applied
    <3>1. i \in 1 .. n
      BY <2>4
    <3> QED BY <2>5, <2>6, <3>1
  <2>15. o.opt \in Labelless
    <3>1. n \in 1 .. n
      BY <2>4
    <3> QED BY <2>5, <2>6, <3>1
  <2> QED BY <2>1, <2>2, <2>12, <2>13, <2>14, <2>15, AppliesIff DEF Labelless
<1> QED BY <1>1, SCInvariance, PTL
===============================================================================
