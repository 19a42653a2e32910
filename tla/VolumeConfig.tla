----------------------------- MODULE VolumeConfig -----------------------------
(***************************************************************************)
(* The cas.openebs.io/config annotation of a StorageClass, as a sequence   *)
(* of parameters, and what the provisioner reads from it.  The value of    *)
(* BasePath is a path: the sequence of its "/" and of its names.           *)
(***************************************************************************)
EXTENDS Naturals, Sequences, SequencesExt

CONSTANT DefaultBasePath   \* OPENEBS_IO_BASE_PATH, or /var/openebs/local

NoEntry == [name |-> "", value |-> "", path |-> <<>>, enabled |-> "",
            data |-> {}, list |-> <<>>]

Value(n, v) == [NoEntry EXCEPT !.name = n, !.value = v]
BasePath(p) == [NoEntry EXCEPT !.name = "BasePath", !.path = p]
Quota(n, d) == [NoEntry EXCEPT !.name = n, !.enabled = "true", !.data = d]
Data(n, d) == [NoEntry EXCEPT !.name = n, !.data = d]
List(n, l) == [NoEntry EXCEPT !.name = n, !.list = l]

PathNames(p) ==
  LET names[n \in 0 .. Len(p)] ==
        IF n = 0 THEN <<>>
        ELSE IF p[n] = "/" THEN names[n - 1] ELSE Append(names[n - 1], p[n])
  IN names[Len(p)]

\* The one default, of NewProvisioner.
defaultConfig == BasePath(DefaultBasePath)

\* The entries of the class, then the default unless the class uses its name.
MergeConfig(high, default) ==
  IF \E i \in DOMAIN high : high[i].name = default.name THEN high ELSE Append(high, default)

\* Of the entries with one name the last replaces the others; one without data
\* replaces no data and one without a list replaces no list.
LastOf(c, places) == IF places = {} THEN NoEntry ELSE c[Max(places)]

Option(c, key) == LastOf(c, {i \in DOMAIN c : c[i].name = key})
getData(c, key) == LastOf(c, {i \in DOMAIN c : c[i].name = key /\ c[i].data # {}}).data
getList(c, key) == LastOf(c, {i \in DOMAIN c : c[i].name = key /\ c[i].list # <<>>}).list

getDataField(c, key, field) ==
  LET found == {kv \in getData(c, key) : kv[1] = field}
  IN IF found = {} THEN "" ELSE (CHOOSE kv \in found : TRUE)[2]

GetStorageType(c) ==
  LET v == Option(c, "StorageType").value IN IF v = "" THEN "hostpath" ELSE v

GetFSType(c) == Option(c, "FSType").value
GetNodeAffinityLabelKeys(c) == getList(c, "NodeAffinityLabels")

\* What strconv.ParseBool does not accept counts as false.
QuotaOf(c, key) ==
  [enabled |-> Option(c, key).enabled = "true",
   soft |-> getDataField(c, key, "softLimitGrace"),
   hard |-> getDataField(c, key, "hardLimitGrace")]

\* An empty base path in the class is an error, not the default; the directory
\* of the volume must not be directly under the root.
NoPath == <<>>
GetPath(c, pv) ==
  LET path == Append(PathNames(Option(c, "BasePath").path), pv)
  IN IF Len(path) < 2 THEN NoPath ELSE path

\* An annotation is text: one that is no list of parameters, or has one without
\* a name, is an error.
Readable(text) == text.yaml /\ \A i \in DOMAIN text.entries : text.entries[i].name # ""

GetVolumeConfig(text) == MergeConfig(text.entries, defaultConfig)
===============================================================================
