---------------------------- MODULE BuildersProofs ----------------------------
(***************************************************************************)
(* Theorems about Builders, for every caller: any builders, any contents   *)
(* of its maps, any number of calls and of builders handed over.           *)
(***************************************************************************)
EXTENDS Builders, SequenceTheorems, WellFoundedInduction, TLAPS

-------------------------------------------------------------------------------
\* The builders: which cell is part of which objects.

TemplateMaps == {"Template.Labels", "Template.Annotations", "Template.NodeSelector"}

\* The maps of the caller that a builder keeps.
Aliased(k, f) ==
  \/ k = "deployment" /\ f = "Template.NodeSelector"
  \/ k = "pv" /\ f \in {"Labels", "Annotations"}
  \/ k = "pvc" /\ f \in {"Labels", "Annotations"}

MayAlias(r) == r.store = "alias" \/ (r.store \in {"merge", "append"} /\ r.first = "alias")

(***************************************************************************)
(* What the setters of every builder have in common.  Only maps are merged *)
(* into in place; a builder that keeps a map of the caller does not merge  *)
(* into it later, but for the node selector of a deployment and the labels *)
(* that a PVC builder started from.  Only pods and templates append to a   *)
(* list they may have from the caller.                                     *)
(***************************************************************************)
Disciplined(k, r) ==
  /\ r.store \in {"copy", "alias", "merge", "append", "values"} /\ r.first \in {"copy", "alias"}
  /\ r.store = "merge" => r.field \in MapFields
  /\ r.also # r.field => r.store = "copy" /\ r.field \notin MapFields /\ r.also \notin MapFields
  /\ MayAlias(r) => r.empty # "default" /\ (r.field \in MapFields => Aliased(k, r.field))
  /\ r.store = "merge" /\ Aliased(k, r.field) => k = "deployment" \/ (k = "pvc" /\ r.field = "Labels")
  /\ k = "pvc" /\ r.field = "Labels" => ~MayAlias(r)
  /\ r.store = "append" => r.field \notin MapFields
  /\ r.store = "append" /\ r.field \in KeptLists =>
       k = IF r.field = "Template.Tolerations" THEN "template" ELSE "pod"
  /\ r.store = "merge" /\ k = "deployment" /\ r.field \in TemplateMaps => r.field = "Template.NodeSelector"
  /\ r.field \in TemplateMaps => k \in {"template", "deployment"}
  /\ k = "template" /\ r.field \in MapFields => r.field \in TemplateMaps

Builder == DOMAIN kind

\* A sequence, of whatever there is in it.
IsHeap(h) == h \in Seq({h[i] : i \in DOMAIN h})

TypeOK ==
  /\ caller \in Callers
  /\ IsHeap(heap) /\ Len(Given) <= Len(heap)
  /\ IsHeap(array) /\ Len(array) = Len(heap)
  /\ DOMAIN fields = Builder /\ DOMAIN asked = Builder /\ errs \in [Builder -> BOOLEAN]

CellsExist ==
  \A b \in Builder : \A f \in DOMAIN fields[b] :
    /\ fields[b][f] \in 1 .. Len(heap)
    /\ f \in TemplateMaps => kind[b] \in {"template", "deployment"}
    /\ kind[b] = "template" /\ f \in MapFields => f \in TemplateMaps

\* The cells of the caller: a map is part of the objects that keep it, only.
CallersCells ==
  \A b \in Builder : \A f \in DOMAIN fields[b] :
    fields[b][f] \in 1 .. Len(Given) =>
      /\ f \in MapFields <=> fields[b][f] \in GivenMaps
      /\ f \in MapFields => Aliased(kind[b], f)
      /\ kind[b] = "pvc" /\ f = "Labels" => b \in DOMAIN caller.from /\ fields[b][f] = caller.from[b]

(***************************************************************************)
(* A list that continues a list of the caller is not empty, and is in the  *)
(* field for which the caller has that list.                               *)
(***************************************************************************)
Continued ==
  /\ \A i \in 1 .. Len(Given) : array[i] = i
  /\ \A i \in 1 .. Len(heap) : array[i] # i => array[i] \in DOMAIN caller.room /\ ~Empty(heap[i])
  /\ \A b \in Builder : \A f \in DOMAIN fields[b] :
       array[fields[b][f]] # fields[b][f] => f = caller.room[array[fields[b][f]]]

(***************************************************************************)
(* A map that is part of two objects is the caller's, or the same field of *)
(* a pod template and of the deployments that took it.                     *)
(***************************************************************************)
SharedCells ==
  \A b, c \in Builder : \A f \in DOMAIN fields[b], g \in DOMAIN fields[c] :
    fields[b][f] = fields[c][g] =>
      /\ f \in MapFields <=> g \in MapFields
      /\ f \in MapFields => \/ b = c /\ f = g
                            \/ fields[b][f] \in 1 .. Len(Given)
                            \/ f = g /\ f \in TemplateMaps /\ (kind[b] = "deployment" \/ kind[c] = "deployment")

Cells == TypeOK /\ CellsExist /\ CallersCells /\ SharedCells /\ Continued

BuildersInv == Cells /\ ObjectIsWhatWasAsked

-------------------------------------------------------------------------------
\* Every setter of every builder keeps to it.
LEMMA SettersAreDisciplined ==
  ASSUME NEW k \in Kinds, NEW r \in Setters(k)
  PROVE  Disciplined(k, r)
<1> USE DEF Disciplined, MayAlias, Aliased, TemplateMaps, MapFields, SetterOf, Setter, Set, Keep, Merge,
            Add, Always, Checked, MergeOrKeep, KeptLists
<1>1. CASE k = "container"
  <2>1. r \in containerText \cup containerMounts \cup containerProcess
    BY <1>1 DEF Setters
  <2>2. CASE r \in containerText
    BY <1>1, <2>2 DEF containerText
  <2>3. CASE r \in containerMounts
    BY <1>1, <2>3 DEF containerMounts
  <2>4. CASE r \in containerProcess
    BY <1>1, <2>4 DEF containerProcess
  <2> QED BY <2>1, <2>2, <2>3, <2>4
<1>2. CASE k = "volume"
  BY <1>2 DEF Setters, volumeSetters, Source, SourceByName
<1>3. CASE k = "pod"
  <2>1. r \in podSetters \cup podPlacement \cup podContents
    BY <1>3 DEF Setters
  <2>2. CASE r \in podSetters
    BY <1>3, <2>2 DEF podSetters
  <2>3. CASE r \in podPlacement
    BY <1>3, <2>3 DEF podPlacement
  <2>4. CASE r \in podContents
    BY <1>3, <2>4 DEF podContents
  <2> QED BY <2>1, <2>2, <2>3, <2>4
<1>4. CASE k = "template"
  <2>1. r \in templateMaps \cup templatePlacement \cup templateTolerations
    BY <1>4 DEF Setters
  <2>2. CASE r \in templateMaps
    BY <1>4, <2>2 DEF templateMaps
  <2>3. CASE r \in templatePlacement
    BY <1>4, <2>3 DEF templatePlacement
  <2>4. CASE r \in templateTolerations
    BY <1>4, <2>4 DEF templateTolerations
  <2> QED BY <2>1, <2>2, <2>3, <2>4
<1>5. CASE k = "deployment"
  <2>1. r \in deploymentMaps \cup deploymentSpec
    BY <1>5 DEF Setters
  <2>2. CASE r \in deploymentMaps
    BY <1>5, <2>2 DEF deploymentMaps
  <2>3. CASE r \in deploymentSpec
    BY <1>5, <2>3 DEF deploymentSpec
  <2> QED BY <2>1, <2>2, <2>3
<1>6. CASE k = "pv"
  <2>1. r \in pvSetters \cup pvPlacement
    BY <1>6 DEF Setters
  <2>2. CASE r \in pvSetters
    BY <1>6, <2>2 DEF pvSetters
  <2>3. CASE r \in pvPlacement
    BY <1>6, <2>3 DEF pvPlacement
  <2> QED BY <2>1, <2>2, <2>3
<1>7. CASE k = "pvc"
  BY <1>7 DEF Setters, pvcSetters
<1> QED BY <1>1, <1>2, <1>3, <1>4, <1>5, <1>6, <1>7 DEF Kinds

\* The caller's cells are a heap.
LEMMA SequenceIsHeap == ASSUME NEW S, NEW h \in Seq(S) PROVE IsHeap(h)
BY DEF IsHeap

\* A new cell leaves the others alone.
LEMMA AppendCell ==
  ASSUME NEW h, IsHeap(h), NEW v, NEW n, n = Append(h, v)
  PROVE  /\ IsHeap(n) /\ Len(n) = Len(h) + 1 /\ n[Len(h) + 1] = v
         /\ \A i \in 1 .. Len(h) : n[i] = h[i]
<1> DEFINE S == {h[i] : i \in DOMAIN h} \cup {v}
<1>1. h \in Seq(S) /\ v \in S
  BY DEF IsHeap
<1> HIDE DEF S
<1>2. /\ n \in Seq(S) /\ Len(n) = Len(h) + 1 /\ n[Len(h) + 1] = v
      /\ \A i \in 1 .. Len(h) : n[i] = h[i]
  BY <1>1
<1>3. IsHeap(n)
  BY <1>2, SequenceIsHeap
<1> QED BY <1>2, <1>3

\* So does a change of one cell.
LEMMA ChangeCell ==
  ASSUME NEW h, IsHeap(h), NEW v, NEW j \in 1 .. Len(h),
         NEW n, n = [h EXCEPT ![j] = v]
  PROVE  /\ IsHeap(n) /\ Len(n) = Len(h) /\ n[j] = v
         /\ \A i \in 1 .. Len(h) : i # j => n[i] = h[i]
<1> DEFINE S == {h[i] : i \in DOMAIN h} \cup {v}
<1>1. h \in Seq(S) /\ v \in S /\ DOMAIN h = 1 .. Len(h)
  BY DEF IsHeap
<1> HIDE DEF S
<1>2. /\ n \in Seq(S) /\ Len(n) = Len(h) /\ n[j] = v
      /\ \A i \in 1 .. Len(h) : i # j => n[i] = h[i]
  BY <1>1
<1>3. IsHeap(n)
  BY <1>2, SequenceIsHeap
<1> QED BY <1>2, <1>3

\* And a change of several.
LEMMA MapCells ==
  ASSUME NEW h, IsHeap(h), NEW n, n = [i \in DOMAIN h |-> n[i]]
  PROVE  IsHeap(n) /\ Len(n) = Len(h) /\ DOMAIN h = 1 .. Len(h)
<1> DEFINE S == {n[i] : i \in DOMAIN n}
<1>1. Len(h) \in Nat /\ DOMAIN h = 1 .. Len(h)
  BY DEF IsHeap
<1>2. DOMAIN n = 1 .. Len(h) /\ n = [i \in 1 .. Len(h) |-> n[i]]
  BY <1>1
<1>3. \A i \in 1 .. Len(h) : n[i] \in S
  BY <1>2
<1> HIDE DEF S
<1>4. n \in Seq(S) /\ Len(n) = Len(h)
  BY <1>1, <1>2, <1>3
<1> QED BY <1>1, <1>4 DEF S, IsHeap

\* How Store changes the heap: not at all, in one cell of b, or by a new cell,
\* which may be behind another list.
Effect(b, r, a, content, cell) ==
  /\ DOMAIN fields' = Builder /\ \A c \in Builder \ {b} : fields'[c] = fields[c]
  /\ DOMAIN fields'[b] = (DOMAIN fields[b] \ r.clears) \cup {r.field, r.also}
  /\ fields'[b][r.field] = cell /\ fields'[b][r.also] = cell
  /\ \A f \in DOMAIN fields'[b] : f \notin {r.field, r.also} => fields'[b][f] = fields[b][f]
  /\ IsHeap(heap') /\ IsHeap(array') /\ Len(array') = Len(heap')
  /\ \A i \in 1 .. Len(heap) : array'[i] = array[i]
  /\ \/ /\ Mode(b, r) = "alias" /\ MayAlias(r) /\ cell = a
        /\ heap' = heap
     \/ /\ Mode(b, r) = "merge" /\ r.store = "merge" /\ Has(b, r.field)
        /\ cell = fields[b][r.field] /\ Len(heap') = Len(heap)
        /\ heap'[cell] = Over(content, heap[cell])
        /\ \A i \in 1 .. Len(heap) : i # cell => heap'[i] = heap[i]
     \/ /\ Mode(b, r) \notin {"alias", "merge"}
        /\ cell = Len(heap) + 1 /\ Len(heap') = Len(heap) + 1
        /\ heap'[cell] = IF Mode(b, r) = "append" THEN Joined(heap[fields[b][r.field]], content)
                         ELSE content
        /\ array'[cell] = IF InPlace(b, r) THEN array[fields[b][r.field]] ELSE cell
        /\ \A i \in 1 .. Len(heap) :
             heap'[i] = IF InPlace(b, r)
                        THEN Overwritten(i, fields[b][r.field], Joined(heap[fields[b][r.field]], content))
                        ELSE heap[i]

\* What Store does, by the mode in which the field is stored.
LEMMA StoreEffect ==
  ASSUME Cells, NEW b \in Builder, NEW r, Disciplined(kind[b], r), NEW a, NEW content,
         Store(b, r, a, content)
  PROVE  Effect(b, r, a, content, Cell(b, r, a))
<1> USE DEF Effect
<1> DEFINE cell == Cell(b, r, a)
           old == fields[b][r.field]
<1>1. /\ DOMAIN fields = Builder /\ IsHeap(heap) /\ IsHeap(array) /\ Len(array) = Len(heap)
      /\ Has(b, r.field) => old \in 1 .. Len(heap)
  BY DEF Cells, TypeOK, CellsExist, Has
<1>2. /\ DOMAIN fields' = Builder /\ \A c \in Builder \ {b} : fields'[c] = fields[c]
      /\ DOMAIN fields'[b] = (DOMAIN fields[b] \ r.clears) \cup {r.field, r.also}
      /\ fields'[b][r.field] = cell /\ fields'[b][r.also] = cell
      /\ \A f \in DOMAIN fields'[b] : f \notin {r.field, r.also} => fields'[b][f] = fields[b][f]
  <2>1. fields' = [fields EXCEPT ![b] = Put(fields[b], r, cell)]
    BY DEF Store
  <2> HIDE DEF cell
  <2>2. /\ DOMAIN fields' = Builder /\ \A c \in Builder \ {b} : fields'[c] = fields[c]
        /\ fields'[b] = Put(fields[b], r, cell)
    BY <1>1, <2>1
  <2> QED BY <2>2 DEF Put
<1>3. CASE Mode(b, r) = "alias"
  <2>1. MayAlias(r)
    BY <1>3 DEF Mode, MayAlias
  <2>2. cell = a /\ heap' = heap /\ array' = array
    BY <1>3 DEF Cell, Store, InPlace
  <2> QED BY <1>1, <1>2, <1>3, <2>1, <2>2
<1>4. CASE Mode(b, r) = "merge"
  <2>1. r.store = "merge" /\ Has(b, r.field)
    BY <1>4 DEF Mode, Disciplined
  <2>2. PICK i, v : /\ i = old /\ v = Over(content, heap[i])
                    /\ cell = i /\ heap' = [heap EXCEPT ![i] = v] /\ array' = array
    BY <1>4 DEF Cell, Store, InPlace
  <2>3. i \in 1 .. Len(heap)
    BY <1>1, <2>1, <2>2
  <2>4. /\ IsHeap(heap') /\ Len(heap') = Len(heap) /\ heap'[i] = v
        /\ \A k \in 1 .. Len(heap) : k # i => heap'[k] = heap[k]
    <3>1. IsHeap(heap) /\ heap' = [heap EXCEPT ![i] = v]
      BY <1>1, <2>2
    <3>2. IsHeap(heap') /\ Len(heap') = Len(heap)
      BY <2>3, <3>1, ChangeCell
    <3>3. heap'[i] = v
      BY <2>3, <3>1, ChangeCell
    <3>4. \A k \in 1 .. Len(heap) : k # i => heap'[k] = heap[k]
      BY <2>3, <3>1, ChangeCell
    <3> QED BY <3>2, <3>3, <3>4
  <2> QED BY <1>1, <1>2, <1>4, <2>1, <2>2, <2>4
<1>5. CASE Mode(b, r) \notin {"alias", "merge"}
  <2>0. cell = Len(heap) + 1
    BY <1>5 DEF Cell
  <2>1. PICK v, h, k :
           /\ v = IF Mode(b, r) = "append" THEN Joined(heap[old], content) ELSE content
           /\ h = IF InPlace(b, r)
                  THEN [i \in DOMAIN heap |-> Overwritten(i, old, Joined(heap[old], content))]
                  ELSE heap
           /\ k = IF InPlace(b, r) THEN array[old] ELSE Len(heap) + 1
           /\ cell = Len(heap) + 1 /\ heap' = Append(h, v) /\ array' = Append(array, k)
    <3>1. CASE InPlace(b, r)
      <4>1. /\ Mode(b, r) = "append" /\ array' = Append(array, array[old])
            /\ heap' = Append([i \in DOMAIN heap |-> Overwritten(i, old, Joined(heap[old], content))],
                              Joined(heap[old], content))
        BY <3>1 DEF Store, InPlace
      <4> QED BY <2>0, <3>1, <4>1
    <3>2. CASE ~InPlace(b, r) /\ Mode(b, r) = "append"
      <4>1. NewCell(Joined(heap[old], content), Len(heap) + 1)
        BY <3>2 DEF Store
      <4> QED BY <2>0, <3>2, <4>1 DEF NewCell
    <3>3. CASE Mode(b, r) # "append"
      <4>1. NewCell(content, Len(heap) + 1) /\ ~InPlace(b, r)
        BY <1>5, <3>3 DEF Store, InPlace
      <4> QED BY <2>0, <3>3, <4>1 DEF NewCell
    <3> QED BY <3>1, <3>2, <3>3
  <2>2. /\ IsHeap(h) /\ Len(h) = Len(heap)
        /\ \A i \in 1 .. Len(heap) :
             h[i] = IF InPlace(b, r) THEN Overwritten(i, old, Joined(heap[old], content)) ELSE heap[i]
    <3>1. CASE InPlace(b, r)
      <4>1. h = [i \in DOMAIN heap |-> Overwritten(i, old, Joined(heap[old], content))]
        BY <2>1, <3>1
      <4>2. h = [i \in DOMAIN heap |-> h[i]]
        BY <4>1
      <4>3. IsHeap(h) /\ Len(h) = Len(heap) /\ DOMAIN heap = 1 .. Len(heap)
        BY <1>1, <4>2, MapCells
      <4> QED BY <3>1, <4>1, <4>3
    <3>2. CASE ~InPlace(b, r)
      BY <1>1, <2>1, <3>2
    <3> QED BY <3>1, <3>2
  <2>3. /\ IsHeap(heap') /\ Len(heap') = Len(heap) + 1 /\ heap'[Len(heap) + 1] = v
        /\ \A i \in 1 .. Len(heap) : heap'[i] = h[i]
    <3>1. IsHeap(h) /\ heap' = Append(h, v)
      BY <2>1, <2>2
    <3>2. IsHeap(heap') /\ Len(heap') = Len(h) + 1
      BY <3>1, AppendCell
    <3>3. heap'[Len(h) + 1] = v
      BY <3>1, AppendCell
    <3>4. \A i \in 1 .. Len(h) : heap'[i] = h[i]
      BY <3>1, AppendCell
    <3> QED BY <2>2, <3>2, <3>3, <3>4
  <2>4. /\ IsHeap(array') /\ Len(array') = Len(heap) + 1 /\ array'[Len(heap) + 1] = k
        /\ \A i \in 1 .. Len(heap) : array'[i] = array[i]
    <3>1. IsHeap(array) /\ array' = Append(array, k) /\ Len(array) = Len(heap)
      BY <1>1, <2>1
    <3>2. IsHeap(array') /\ Len(array') = Len(array) + 1
      BY <3>1, AppendCell
    <3>3. array'[Len(array) + 1] = k
      BY <3>1, AppendCell
    <3>4. \A i \in 1 .. Len(array) : array'[i] = array[i]
      BY <3>1, AppendCell
    <3> QED BY <3>1, <3>2, <3>3, <3>4
  <2> HIDE DEF cell, old
  <2>5. \A i \in 1 .. Len(heap) :
           heap'[i] = IF InPlace(b, r) THEN Overwritten(i, old, Joined(heap[old], content)) ELSE heap[i]
    BY <2>2, <2>3
  <2>6. heap'[cell] = v /\ array'[cell] = k
    BY <2>1, <2>3, <2>4
  <2>7. /\ heap'[cell] = IF Mode(b, r) = "append" THEN Joined(heap[old], content) ELSE content
        /\ array'[cell] = IF InPlace(b, r) THEN array[old] ELSE cell
    BY <2>1, <2>6
  <2>8. cell = Len(heap) + 1 /\ Len(heap') = Len(heap) + 1 /\ Len(array') = Len(heap')
    BY <2>1, <2>3, <2>4
  <2>9. Effect(b, r, a, content, cell)
    BY <1>2, <1>5, <2>3, <2>4, <2>5, <2>7, <2>8 DEF old
  <2> QED BY <2>9 DEF cell
<1> QED BY <1>3, <1>4, <1>5

\* What an append behind a list makes of the lists in its array.
LEMMA OverwrittenKeeps ==
  ASSUME NEW i, NEW o, NEW joined
  PROVE  /\ ~Empty(heap[i]) => ~Empty(Overwritten(i, o, joined))
         /\ array[i] = i \/ array[i] # array[o] => Overwritten(i, o, joined) = heap[i]
BY DEF Empty, Overwritten

LEMMA JoinedIsNotEmpty ==
  ASSUME NEW o, NEW new, ~Empty(o) PROVE ~Empty(Joined(o, new))
BY DEF Empty, Joined, Over

LEMMA OverIsNotEmpty ==
  ASSUME NEW o, NEW new, ~Empty(o) PROVE ~Empty(Over(new, o))
BY DEF Empty, Over

\* A new list continues another only where the caller has room for it.
LEMMA StoreContinued ==
  ASSUME Cells, NEW b \in Builder, NEW r, Disciplined(kind[b], r), NEW a, NEW content, NEW cell,
         MayAlias(r) => a \in 1 .. Len(Given), Effect(b, r, a, content, cell), UNCHANGED caller,
         Builder' = Builder
  PROVE  Continued'
<1> DEFINE old == fields[b][r.field]
<1>1. /\ Len(heap) \in Nat /\ Len(Given) \in Nat /\ Len(Given) <= Len(heap)
      /\ \A i \in 1 .. Len(Given) : array[i] = i
      /\ \A i \in 1 .. Len(heap) : array[i] # i => array[i] \in DOMAIN caller.room /\ ~Empty(heap[i])
      /\ \A c \in Builder : \A f \in DOMAIN fields[c] :
           array[fields[c][f]] # fields[c][f] => f = caller.room[array[fields[c][f]]]
      /\ \A c \in Builder : \A f \in DOMAIN fields[c] : fields[c][f] \in 1 .. Len(heap)
  BY BuildersAssumption DEF Cells, TypeOK, IsHeap, Continued, CellsExist
<1>2. \A i \in 1 .. Len(heap) : array'[i] = array[i]
  BY DEF Effect
<1>3. \A i \in 1 .. Len(Given) : array'[i] = i
  BY <1>1, <1>2
<1>4. /\ InPlace(b, r) => /\ array[old] \in DOMAIN caller.room /\ caller.room[array[old]] = r.field
                          /\ r.store = "append" /\ Has(b, r.field) /\ ~Empty(heap[old])
      /\ \/ heap' = heap /\ cell = a /\ MayAlias(r)
         \/ Len(heap') = Len(heap) /\ cell = old /\ Has(b, r.field) /\ r.store = "merge"
         \/ /\ cell = Len(heap) + 1 /\ Len(heap') = Len(heap) + 1
            /\ array'[cell] = IF InPlace(b, r) THEN array[old] ELSE cell
  BY DEF Effect, InPlace, Mode, Disciplined
<1>5. ASSUME NEW i \in 1 .. Len(heap), ~Empty(heap[i]) PROVE ~Empty(heap'[i])
  <2>1. CASE heap'[i] = heap[i]
    BY <1>5, <2>1
  <2>2. CASE heap'[i] = Over(content, heap[i])
    BY <1>5, <2>2, OverIsNotEmpty
  <2>3. CASE heap'[i] = Overwritten(i, old, Joined(heap[old], content))
    BY <1>5, <2>3, OverwrittenKeeps
  <2> QED BY <2>1, <2>2, <2>3 DEF Effect
<1>6. ASSUME NEW i \in 1 .. Len(heap'), array'[i] # i
      PROVE  array'[i] \in DOMAIN caller.room /\ ~Empty(heap'[i])
  <2>1. CASE i \in 1 .. Len(heap)
    BY <1>1, <1>2, <1>5, <1>6, <2>1
  <2>2. CASE i \notin 1 .. Len(heap)
    <3>1. i = cell /\ InPlace(b, r) /\ array'[cell] = array[old]
      BY <1>1, <1>4, <1>6, <2>2
    <3>2. heap'[cell] = Joined(heap[old], content)
      BY <1>1, <1>4, <2>2, <3>1 DEF Effect, InPlace
    <3>3. ~Empty(Joined(heap[old], content))
      BY <1>4, <3>1, JoinedIsNotEmpty
    <3> QED BY <1>4, <3>1, <3>2, <3>3
  <2> QED BY <2>1, <2>2
<1>7. ASSUME NEW c \in Builder, NEW f \in DOMAIN fields'[c], array'[fields'[c][f]] # fields'[c][f]
      PROVE  f = caller.room[array'[fields'[c][f]]]
  <2>1. CASE f \in DOMAIN fields[c] /\ fields'[c][f] = fields[c][f]
    BY <1>1, <1>2, <1>7, <2>1
  <2>2. CASE c = b /\ f \in {r.field, r.also} /\ fields'[c][f] = cell
    <3>1. CASE cell = a /\ MayAlias(r)
      BY <1>3, <1>7, <2>2, <3>1
    <3>2. CASE cell = old /\ Has(b, r.field) /\ r.store = "merge"
      <4>1. f = r.field
        BY <2>2, <3>2 DEF Disciplined
      <4> QED BY <1>1, <1>2, <1>7, <2>2, <3>2, <4>1 DEF Has
    <3>3. CASE array'[cell] = IF InPlace(b, r) THEN array[old] ELSE cell
      <4>1. InPlace(b, r) /\ array'[cell] = array[old]
        BY <1>7, <2>2, <3>3
      <4>2. r.also = r.field
        BY <1>4, <4>1 DEF Disciplined
      <4> QED BY <1>4, <2>2, <4>1, <4>2
    <3> QED BY <1>4, <3>1, <3>2, <3>3
  <2>3. c # b => DOMAIN fields'[c] = DOMAIN fields[c] /\ fields'[c][f] = fields[c][f]
    BY DEF Effect
  <2>4. c = b => \/ f \in DOMAIN fields[c] /\ fields'[c][f] = fields[c][f]
                 \/ f \in {r.field, r.also} /\ fields'[c][f] = cell
    BY DEF Effect
  <2> QED BY <1>7, <2>1, <2>2, <2>3, <2>4
<1> QED BY <1>3, <1>6, <1>7 DEF Continued

\* Store keeps apart what is apart.
LEMMA StoreCells ==
  ASSUME Cells, NEW b \in Builder, NEW r, Disciplined(kind[b], r), NEW a, NEW content,
         MayAlias(r) => a \in 1 .. Len(Given) /\ (a \in GivenMaps <=> r.field \in MapFields),
         Store(b, r, a, content), UNCHANGED caller,
         DOMAIN asked' = Builder, errs' \in [Builder -> BOOLEAN]
  PROVE  Cells'
<1> DEFINE cell == Cell(b, r, a)
           Same(c, f) == f \in DOMAIN fields[c] /\ fields'[c][f] = fields[c][f]
           Set1(c, f) == c = b /\ f \in {r.field, r.also} /\ fields'[c][f] = cell
<1>0. Effect(b, r, a, content, cell)
  BY StoreEffect
<1> HIDE DEF cell
<1>1. kind' = kind /\ Builder' = Builder
  BY DEF kind, Builder
<1>2. /\ Len(heap) \in Nat /\ Len(Given) \in Nat /\ Len(Given) <= Len(heap)
  BY BuildersAssumption DEF Cells, TypeOK, IsHeap
<1>3. ASSUME NEW c \in Builder, NEW f \in DOMAIN fields'[c] PROVE Same(c, f) \/ Set1(c, f)
  <2>1. CASE c = b
    BY <2>1, <1>0 DEF Effect
  <2>2. CASE c # b
    BY <2>2, <1>0 DEF Effect
  <2> QED BY <2>1, <2>2
<1>4. \/ MayAlias(r) /\ cell = a /\ heap' = heap
      \/ r.store = "merge" /\ Has(b, r.field) /\ cell = fields[b][r.field] /\ Len(heap') = Len(heap)
      \/ cell = Len(heap) + 1 /\ Len(heap') = Len(heap) + 1
  BY <1>0 DEF Effect
<1>5. IsHeap(heap') /\ IsHeap(array') /\ Len(array') = Len(heap') /\ DOMAIN fields' = Builder
  BY <1>0 DEF Effect
<1>6. Len(heap') \in Nat /\ Len(heap) <= Len(heap')
  BY <1>2, <1>4
<1>7. TypeOK'
  BY <1>1, <1>2, <1>5, <1>6 DEF Cells, TypeOK
<1>8. \A c \in Builder : \A f \in DOMAIN fields[c] : fields[c][f] \in 1 .. Len(heap)
  BY DEF Cells, CellsExist
<1>a. Continued'
  BY <1>0, <1>1, StoreContinued
<1>9. CASE r.store = "merge" /\ Has(b, r.field) /\ cell = fields[b][r.field] /\ Len(heap') = Len(heap)
  <2>1. r.also = r.field
    BY <1>9 DEF Disciplined
  <2>2. \A c \in Builder : \A f \in DOMAIN fields'[c] : Same(c, f)
    BY <1>3, <1>9, <2>1 DEF Has
  <2>3. CellsExist' /\ CallersCells'
    BY <1>1, <1>9, <2>2 DEF Cells, CellsExist, CallersCells
  <2>4. SharedCells'
    BY <1>1, <2>2 DEF Cells, SharedCells
  <2> QED BY <1>7, <1>a, <2>3, <2>4 DEF Cells
<1>10. CASE MayAlias(r) /\ cell = a /\ heap' = heap
  <2>1. r.also = r.field /\ (r.field \in MapFields => Aliased(kind[b], r.field))
    BY <1>10 DEF Disciplined, MayAlias
  <2>2. cell \in 1 .. Len(Given) /\ cell \in 1 .. Len(heap) /\ (cell \in GivenMaps <=> r.field \in MapFields)
    BY <1>2, <1>10
  <2>3. CellsExist'
    <3> SUFFICES ASSUME NEW c \in Builder, NEW f \in DOMAIN fields'[c]
                 PROVE  /\ fields'[c][f] \in 1 .. Len(heap')
                        /\ f \in TemplateMaps => kind[c] \in {"template", "deployment"}
                        /\ kind[c] = "template" /\ f \in MapFields => f \in TemplateMaps
      BY <1>1 DEF CellsExist
    <3>1. CASE Same(c, f)
      BY <1>10, <3>1 DEF Cells, CellsExist
    <3>2. CASE Set1(c, f)
      BY <1>10, <2>1, <2>2, <3>2 DEF Disciplined
    <3> QED BY <1>3, <3>1, <3>2
  <2>4. CallersCells'
    <3> SUFFICES ASSUME NEW c \in Builder, NEW f \in DOMAIN fields'[c],
                        fields'[c][f] \in 1 .. Len(Given)
                 PROVE  /\ f \in MapFields <=> fields'[c][f] \in GivenMaps
                        /\ f \in MapFields => Aliased(kind[c], f)
                        /\ kind[c] = "pvc" /\ f = "Labels" =>
                             c \in DOMAIN caller.from /\ fields'[c][f] = caller.from[c]
      BY <1>1 DEF CallersCells
    <3>1. CASE Same(c, f)
      BY <3>1 DEF Cells, CallersCells
    <3>2. CASE Set1(c, f)
      BY <1>10, <2>1, <2>2, <3>2 DEF Disciplined
    <3> QED BY <1>3, <3>1, <3>2
  <2>5. SharedCells'
    <3> SUFFICES ASSUME NEW c \in Builder, NEW d \in Builder,
                        NEW f \in DOMAIN fields'[c], NEW g \in DOMAIN fields'[d],
                        fields'[c][f] = fields'[d][g]
                 PROVE  /\ f \in MapFields <=> g \in MapFields
                        /\ f \in MapFields => \/ c = d /\ f = g
                                              \/ fields'[c][f] \in 1 .. Len(Given)
                                              \/ /\ f = g /\ f \in TemplateMaps
                                                 /\ kind[c] = "deployment" \/ kind[d] = "deployment"
      BY <1>1 DEF SharedCells
    <3>1. CASE Same(c, f) /\ Same(d, g)
      <4>1. /\ f \in DOMAIN fields[c] /\ g \in DOMAIN fields[d] /\ fields[c][f] = fields[d][g]
            /\ fields'[c][f] = fields[c][f]
        BY <3>1
      <4>2. SharedCells
        BY DEF Cells
      <4> QED BY <4>1, <4>2 DEF SharedCells
    <3>2. CASE fields'[c][f] \in 1 .. Len(Given)
      <4>1. /\ f \in MapFields <=> fields'[c][f] \in GivenMaps
            /\ g \in MapFields <=> fields'[c][f] \in GivenMaps
        BY <1>1, <2>4, <3>2 DEF CallersCells
      <4> QED BY <3>2, <4>1
    <3> QED BY <1>3, <2>2, <3>1, <3>2
  <2> QED BY <1>7, <1>a, <2>3, <2>4, <2>5 DEF Cells
<1>11. CASE cell = Len(heap) + 1 /\ Len(heap') = Len(heap) + 1
  <2>1. /\ cell \in 1 .. Len(heap') /\ cell \notin 1 .. Len(Given) /\ cell \notin 1 .. Len(heap)
        /\ \A i \in 1 .. Len(heap) : i \in 1 .. Len(heap')
    BY <1>2, <1>11
  <2>2. r.also = r.field \/ (r.field \notin MapFields /\ r.also \notin MapFields)
    BY DEF Disciplined
  <2>3. CellsExist'
    <3> SUFFICES ASSUME NEW c \in Builder, NEW f \in DOMAIN fields'[c]
                 PROVE  /\ fields'[c][f] \in 1 .. Len(heap')
                        /\ f \in TemplateMaps => kind[c] \in {"template", "deployment"}
                        /\ kind[c] = "template" /\ f \in MapFields => f \in TemplateMaps
      BY <1>1 DEF CellsExist
    <3>1. CASE Same(c, f)
      BY <2>1, <3>1 DEF Cells, CellsExist
    <3>2. CASE Set1(c, f)
      BY <2>1, <2>2, <3>2 DEF Disciplined, TemplateMaps, MapFields
    <3> QED BY <1>3, <3>1, <3>2
  <2>4. CallersCells'
    <3> SUFFICES ASSUME NEW c \in Builder, NEW f \in DOMAIN fields'[c],
                        fields'[c][f] \in 1 .. Len(Given)
                 PROVE  /\ f \in MapFields <=> fields'[c][f] \in GivenMaps
                        /\ f \in MapFields => Aliased(kind[c], f)
                        /\ kind[c] = "pvc" /\ f = "Labels" =>
                             c \in DOMAIN caller.from /\ fields'[c][f] = caller.from[c]
      BY <1>1 DEF CallersCells
    <3>1. Same(c, f)
      BY <1>3, <2>1
    <3> QED BY <3>1 DEF Cells, CallersCells
  <2>5. SharedCells'
    <3> SUFFICES ASSUME NEW c \in Builder, NEW d \in Builder,
                        NEW f \in DOMAIN fields'[c], NEW g \in DOMAIN fields'[d],
                        fields'[c][f] = fields'[d][g]
                 PROVE  /\ f \in MapFields <=> g \in MapFields
                        /\ f \in MapFields => \/ c = d /\ f = g
                                              \/ fields'[c][f] \in 1 .. Len(Given)
                                              \/ /\ f = g /\ f \in TemplateMaps
                                                 /\ kind[c] = "deployment" \/ kind[d] = "deployment"
      BY <1>1 DEF SharedCells
    <3>1. CASE Same(c, f) /\ Same(d, g)
      <4>1. /\ f \in DOMAIN fields[c] /\ g \in DOMAIN fields[d] /\ fields[c][f] = fields[d][g]
            /\ fields'[c][f] = fields[c][f]
        BY <3>1
      <4>2. SharedCells
        BY DEF Cells
      <4> QED BY <4>1, <4>2 DEF SharedCells
    <3>2. CASE Set1(c, f) /\ Set1(d, g)
      BY <2>2, <3>2
    <3> QED BY <1>3, <1>8, <2>1, <3>1, <3>2
  <2> QED BY <1>7, <1>a, <2>3, <2>4, <2>5 DEF Cells
<1> QED BY <1>4, <1>9, <1>10, <1>11

-------------------------------------------------------------------------------
\* A map that is merged into in place is part of no other object, or shared.
LEMMA MergedIsShared ==
  ASSUME Cells, NEW b \in Builder, NEW r, Disciplined(kind[b], r), r.store = "merge", Has(b, r.field),
         NEW c \in Builder, NEW g \in DOMAIN fields[c], fields[c][g] = fields[b][r.field],
         c # b \/ g # r.field
  PROVE  SharedMap(c, g)
<1>1. r.field \in MapFields /\ r.field \in DOMAIN fields[b]
  BY DEF Disciplined, Has
<1>2. /\ g \in MapFields
      /\ \/ fields[b][r.field] \in 1 .. Len(Given)
         \/ g = r.field /\ g \in TemplateMaps /\ (kind[b] = "deployment" \/ kind[c] = "deployment")
  BY <1>1 DEF Cells, SharedCells
<1>3. CASE fields[b][r.field] \in 1 .. Len(Given)
  <2>1. /\ Aliased(kind[b], r.field) /\ fields[c][g] \in GivenMaps
        /\ kind[b] = "pvc" /\ r.field = "Labels" =>
             b \in DOMAIN caller.from /\ caller.from[b] = fields[b][r.field]
    BY <1>1, <1>2, <1>3 DEF Cells, CallersCells
  <2>2. CASE kind[b] = "deployment"
    <3>1. OfKind("deployment") # {}
      BY <2>2 DEF OfKind, Builder
    <3> QED BY <1>2, <2>1, <3>1 DEF SharedMap
  <2>3. CASE kind[b] = "pvc" /\ r.field = "Labels"
    <3>1. /\ b \in DOMAIN caller.from /\ caller.from[b] = fields[c][g] /\ <<b, "Labels">> # <<c, g>>
      BY <2>1, <2>3
    <3> QED BY <3>1 DEF SharedMap
  <2> QED BY <2>1, <2>2, <2>3 DEF Disciplined
<1>4. CASE g = r.field /\ g \in TemplateMaps /\ (kind[b] = "deployment" \/ kind[c] = "deployment")
  <2>1. kind[c] \in {"template", "deployment"}
    BY <1>4 DEF Cells, CellsExist
  <2>2. CASE kind[c] = "deployment"
    BY <1>4, <2>2 DEF SharedMap, TemplateMaps
  <2>3. CASE kind[c] = "template"
    <3>1. kind[b] = "deployment"
      BY <1>4, <2>3
    <3>2. g = "Template.NodeSelector"
      BY <1>4, <3>1 DEF Disciplined
    <3> QED BY <2>3, <3>2 DEF SharedMap
  <2> QED BY <2>1, <2>2, <2>3
<1> QED BY <1>2, <1>3, <1>4

\* What Ask records.
LEMMA AskEffect ==
  ASSUME DOMAIN asked = Builder, NEW b \in Builder, NEW r, NEW content, Ask(b, r, content)
  PROVE  /\ DOMAIN asked' = Builder /\ \A c \in Builder \ {b} : asked'[c] = asked[c]
         /\ DOMAIN asked'[b] = (DOMAIN asked[b] \ r.clears) \cup {r.field, r.also}
         /\ asked'[b][r.field] = Asks(b, r, content) /\ asked'[b][r.also] = Asks(b, r, content)
         /\ \A f \in DOMAIN asked'[b] : f \notin {r.field, r.also} => asked'[b][f] = asked[b][f]
<1>1. PICK v : v = Asks(b, r, content) /\ asked' = [asked EXCEPT ![b] = Put(asked[b], r, v)]
  BY DEF Ask
<1>2. /\ DOMAIN asked' = Builder /\ \A c \in Builder \ {b} : asked'[c] = asked[c]
      /\ asked'[b] = Put(asked[b], r, v)
  BY <1>1
<1> QED BY <1>1, <1>2 DEF Put

Exempt(b, f) == SharedMap(b, f) \/ SharedList(b, f)

\* Only maps are merged into, and only lists are appended to.
LEMMA MapsAndLists ==
  ASSUME Cells, NEW b \in Builder, NEW f \in DOMAIN fields[b]
  PROVE  /\ SharedMap(b, f) => f \in MapFields
         /\ array[fields[b][f]] # fields[b][f] => f \in KeptLists /\ f \notin MapFields
<1>1. caller \in Callers
  BY DEF Cells, TypeOK
<1>2. ASSUME SharedMap(b, f) PROVE f \in MapFields
  <2>1. ASSUME NEW c \in DOMAIN caller.from, caller.from[c] = fields[b][f] PROVE f \in MapFields
    <3>1. fields[b][f] \in GivenMaps /\ fields[b][f] \in 1 .. Len(Given)
      BY <1>1, <2>1, BuildersAssumption
    <3> QED BY <3>1 DEF Cells, CallersCells
  <2> QED BY <1>2, <2>1 DEF SharedMap, MapFields
<1>3. ASSUME array[fields[b][f]] # fields[b][f] PROVE f \in KeptLists
  <2>1. fields[b][f] \in 1 .. Len(heap)
    BY DEF Cells, CellsExist
  <2>2. array[fields[b][f]] \in DOMAIN caller.room /\ f = caller.room[array[fields[b][f]]]
    BY <1>3, <2>1 DEF Cells, Continued
  <2> QED BY <1>1, <2>2, BuildersAssumption
<1> QED BY <1>2, <1>3 DEF KeptLists, MapFields

\* A list that goes on in its array is written to by b, or shared.
LEMMA AppendedIsShared ==
  ASSUME Cells, NEW b \in Builder, NEW r, Disciplined(kind[b], r), InPlace(b, r),
         NEW c \in Builder, NEW g \in DOMAIN fields[c], c # b \/ g # r.field,
         array[fields[c][g]] = array[fields[b][r.field]], array[fields[c][g]] # fields[c][g]
  PROVE  SharedList(c, g)
<1>1. g = caller.room[array[fields[c][g]]]
  BY DEF Cells, Continued
<1>2. r.store = "append" /\ r.field = caller.room[array[fields[b][r.field]]]
  BY DEF InPlace, Mode, Disciplined
<1>3. g = r.field /\ c # b
  BY <1>1, <1>2
<1>4. g \in KeptLists
  BY MapsAndLists
<1>5. AppendsTo(b, g)
  BY <1>2, <1>3, <1>4 DEF Disciplined, AppendsTo
<1> QED BY <1>3, <1>5 DEF SharedList, Builder

\* Store does what Ask records, and nothing to the other objects.
LEMMA StoreFaithful ==
  ASSUME Cells, ObjectIsWhatWasAsked, NEW b \in Builder, NEW r, Disciplined(kind[b], r),
         NEW a, NEW content, Mode(b, r) = "alias" => content = heap[a],
         NEW want, errs'[b] \/ want = content,
         Store(b, r, a, content), Ask(b, r, want), UNCHANGED caller,
         \A c \in Builder : ~errs'[c] => ~errs[c]
  PROVE  ObjectIsWhatWasAsked'
<1> DEFINE cell == Cell(b, r, a)
           old == fields[b][r.field]
<1>0. Effect(b, r, a, content, cell)
  BY StoreEffect
<1> HIDE DEF cell
<1>1. kind' = kind /\ Builder' = Builder
  BY DEF kind, Builder
<1>2. /\ DOMAIN asked' = Builder /\ \A c \in Builder \ {b} : asked'[c] = asked[c]
      /\ DOMAIN asked'[b] = (DOMAIN asked[b] \ r.clears) \cup {r.field, r.also}
      /\ asked'[b][r.field] = Asks(b, r, want) /\ asked'[b][r.also] = Asks(b, r, want)
      /\ \A f \in DOMAIN asked'[b] : f \notin {r.field, r.also} => asked'[b][f] = asked[b][f]
  <2>1. DOMAIN asked = Builder
    BY DEF Cells, TypeOK
  <2> QED BY <2>1, AskEffect
<1>3. ASSUME NEW c \in Builder, NEW f \in DOMAIN fields[c], ~Exempt(c, f), c # b \/ f # r.field
      PROVE  heap'[fields[c][f]] = heap[fields[c][f]]
  <2>1. fields[c][f] \in 1 .. Len(heap)
    BY DEF Cells, CellsExist
  <2>2. CASE r.store = "merge" /\ Has(b, r.field)
    <3>1. fields[c][f] # fields[b][r.field]
      BY <1>3, <2>2, MergedIsShared DEF Exempt
    <3>2. ~InPlace(b, r)
      BY <2>2 DEF InPlace, Mode
    <3> QED BY <1>0, <2>1, <3>1, <3>2 DEF Effect
  <2>3. CASE ~(r.store = "merge" /\ Has(b, r.field)) /\ ~InPlace(b, r)
    BY <1>0, <2>1, <2>3 DEF Effect
  <2>4. CASE InPlace(b, r)
    <3>1. array[fields[c][f]] = fields[c][f] \/ array[fields[c][f]] # array[old]
      BY <1>3, <2>4, AppendedIsShared DEF Exempt
    <3>2. heap'[fields[c][f]] = Overwritten(fields[c][f], old, Joined(heap[old], content))
      BY <1>0, <2>1, <2>4 DEF Effect, InPlace
    <3> QED BY <3>1, <3>2, OverwrittenKeeps
  <2> QED BY <2>2, <2>3, <2>4
\* What is shared stays so while its cell stays.
<1>4. ASSUME NEW c \in Builder, NEW f \in DOMAIN fields[c], fields'[c][f] = fields[c][f], Exempt(c, f)
      PROVE  Exempt(c, f)'
  <2>1. fields[c][f] \in 1 .. Len(heap)
    BY DEF Cells, CellsExist
  <2>2. array'[fields[c][f]] = array[fields[c][f]]
    BY <1>0, <2>1 DEF Effect
  <2> QED BY <1>1, <1>4, <2>2 DEF Exempt, SharedMap, SharedList, OfKind, AppendsTo
<1> SUFFICES ASSUME NEW c \in Builder, ~errs'[c]
             PROVE  /\ DOMAIN asked'[c] = DOMAIN fields'[c]
                    /\ \A f \in DOMAIN asked'[c] : Exempt(c, f)' \/ heap'[fields'[c][f]] = asked'[c][f]
  BY <1>1 DEF ObjectIsWhatWasAsked, Builder, Exempt
<1>5. /\ DOMAIN asked[c] = DOMAIN fields[c]
      /\ \A f \in DOMAIN fields[c] : Exempt(c, f) \/ heap[fields[c][f]] = asked[c][f]
  BY DEF ObjectIsWhatWasAsked, Builder, Exempt
<1>6. ASSUME NEW f \in DOMAIN fields[c], c # b \/ f # r.field,
             fields'[c][f] = fields[c][f], asked'[c][f] = asked[c][f]
      PROVE  Exempt(c, f)' \/ heap'[fields'[c][f]] = asked'[c][f]
  BY <1>3, <1>4, <1>5, <1>6
<1>7. CASE c # b
  BY <1>0, <1>2, <1>5, <1>6, <1>7 DEF Effect
<1>8. CASE c = b
  <2>0. want = content
    BY <1>8
  <2>1. DOMAIN asked'[b] = DOMAIN fields'[b]
    BY <1>0, <1>2, <1>5, <1>8 DEF Effect
  <2>2. ASSUME NEW f \in DOMAIN asked'[b], f \notin {r.field, r.also}
        PROVE  Exempt(b, f)' \/ heap'[fields'[b][f]] = asked'[b][f]
    <3>1. f \in DOMAIN fields[b] /\ fields'[b][f] = fields[b][f] /\ asked'[b][f] = asked[b][f]
      BY <1>0, <1>2, <2>1, <2>2 DEF Effect
    <3> QED BY <1>6, <1>8, <2>2, <3>1
  <2>3. fields'[b][r.field] = cell /\ fields'[b][r.also] = cell
    BY <1>0 DEF Effect
  <2>4. ASSUME ~Exempt(b, r.field)' PROVE heap'[cell] = Asks(b, r, content)
    <3>1. CASE Has(b, r.field)
      <4>0. old \in 1 .. Len(heap) /\ r.field \in DOMAIN asked[b] /\ r.field \in DOMAIN fields[b]
        BY <1>5, <1>8, <3>1 DEF Has, Cells, CellsExist
      <4>1. CASE r.store = "merge"
        <5>1. Mode(b, r) = "merge" /\ cell = old /\ heap'[cell] = Over(content, heap[old])
          BY <1>0, <3>1, <4>1 DEF Effect, Mode
        <5>2. ~Exempt(b, r.field)
          BY <1>4, <2>3, <2>4, <4>0, <5>1
        <5>3. asked[b][r.field] = heap[old]
          BY <1>5, <1>8, <4>0, <5>2
        <5> QED BY <4>0, <4>1, <5>1, <5>3 DEF Asks
      <4>2. CASE r.store = "append"
        <5>1. ~SharedMap(b, r.field)
          BY <4>0, <4>2, MapsAndLists DEF Disciplined
        <5>2. CASE Mode(b, r) = "append"
          <6>1. cell = Len(heap) + 1 /\ heap'[cell] = Joined(heap[old], content)
            BY <1>0, <5>2 DEF Effect
          <6>2. ~SharedList(b, r.field)
            <7>1. CASE InPlace(b, r)
              <8>1. array'[cell] = array[old] /\ array[old] # cell
                <9>1. array'[cell] = array[old]
                  BY <1>0, <5>2, <7>1 DEF Effect
                <9>2. array[old] \in 1 .. Len(Given) /\ Len(Given) \in Nat /\ Len(heap) \in Nat /\ Len(Given) <= Len(heap)
                  BY <7>1, BuildersAssumption DEF InPlace, Cells, TypeOK, IsHeap
                <9> QED BY <6>1, <9>1, <9>2
              <8>2. ASSUME NEW d \in Builder, d # b, AppendsTo(d, r.field) PROVE FALSE
                <9>1. SharedList(b, r.field)'
                  BY <1>1, <2>3, <8>1, <8>2 DEF SharedList, AppendsTo, Builder
                <9> QED BY <2>4, <9>1 DEF Exempt
              <8> QED BY <8>2 DEF SharedList, Builder
            <7>2. CASE ~InPlace(b, r)
              <8>1. array[old] = old
                BY <4>0, <5>2, <7>2 DEF InPlace, Cells, Continued
              <8> QED BY <8>1 DEF SharedList
            <7> QED BY <7>1, <7>2
          <6>3. asked[b][r.field] = heap[old]
            BY <1>5, <1>8, <4>0, <5>1, <6>2 DEF Exempt
          <6> QED BY <4>0, <4>2, <6>1, <6>3 DEF Asks
        <5>3. CASE Mode(b, r) # "append"
          <6>1. Empty(heap[old]) /\ Mode(b, r) = r.first
            BY <3>1, <4>2, <5>3 DEF Mode
          <6>2. ~SharedList(b, r.field)
            BY <4>0, <6>1 DEF SharedList, Cells, Continued
          <6>3. asked[b][r.field] = heap[old]
            BY <1>5, <1>8, <4>0, <5>1, <6>2 DEF Exempt
          <6>4. heap'[cell] = content
            <7>1. ~InPlace(b, r) /\ r.first \in {"copy", "alias"}
              BY <5>3 DEF InPlace, Disciplined
            <7> QED BY <1>0, <5>3, <6>1, <7>1 DEF Effect
          <6> QED BY <4>0, <4>2, <6>1, <6>3, <6>4 DEF Asks, Joined
        <5> QED BY <5>2, <5>3
      <4>3. CASE r.store \notin {"merge", "append"}
        <5>1. Mode(b, r) = r.store /\ ~InPlace(b, r)
          BY <4>3 DEF Mode, InPlace
        <5>2. heap'[cell] = content
          BY <1>0, <4>3, <5>1 DEF Effect
        <5> QED BY <4>3, <5>2 DEF Asks
      <4> QED BY <4>1, <4>2, <4>3
    <3>2. CASE ~Has(b, r.field)
      <4>1. r.field \notin DOMAIN asked[b]
        BY <1>5, <1>8, <3>2 DEF Has
      <4>2. Mode(b, r) \notin {"merge", "append"}
        BY <3>2 DEF Mode, Disciplined
      <4>3. heap'[cell] = content
        BY <1>0, <4>2 DEF Effect
      <4> QED BY <4>1, <4>3 DEF Asks
    <3> QED BY <3>1, <3>2
  <2>5. ASSUME r.also # r.field PROVE heap'[cell] = Asks(b, r, content)
    <3>1. r.store = "copy" /\ Mode(b, r) = "copy"
      BY <2>5 DEF Disciplined, Mode
    <3>2. heap'[cell] = content
      BY <1>0, <3>1 DEF Effect
    <3> QED BY <3>1, <3>2 DEF Asks
  <2>6. ASSUME NEW f \in DOMAIN asked'[b]
        PROVE  Exempt(b, f)' \/ heap'[fields'[b][f]] = asked'[b][f]
    <3>1. CASE f = r.field
      BY <1>2, <2>0, <2>3, <2>4, <3>1
    <3>2. CASE f = r.also /\ f # r.field
      BY <1>2, <2>0, <2>3, <2>5, <3>2
    <3> QED BY <2>2, <2>6, <3>1, <3>2
  <2> QED BY <1>8, <2>1, <2>6
<1> QED BY <1>7, <1>8

-------------------------------------------------------------------------------
\* The calls keep the invariant, and the maps of the caller.

\* A setter that stores its argument.
LEMMA Stored ==
  ASSUME BuildersInv, NEW b \in Builder, NEW r, Disciplined(kind[b], r), NEW a, NEW content,
         MayAlias(r) => /\ a \in 1 .. Len(Given) /\ (a \in GivenMaps <=> r.field \in MapFields)
                        /\ content = heap[a],
         NEW want, errs'[b] \/ want = content,
         Store(b, r, a, content), Ask(b, r, want), UNCHANGED caller,
         errs' \in [Builder -> BOOLEAN], \A c \in Builder : ~errs'[c] => ~errs[c]
  PROVE  BuildersInv' /\ KeepsMaps
<1>0. Cells /\ ObjectIsWhatWasAsked
  BY DEF BuildersInv
<1>1. DOMAIN asked' = Builder
  <2>1. DOMAIN asked = Builder
    BY <1>0 DEF Cells, TypeOK
  <2> QED BY <2>1, AskEffect
<1>2. Cells'
  BY <1>0, <1>1, StoreCells
<1>3. Mode(b, r) = "alias" => content = heap[a]
  BY DEF Mode, MayAlias
<1>4. ObjectIsWhatWasAsked'
  BY <1>0, <1>3, StoreFaithful
<1>5. KeepsMaps
  <2> SUFFICES ASSUME NEW i \in DOMAIN Given, heap'[i] # heap[i]
               PROVE  \/ \E d \in OfKind("deployment") :
                           Has(d, "Template.NodeSelector") /\ fields[d]["Template.NodeSelector"] = i
                      \/ \E c \in DOMAIN caller.from : Has(c, "Labels") /\ fields[c]["Labels"] = i
    BY DEF KeepsMaps
  <2>1. Effect(b, r, a, content, Cell(b, r, a))
    BY <1>0, StoreEffect
  <2>2. /\ i \in 1 .. Len(Given) /\ i \in 1 .. Len(heap)
    BY <1>0, BuildersAssumption DEF Cells, TypeOK, IsHeap
  <2>3. \A o, joined : Overwritten(i, o, joined) = heap[i]
    BY <1>0, <2>2, OverwrittenKeeps DEF Cells, Continued
  <2>4. r.store = "merge" /\ Has(b, r.field) /\ i = fields[b][r.field]
    BY <2>1, <2>2, <2>3 DEF Effect
  <2>5. /\ Aliased(kind[b], r.field)
        /\ kind[b] = "pvc" /\ r.field = "Labels" => b \in DOMAIN caller.from
    BY <1>0, <2>2, <2>4 DEF Cells, CallersCells, Disciplined, Has
  <2>6. CASE kind[b] = "deployment"
    <3>1. r.field = "Template.NodeSelector"
      BY <2>5, <2>6 DEF Aliased
    <3> QED BY <2>4, <2>6, <3>1 DEF OfKind, Builder
  <2>7. CASE kind[b] = "pvc" /\ r.field = "Labels"
    BY <2>4, <2>5, <2>7
  <2> QED BY <2>4, <2>5, <2>6, <2>7 DEF Disciplined
<1> QED BY <1>2, <1>4, <1>5 DEF BuildersInv

\* A call that stores nothing: what it does not record it reports.
LEMMA NothingStored ==
  ASSUME BuildersInv, UNCHANGED <<caller, heap, array, fields>>,
         DOMAIN asked' = Builder, errs' \in [Builder -> BOOLEAN],
         \A c \in Builder : ~errs'[c] => ~errs[c] /\ asked'[c] = asked[c]
  PROVE  BuildersInv' /\ KeepsMaps
<1>1. kind' = kind /\ Builder' = Builder /\ \A c, f : Exempt(c, f)' = Exempt(c, f)
  BY DEF kind, Builder, Exempt, SharedMap, SharedList, AppendsTo, OfKind
<1>2. Cells'
  BY <1>1 DEF BuildersInv, Cells, TypeOK, CellsExist, CallersCells, SharedCells, Continued
<1>3. ObjectIsWhatWasAsked'
  <2>1. \A c \in Builder : ~errs[c] =>
           /\ DOMAIN asked[c] = DOMAIN fields[c]
           /\ \A f \in DOMAIN asked[c] : Exempt(c, f) \/ heap[fields[c][f]] = asked[c][f]
    BY DEF BuildersInv, ObjectIsWhatWasAsked, Exempt, Builder
  <2>2. \A c \in Builder : ~errs'[c] =>
           /\ DOMAIN asked'[c] = DOMAIN fields'[c]
           /\ \A f \in DOMAIN asked'[c] : Exempt(c, f)' \/ heap'[fields'[c][f]] = asked'[c][f]
    BY <1>1, <2>1
  <2> QED BY <1>1, <2>2 DEF ObjectIsWhatWasAsked, Exempt, Builder
<1>4. KeepsMaps
  BY DEF KeepsMaps
<1> QED BY <1>2, <1>3, <1>4 DEF BuildersInv

\* One call of a setter.
LEMMA CallKeeps ==
  ASSUME BuildersInv, NEW b \in Builder, NEW r \in Setters(kind[b]), NEW a \in DOMAIN Given,
         a \in GivenMaps <=> r.field \in MapFields, NEW valid \in BOOLEAN,
         Call(b, r, a, valid), UNCHANGED caller
  PROVE  BuildersInv' /\ KeepsMaps
<1> DEFINE content == Argument(r, heap[a])
<1>1. Disciplined(kind[b], r)
  <2>1. kind[b] \in Kinds
    BY BuildersAssumption DEF BuildersInv, Cells, TypeOK, kind, Builder
  <2> QED BY <2>1, SettersAreDisciplined
<1>2. /\ DOMAIN asked = Builder /\ errs \in [Builder -> BOOLEAN]
      /\ a \in 1 .. Len(Given)
  BY BuildersAssumption DEF BuildersInv, Cells, TypeOK
<1>3. MayAlias(r) => content = heap[a]
  BY <1>1 DEF Disciplined, MayAlias, Argument
<1>4. CASE Empty(content) /\ r.empty = "ignore"
  <2>1. UNCHANGED <<heap, array, fields, errs, asked>>
    BY <1>4 DEF Call
  <2> QED BY <1>2, <2>1, NothingStored
<1>5. CASE ~(Empty(content) /\ r.empty = "ignore")
  <2>1. Ask(b, r, content)
    BY <1>5 DEF Call
  <2>2. DOMAIN asked' = Builder /\ \A c \in Builder \ {b} : asked'[c] = asked[c]
    BY <1>2, <2>1, AskEffect
  <2>3. CASE (Empty(content) /\ r.empty = "refuse") \/ (~valid /\ r.invalid = "refuse")
    <3>1. errs' = [errs EXCEPT ![b] = TRUE] /\ UNCHANGED <<heap, array, fields>>
      BY <1>5, <2>3 DEF Call
    <3>2. errs' \in [Builder -> BOOLEAN] /\ errs'[b] = TRUE /\ \A c \in Builder \ {b} : errs'[c] = errs[c]
      BY <1>2, <3>1
    <3> QED BY <2>2, <3>1, <3>2, NothingStored
  <2>4. CASE ~((Empty(content) /\ r.empty = "refuse") \/ (~valid /\ r.invalid = "refuse"))
    <3>1. Store(b, r, a, content) /\ errs' = [errs EXCEPT ![b] = errs[b] \/ ~valid]
      BY <1>5, <2>4 DEF Call
    <3>2. errs' \in [Builder -> BOOLEAN] /\ \A c \in Builder : ~errs'[c] => ~errs[c]
      BY <1>2, <3>1
    <3> HIDE DEF content
    <3> QED BY <1>1, <1>2, <1>3, <2>1, <3>1, <3>2, Stored
  <2> QED BY <2>3, <2>4
<1> QED BY <1>4, <1>5

\* The builders of a list are built up to the first that fails.
LEMMA FirstFailure ==
  ASSUME NEW list, list \in Seq(Builder)
  PROVE  \E i \in 0 .. Len(list) : /\ \A j \in 1 .. i : ~Fails(list[j])
                                  /\ i < Len(list) => Fails(list[i + 1])
<1> DEFINE T == {i \in 0 .. Len(list) : i < Len(list) => Fails(list[i + 1])}
<1>1. Len(list) \in Nat
  BY LenProperties
<1>2. T \subseteq Nat /\ Len(list) \in T
  BY <1>1
<1>3. PICK i \in T : \A j \in T : ~(<<j, i>> \in OpToRel(<, Nat))
  <2> HIDE DEF T
  <2> QED BY <1>2, NatLessThanWellFounded, WFMin
<1>4. \A j \in T : ~(j < i)
  BY <1>2, <1>3 DEF OpToRel
<1>5. \A j \in 1 .. i : ~Fails(list[j])
  <2> SUFFICES ASSUME NEW j \in 1 .. i, Fails(list[j]) PROVE FALSE
    OBVIOUS
  <2>1. j - 1 \in 0 .. Len(list) /\ (j - 1) + 1 = j /\ j - 1 < i
    BY <1>1
  <2>2. j - 1 \in T
    BY <2>1
  <2> QED BY <1>4, <2>1, <2>2
<1> QED BY <1>5

\* Builders that are handed over: what is left out is reported.
LEMMA WithBuildersKeeps ==
  ASSUME BuildersInv, NEW p \in Builder, NEW f, f \notin MapFields,
         f \in KeptLists => f # "Template.Tolerations" /\ kind[p] = "pod",
         NEW list, list \in Seq(Builder),
         NEW reset \in BOOLEAN, WithBuilders(p, f, list, reset), UNCHANGED caller
  PROVE  BuildersInv' /\ KeepsMaps
<1> DEFINE r == Adds(f, reset)
           Content(i) == SubSeq(list, 1, i)
<1>1. PICK n : /\ n \in 0 .. Len(list)
               /\ n = CHOOSE i \in 0 .. Len(list) :
                        /\ \A j \in 1 .. i : ~Fails(list[j])
                        /\ i < Len(list) => Fails(list[i + 1])
  BY FirstFailure
<1>2. /\ Ask(p, r, list)
      /\ errs' = [b \in DOMAIN kind |->
                    errs[b] \/ (n < Len(list) /\ b \in {p, list[n + 1]}) \/ (b = p /\ list = <<>>)]
      /\ IF (reset /\ n < Len(list)) \/ n = 0 THEN UNCHANGED <<heap, array, fields>>
         ELSE Store(p, r, 0, Content(n))
  BY <1>1 DEF WithBuilders
<1>3. /\ DOMAIN asked = Builder /\ errs \in [Builder -> BOOLEAN]
  BY DEF BuildersInv, Cells, TypeOK
<1>4. Disciplined(kind[p], r) /\ ~MayAlias(r)
  BY DEF Disciplined, MayAlias, Adds, Always, Setter, SetterOf, TemplateMaps, MapFields, KeptLists
<1>5. n = Len(list) => SubSeq(list, 1, n) = list
  OBVIOUS
<1>6. errs' \in [Builder -> BOOLEAN] /\ \A c \in Builder : ~errs'[c] => ~errs[c]
  BY <1>2, <1>3 DEF Builder
<1>7. n < Len(list) => errs'[p]
  BY <1>2 DEF Builder
<1>8. list = <<>> => errs'[p]
  BY <1>2 DEF Builder
<1>9. DOMAIN asked' = Builder /\ \A c \in Builder \ {p} : asked'[c] = asked[c]
  <2> HIDE DEF r
  <2> QED BY <1>2, <1>3, AskEffect
<1>10. n = Len(list) \/ n < Len(list)
  <2>1. Len(list) \in Nat
    BY LenProperties
  <2> QED BY <1>1, <2>1
<1>11. errs'[p] \/ list = Content(n)
  <2>1. CASE n = Len(list)
    BY <1>5, <2>1
  <2>2. CASE n < Len(list)
    BY <1>7, <2>2
  <2> QED BY <1>10, <2>1, <2>2
<1>12. n = 0 => errs'[p]
  <2>1. CASE Len(list) = 0
    BY <1>8, <2>1
  <2>2. CASE n < Len(list)
    BY <1>7, <2>2
  <2> QED BY <1>10, <2>1, <2>2
<1> HIDE DEF r, Content
<1>13. CASE (reset /\ n < Len(list)) \/ n = 0
  <2>1. errs'[p] /\ UNCHANGED <<heap, array, fields>>
    BY <1>2, <1>7, <1>12, <1>13
  <2> QED BY <1>6, <1>9, <2>1, NothingStored
<1>14. CASE ~((reset /\ n < Len(list)) \/ n = 0)
  <2>1. Store(p, r, 0, Content(n))
    BY <1>2, <1>14
  <2> QED BY <1>2, <1>4, <1>6, <1>11, <2>1, Stored
<1> QED BY <1>13, <1>14

\* A deployment takes the cells of its pod template, and they stay the template's.
LEMMA TakenCells ==
  ASSUME Cells, NEW d \in Builder, NEW t \in Builder, kind[d] = "deployment", kind[t] = "template",
         fields' = [fields EXCEPT ![d] = Taken(fields[d], fields[t])], UNCHANGED <<caller, heap, array, errs>>,
         DOMAIN asked' = Builder
  PROVE  Cells'
<1> DEFINE Src(c, f, s) == /\ s \in Builder /\ f \in DOMAIN fields[s] /\ fields'[c][f] = fields[s][f]
                           /\ s = c \/ (c = d /\ s = t)
<1>1. kind' = kind /\ Builder' = Builder
  BY DEF kind, Builder
<1>2. /\ DOMAIN fields' = Builder /\ \A c \in Builder \ {d} : fields'[c] = fields[c]
      /\ fields'[d] = Taken(fields[d], fields[t])
  BY DEF Cells, TypeOK
<1>3. ASSUME NEW c \in Builder, NEW f \in DOMAIN fields'[c] PROVE \E s : Src(c, f, s)
  <2>1. CASE c # d
    BY <1>2, <2>1
  <2>2. CASE c = d /\ f \in DOMAIN fields[t]
    <3>1. fields'[d][f] = fields[t][f]
      BY <1>2, <2>2 DEF Taken
    <3> QED BY <2>2, <3>1
  <2>3. CASE c = d /\ f \notin DOMAIN fields[t]
    <3>1. f \in DOMAIN fields[d] /\ fields'[d][f] = fields[d][f]
      BY <1>2, <2>3 DEF Taken
    <3> QED BY <2>3, <3>1
  <2> QED BY <2>1, <2>2, <2>3
<1>4. TypeOK'
  BY <1>1, <1>2 DEF Cells, TypeOK
<1>5. CellsExist'
  <2> SUFFICES ASSUME NEW c \in Builder, NEW f \in DOMAIN fields'[c]
               PROVE  /\ fields'[c][f] \in 1 .. Len(heap)
                      /\ f \in TemplateMaps => kind[c] \in {"template", "deployment"}
                      /\ kind[c] = "template" /\ f \in MapFields => f \in TemplateMaps
    BY <1>1 DEF CellsExist
  <2>1. PICK s : Src(c, f, s)
    BY <1>3
  <2> QED BY <2>1 DEF Cells, CellsExist
<1>6. CallersCells'
  <2> SUFFICES ASSUME NEW c \in Builder, NEW f \in DOMAIN fields'[c],
                      fields'[c][f] \in 1 .. Len(Given)
               PROVE  /\ f \in MapFields <=> fields'[c][f] \in GivenMaps
                      /\ f \in MapFields => Aliased(kind[c], f)
                      /\ kind[c] = "pvc" /\ f = "Labels" =>
                           c \in DOMAIN caller.from /\ fields'[c][f] = caller.from[c]
    BY <1>1 DEF CallersCells
  <2>1. PICK s : Src(c, f, s)
    BY <1>3
  <2>2. /\ f \in MapFields <=> fields'[c][f] \in GivenMaps
        /\ f \in MapFields => Aliased(kind[s], f)
        /\ kind[s] = "pvc" /\ f = "Labels" =>
             s \in DOMAIN caller.from /\ fields'[c][f] = caller.from[s]
    BY <2>1 DEF Cells, CallersCells
  <2> QED BY <2>1, <2>2 DEF Aliased
<1>7. SharedCells'
  <2> SUFFICES ASSUME NEW c \in Builder, NEW e \in Builder,
                      NEW f \in DOMAIN fields'[c], NEW g \in DOMAIN fields'[e],
                      fields'[c][f] = fields'[e][g]
               PROVE  /\ f \in MapFields <=> g \in MapFields
                      /\ f \in MapFields => \/ c = e /\ f = g
                                            \/ fields'[c][f] \in 1 .. Len(Given)
                                            \/ /\ f = g /\ f \in TemplateMaps
                                               /\ kind[c] = "deployment" \/ kind[e] = "deployment"
    BY <1>1 DEF SharedCells
  <2>1. PICK s : Src(c, f, s)
    BY <1>3
  <2>2. PICK u : Src(e, g, u)
    BY <1>3
  <2>3. /\ f \in MapFields <=> g \in MapFields
        /\ f \in MapFields => \/ s = u /\ f = g
                              \/ fields'[c][f] \in 1 .. Len(Given)
                              \/ /\ f = g /\ f \in TemplateMaps
                                 /\ kind[s] = "deployment" \/ kind[u] = "deployment"
    <3>1. SharedCells /\ fields[s][f] = fields[u][g]
      BY <2>1, <2>2 DEF Cells
    <3> QED BY <2>1, <2>2, <3>1 DEF SharedCells
  <2>4. kind[t] = "template" /\ f \in MapFields /\ f \in DOMAIN fields[t] => f \in TemplateMaps
    BY DEF Cells, CellsExist
  <2> QED BY <2>1, <2>2, <2>3, <2>4
<1>8. Continued'
  <2> SUFFICES ASSUME NEW c \in Builder, NEW f \in DOMAIN fields'[c],
                      array[fields'[c][f]] # fields'[c][f]
               PROVE  f = caller.room[array[fields'[c][f]]]
    BY <1>1 DEF Cells, Continued
  <2>1. PICK s : Src(c, f, s)
    BY <1>3
  <2> QED BY <2>1 DEF Cells, Continued
<1> QED BY <1>4, <1>5, <1>6, <1>7, <1>8 DEF Cells

\* The pod template of a deployment.
LEMMA TemplateKeeps ==
  ASSUME BuildersInv, NEW d \in Builder, NEW t \in Builder, WithPodTemplateSpecBuilder(d, t)
  PROVE  BuildersInv' /\ KeepsMaps
<1>1. /\ kind[d] = "deployment" /\ kind[t] = "template" /\ UNCHANGED <<caller, heap, array>>
      /\ asked' = [asked EXCEPT ![d] = Taken(asked[d], asked[t])]
  BY DEF WithPodTemplateSpecBuilder, Count
<1>2. DOMAIN asked = Builder /\ DOMAIN fields = Builder /\ errs \in [Builder -> BOOLEAN]
  BY DEF BuildersInv, Cells, TypeOK
<1>3. /\ DOMAIN asked' = Builder /\ asked'[d] = Taken(asked[d], asked[t])
      /\ \A c \in Builder \ {d} : asked'[c] = asked[c]
  BY <1>1, <1>2
<1>4. CASE Fails(t)
  <2>1. errs' = [errs EXCEPT ![d] = TRUE] /\ UNCHANGED fields
    BY <1>4 DEF WithPodTemplateSpecBuilder
  <2>2. errs' \in [Builder -> BOOLEAN] /\ errs'[d] /\ \A c \in Builder \ {d} : errs'[c] = errs[c]
    BY <1>2, <2>1
  <2> QED BY <1>1, <1>3, <2>1, <2>2, NothingStored
<1>5. CASE ~Fails(t)
  <2>1. fields' = [fields EXCEPT ![d] = Taken(fields[d], fields[t])] /\ UNCHANGED errs
    BY <1>5 DEF WithPodTemplateSpecBuilder
  <2>2. Cells'
    BY <1>1, <1>3, <2>1, TakenCells DEF BuildersInv
  <2>3. fields'[d] = Taken(fields[d], fields[t]) /\ \A c \in Builder \ {d} : fields'[c] = fields[c]
    BY <1>2, <2>1
  <2>4. kind' = kind /\ Builder' = Builder
    BY <1>1 DEF kind, Builder
  <2>5. /\ DOMAIN asked[t] = DOMAIN fields[t]
        /\ \A f \in DOMAIN asked[t] : Exempt(t, f) \/ heap[fields[t][f]] = asked[t][f]
    BY <1>5 DEF BuildersInv, ObjectIsWhatWasAsked, Fails, Builder, Exempt
\* What is shared stays so, and what the template shares the deployment does too.
  <2>6. ASSUME NEW c \in Builder, NEW s \in Builder, NEW f \in DOMAIN fields[s], Exempt(s, f),
               fields'[c][f] = fields[s][f], s = c \/ (c = d /\ s = t)
        PROVE  Exempt(c, f)'
    <3>1. CASE s = c
      BY <1>1, <2>4, <2>6, <3>1 DEF Exempt, SharedMap, SharedList, OfKind, AppendsTo
    <3>2. CASE c = d /\ s = t /\ SharedList(t, f)
      <4>1. PICK u \in Builder : u # t /\ AppendsTo(u, f)
        BY <3>2 DEF SharedList, Builder
      <4>2. u # d
        BY <1>1, <4>1 DEF AppendsTo
      <4>3. SharedList(d, f)'
        BY <1>1, <2>4, <2>6, <3>2, <4>1, <4>2 DEF SharedList, AppendsTo, Builder
      <4> QED BY <3>2, <4>3 DEF Exempt
    <3>3. CASE c = d /\ s = t /\ SharedMap(t, f)
      <4>1. f \in MapFields
        BY <2>6, <3>3, MapsAndLists DEF BuildersInv
      <4>2. f \in TemplateMaps
        BY <1>1, <2>6, <3>3, <4>1 DEF BuildersInv, Cells, CellsExist
      <4>3. SharedMap(d, f)'
        BY <1>1, <2>4, <4>2 DEF SharedMap, TemplateMaps
      <4> QED BY <3>3, <4>3 DEF Exempt
    <3> QED BY <2>6, <3>1, <3>2, <3>3 DEF Exempt
  <2>7. ObjectIsWhatWasAsked'
    <3> SUFFICES ASSUME NEW c \in Builder, ~errs[c]
                 PROVE  /\ DOMAIN asked'[c] = DOMAIN fields'[c]
                        /\ \A f \in DOMAIN asked'[c] : Exempt(c, f)' \/ heap[fields'[c][f]] = asked'[c][f]
      BY <1>1, <2>1, <2>4 DEF ObjectIsWhatWasAsked, Builder, Exempt
    <3>1. /\ DOMAIN asked[c] = DOMAIN fields[c]
          /\ \A f \in DOMAIN asked[c] : Exempt(c, f) \/ heap[fields[c][f]] = asked[c][f]
      BY DEF BuildersInv, ObjectIsWhatWasAsked, Builder, Exempt
    <3>2. CASE c # d
      <4>1. asked'[c] = asked[c] /\ fields'[c] = fields[c]
        BY <1>3, <2>3, <3>2
      <4> QED BY <2>6, <3>1, <4>1
    <3>3. CASE c = d
      <4>1. DOMAIN asked'[d] = DOMAIN fields'[d]
        BY <1>3, <2>3, <2>5, <3>1, <3>3 DEF Taken
      <4>2. ASSUME NEW f \in DOMAIN asked'[d]
            PROVE  Exempt(d, f)' \/ heap[fields'[d][f]] = asked'[d][f]
        <5>1. CASE f \in DOMAIN fields[t]
          <6>1. asked'[d][f] = asked[t][f] /\ fields'[d][f] = fields[t][f]
            BY <1>3, <2>3, <2>5, <5>1 DEF Taken
          <6>2. Exempt(t, f) => Exempt(d, f)'
            BY <2>6, <5>1, <6>1
          <6> QED BY <2>5, <5>1, <6>1, <6>2
        <5>2. CASE f \notin DOMAIN fields[t]
          <6>1. f \in DOMAIN fields[d] /\ asked'[d][f] = asked[d][f] /\ fields'[d][f] = fields[d][f]
            BY <1>3, <2>3, <2>5, <3>1, <3>3, <4>2, <5>2 DEF Taken
          <6>2. Exempt(d, f) => Exempt(d, f)'
            BY <2>6, <6>1
          <6> QED BY <3>1, <3>3, <6>1, <6>2
        <5> QED BY <5>1, <5>2
      <4> QED BY <3>3, <4>1, <4>2
    <3> QED BY <3>2, <3>3
  <2>8. KeepsMaps
    BY <1>1 DEF KeepsMaps
  <2> QED BY <2>2, <2>7, <2>8 DEF BuildersInv
<1> QED BY <1>4, <1>5

-------------------------------------------------------------------------------
(***************************************************************************)
(* Every call of every caller keeps the invariant of the builders, and the *)
(* maps and lists of the caller but for the two exceptions of KeepsMaps.   *)
(***************************************************************************)
LEMMA BuildersStep ==
  ASSUME BuildersInv, [Next]_vars
  PROVE  BuildersInv' /\ (vars' # vars => KeepsMaps)
<1>1. DOMAIN asked = Builder /\ errs \in [Builder -> BOOLEAN]
  BY DEF BuildersInv, Cells, TypeOK
<1>2. CASE UNCHANGED vars
  <2>1. UNCHANGED <<caller, heap, array, fields, errs, asked>>
    BY <1>2 DEF vars
  <2> QED BY <1>1, <2>1, NothingStored
<1>3. CASE Next
  <2>0. PICK b \in Builder :
          \/ With(b) \/ Build(b) \/ WithContainersAndVolumes(b)
          \/ \E f \in {"Name", "Env"} : AddCheck(b, f)
          \/ \E t \in Builder : WithPodTemplateSpecBuilder(b, t)
    BY <1>3 DEF Next, Builder
  <2>1. CASE With(b)
    <3>1. PICK r \in Setters(kind[b]), a \in DOMAIN Given :
            /\ a \in GivenMaps <=> r.field \in MapFields
            /\ \E valid \in BOOLEAN : Call(b, r, a, valid)
      BY <2>1 DEF With
    <3>2. UNCHANGED caller
      BY <2>1 DEF With, Count
    <3> QED BY <3>1, <3>2, CallKeeps
  <2>2. CASE Build(b)
    <3>1. errs' = [errs EXCEPT ![b] = Fails(b)] /\ UNCHANGED <<caller, heap, array, fields, asked>>
      BY <2>2 DEF Build, Count
    <3>2. errs' \in [Builder -> BOOLEAN] /\ \A c \in Builder : ~errs'[c] => ~errs[c]
      BY <1>1, <3>1 DEF Fails
    <3> QED BY <1>1, <3>1, <3>2, NothingStored
  <2>3. CASE WithContainersAndVolumes(b)
    <3>1. PICK k \in {"container", "volume"} :
            \/ kind[b] = "pod" /\ \E c \in OfKind(k) :
                 WithBuilders(b, IF k = "container" THEN "Containers" ELSE "Volumes", <<c>>, FALSE)
            \/ \E list \in BoundedSeq(OfKind(k), MaxList), reset \in BOOLEAN :
                 WithBuilders(b, IF k = "container" THEN "Template.Containers" ELSE "Template.Volumes",
                              list, reset)
      BY <2>3 DEF WithContainersAndVolumes
    <3>2. UNCHANGED caller
      BY <2>3 DEF WithContainersAndVolumes, Count
    <3>3. OfKind(k) \subseteq Builder
      BY DEF OfKind, Builder
    <3>4. CASE kind[b] = "pod" /\ \E c \in OfKind(k) :
                 WithBuilders(b, IF k = "container" THEN "Containers" ELSE "Volumes", <<c>>, FALSE)
      <4>1. PICK c, f, list :
              /\ c \in OfKind(k) /\ f = IF k = "container" THEN "Containers" ELSE "Volumes"
              /\ list = <<c>> /\ WithBuilders(b, f, list, FALSE)
        BY <3>4
      <4>2. f \notin MapFields /\ list \in Seq(Builder) /\ f # "Template.Tolerations" /\ kind[b] = "pod"
        BY <3>3, <3>4, <4>1 DEF MapFields
      <4> QED BY <3>2, <4>1, <4>2, WithBuildersKeeps
    <3>5. CASE \E list \in BoundedSeq(OfKind(k), MaxList), reset \in BOOLEAN :
                 WithBuilders(b, IF k = "container" THEN "Template.Containers" ELSE "Template.Volumes",
                              list, reset)
      <4>1. PICK list, reset, f :
              /\ list \in BoundedSeq(OfKind(k), MaxList) /\ reset \in BOOLEAN
              /\ f = IF k = "container" THEN "Template.Containers" ELSE "Template.Volumes"
              /\ WithBuilders(b, f, list, reset)
        BY <3>5
      <4>2. f \notin MapFields /\ f \notin KeptLists
        BY <4>1 DEF MapFields, KeptLists
      <4>3. list \in Seq(Builder)
        BY <3>3, <4>1, BuildersAssumption DEF BoundedSeq, SeqOf
      <4> QED BY <3>2, <4>1, <4>2, <4>3, WithBuildersKeeps
    <3> QED BY <3>1, <3>4, <3>5
  <2>4. CASE \E f \in {"Name", "Env"} : AddCheck(b, f)
    <3>1. UNCHANGED <<caller, heap, array, fields, errs, asked>>
      BY <2>4 DEF AddCheck, Count
    <3> QED BY <1>1, <3>1, NothingStored
  <2>5. CASE \E t \in Builder : WithPodTemplateSpecBuilder(b, t)
    BY <2>5, TemplateKeeps
  <2> QED BY <2>0, <2>1, <2>2, <2>3, <2>4, <2>5
<1> QED BY <1>2, <1>3

(***************************************************************************)
(* The invariant of the builders: which cell is part of which objects, and *)
(* that an object that can be built is what was asked of its builder.      *)
(***************************************************************************)
THEOREM BuildersInvariance == Spec => []BuildersInv
<1>1. Init => BuildersInv
  <2> SUFFICES ASSUME Init PROVE BuildersInv
    OBVIOUS
  <2>1. /\ caller \in Callers /\ heap = Given /\ array = [i \in DOMAIN Given |-> i]
        /\ fields = [b \in Builder |-> BuildFrom(b)]
        /\ asked = [b \in Builder |-> [f \in DOMAIN BuildFrom(b) |-> Given[BuildFrom(b)[f]]]]
        /\ errs = [b \in Builder |-> FALSE]
    BY DEF Init, Builder
  <2>2. Len(Given) \in Nat /\ DOMAIN Given = 1 .. Len(Given) /\ IsHeap(Given)
    <3>1. Len(Given) \in Nat /\ DOMAIN Given = 1 .. Len(Given) /\ Given = [i \in 1 .. Len(Given) |-> Given[i]]
      BY BuildersAssumption
    <3>2. Given \in Seq({Given[i] : i \in DOMAIN Given})
      BY <3>1
    <3> QED BY <3>1, <3>2 DEF IsHeap
  <2>3. /\ IsHeap(array) /\ Len(array) = Len(heap)
        /\ \A i \in 1 .. Len(Given) : array[i] = i
    <3>1. array = [i \in DOMAIN Given |-> array[i]] /\ \A i \in DOMAIN Given : array[i] = i
      BY <2>1
    <3>2. IsHeap(array) /\ Len(array) = Len(Given)
      BY <2>2, <3>1, MapCells
    <3> QED BY <2>1, <2>2, <3>1, <3>2
  <2>4. \A b \in Builder : fields[b] = BuildFrom(b) /\ asked[b] = [f \in DOMAIN fields[b] |-> heap[fields[b][f]]]
    BY <2>1
  <2>5. ASSUME NEW b \in Builder, NEW f \in DOMAIN fields[b]
        PROVE  /\ f = "Labels" /\ kind[b] = "pvc" /\ b \in DOMAIN caller.from
               /\ fields[b][f] = caller.from[b] /\ fields[b][f] \in GivenMaps
               /\ fields[b][f] \in 1 .. Len(Given)
    <3>0. CASE b \notin DOMAIN caller.from
      <4>1. fields[b] = <<>>
        BY <2>4, <3>0 DEF BuildFrom
      <4>2. DOMAIN fields[b] = {}
        BY <4>1
      <4> QED BY <2>5, <4>2
    <3>1. CASE b \in DOMAIN caller.from
      <4>1. fields[b] = [g \in {"Labels"} |-> caller.from[b]]
        BY <2>4, <3>1 DEF BuildFrom
      <4>2. f = "Labels" /\ fields[b][f] = caller.from[b]
        BY <2>5, <4>1
      <4> QED BY <2>1, <2>2, <3>1, <4>2, BuildersAssumption DEF kind
    <3> QED BY <3>0, <3>1
  <2>6. Cells
    <3>1. TypeOK
      BY <2>1, <2>2, <2>3 DEF TypeOK
    <3>2. CellsExist /\ CallersCells
      BY <2>1, <2>5 DEF CellsExist, CallersCells, TemplateMaps, MapFields, Aliased
    <3>3. SharedCells
      BY <2>5 DEF SharedCells
    <3>4. Continued
      BY <2>1, <2>3, <2>5 DEF Continued
    <3> QED BY <3>1, <3>2, <3>3, <3>4 DEF Cells
  <2>7. ObjectIsWhatWasAsked
    <3>1. \A b \in Builder : /\ DOMAIN asked[b] = DOMAIN fields[b]
                             /\ \A f \in DOMAIN asked[b] : heap[fields[b][f]] = asked[b][f]
      <4> SUFFICES ASSUME NEW b \in Builder
                   PROVE  /\ DOMAIN asked[b] = DOMAIN fields[b]
                          /\ \A f \in DOMAIN asked[b] : heap[fields[b][f]] = asked[b][f]
        OBVIOUS
      <4>1. asked[b] = [f \in DOMAIN fields[b] |-> heap[fields[b][f]]]
        BY <2>4
      <4> QED BY <4>1
    <3> QED BY <3>1 DEF ObjectIsWhatWasAsked, Builder
  <2> QED BY <2>6, <2>7 DEF BuildersInv
<1>2. BuildersInv /\ [Next]_vars => BuildersInv'
  BY BuildersStep
<1> QED BY <1>1, <1>2, PTL DEF Spec

(***************************************************************************)
(* Whatever the callers and however many their calls, a builder without an *)
(* error has built what it was asked for: no setter drops its argument in  *)
(* silence and no map or list changes behind the back of its object, but   *)
(* for the maps that a deployment shares with its template or its caller,  *)
(* the labels that a PVC builder started from, and the lists with room     *)
(* behind them that two builders append to.                                *)
(***************************************************************************)
THEOREM ObjectsAreFaithful == Spec => []ObjectIsWhatWasAsked
<1>1. BuildersInv => ObjectIsWhatWasAsked
  BY DEF BuildersInv
<1> QED BY <1>1, BuildersInvariance, PTL

(***************************************************************************)
(* No call writes to a map or to the elements of a list of the caller, but *)
(* to the node selector of a deployment and to the labels that a PVC       *)
(* builder started from.                                                   *)
(***************************************************************************)
THEOREM CallersKeepTheirMaps == Spec => CallersMapsAreKept
<1>1. BuildersInv /\ [Next]_vars => [KeepsMaps]_vars
  BY BuildersStep
<1> QED BY <1>1, BuildersInvariance, PTL DEF Spec, CallersMapsAreKept
===============================================================================
