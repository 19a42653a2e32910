----------------------------- MODULE LibraryProofs -----------------------------
(***************************************************************************)
(* Theorems about the configuration of the node disk manager, for every    *)
(* set of paths, every text of the list and every number of writers and of *)
(* edits; about the rollout status, for every number of replicas, of       *)
(* changes of the specification and of surplus pods; and about the clients *)
(* of the API server, for every set of clusters, names and lists, inside a *)
(* cluster and outside, and for every number of calls.                     *)
(***************************************************************************)
EXTENDS NdmConfig, Rollout, KubeClient, SequenceTheorems, FiniteSetTheorems,
        WellFoundedInduction, TLAPS

-------------------------------------------------------------------------------
\* The list that the node disk manager runs with.

EditType == DOMAIN edit = Writers

\* Who has patched the ConfigMap, and has not restarted the pod, is still at it.
RestartIsPending ==
  ~failed /\ running # stored => \E w \in Writers : edit[w].pc = "restart"

NdmInv == EditType /\ RestartIsPending

\* The steps of one writer leave those of the others alone.
LEMMA OneEdit ==
  ASSUME NEW w \in Writers, EditType, NEW e, edit' = [edit EXCEPT ![w] = e]
  PROVE  /\ EditType' /\ edit'[w] = e
         /\ \A o \in Writers \ {w} : edit'[o] = edit[o]
BY DEF EditType

LEMMA NdmStep == ASSUME NdmInv, [NdmNext]_ndmVars PROVE NdmInv'
<1> USE DEF NdmInv
<1>1. CASE UNCHANGED ndmVars
  BY <1>1 DEF ndmVars, EditType, RestartIsPending
<1>2. ASSUME NEW w \in Writers, NEW option, NEW path, PathFilterExclude(w, option, path)
      PROVE  NdmInv'
  <2>1. CASE UNCHANGED edit
    BY <1>2, <2>1 DEF PathFilterExclude, EditType, RestartIsPending
  <2>2. CASE edit # edit'
    <3>1. PICK e : edit' = [edit EXCEPT ![w] = e]
      BY <1>2, <2>2 DEF PathFilterExclude
    <3>2. edit[w].pc = "idle" /\ UNCHANGED <<stored, running, failed>>
      BY <1>2 DEF PathFilterExclude
    <3> QED BY <3>1, <3>2, OneEdit DEF RestartIsPending
  <2> QED BY <2>1, <2>2
<1>3. ASSUME NEW w \in Writers, Patch(w) PROVE NdmInv'
  <2>1. PICK o, p, a, b : edit' = [edit EXCEPT ![w] = Edit("restart", o, p, a, b)]
    BY <1>3 DEF Patch
  <2>2. EditType' /\ edit'[w] = Edit("restart", o, p, a, b)
    BY <2>1, OneEdit
  <2>3. edit'[w].pc = "restart"
    BY <2>2 DEF Edit
  <2> QED BY <2>2, <2>3 DEF RestartIsPending
<1>4. ASSUME NEW w \in Writers, PatchFails(w) PROVE NdmInv'
  BY <1>4, OneEdit DEF PatchFails, RestartIsPending
<1>5. ASSUME NEW w \in Writers, Restart(w) \/ RestartFails(w) PROVE NdmInv'
  BY <1>5, OneEdit DEF Restart, RestartFails, RestartIsPending
<1> QED BY <1>1, <1>2, <1>3, <1>4, <1>5 DEF NdmNext

(***************************************************************************)
(* However the edits of several writers overlap, once they have ended the  *)
(* node disk manager runs with the list that is stored, unless a restart   *)
(* failed.                                                                 *)
(***************************************************************************)
THEOREM EditsTakeEffect == NdmSpec => []StoredIsInForce
<1>1. NdmInit => NdmInv
  BY DEF NdmInit, NdmInv, EditType, RestartIsPending
<1>2. NdmInv => StoredIsInForce
  BY DEF NdmInv, RestartIsPending, StoredIsInForce
<1> QED BY <1>1, <1>2, NdmStep, PTL DEF NdmSpec

-------------------------------------------------------------------------------
\* The texts of the list: what an edit does to the paths in it.

\* A set of numbers that is not empty has a least one.
LEMMA LeastNumber ==
  ASSUME NEW T, T \subseteq Nat, T # {}
  PROVE  \E n \in T : \A m \in T : n <= m
<1>1. PICK n \in T : \A m \in T : ~(<<m, n>> \in OpToRel(<, Nat))
  BY NatLessThanWellFounded, WFMin
<1>2. \A m \in T : ~(m < n)
  BY <1>1 DEF OpToRel
<1> QED BY <1>2

\* What texts are made of.
Token == STRING \cup {Comma}

\* Texts that agree in every place are the same.
LEMMA SameText ==
  ASSUME NEW x \in Seq(Token), NEW y \in Seq(Token), NEW k \in Nat, Len(x) = k, Len(y) = k,
         \A i \in 1 .. k : x[i] = y[i]
  PROVE  x = y
OBVIOUS

\* The tokens of a piece of a text.
LEMMA Piece ==
  ASSUME NEW t \in Seq(Token), NEW a \in Nat, NEW b \in Nat, a >= 1, a <= b + 1, b <= Len(t)
  PROVE  /\ SubSeq(t, a, b) \in Seq(Token) /\ Len(SubSeq(t, a, b)) = b - a + 1
         /\ \A i \in 1 .. b - a + 1 : SubSeq(t, a, b)[i] = t[a + i - 1]
<1>1. \A i \in a .. b : t[i] \in Token
  OBVIOUS
<1>2. a \in Int /\ b \in Int /\ (a <= b \/ b - a + 1 = 0)
  OBVIOUS
<1>3. /\ SubSeq(t, a, b) \in Seq(Token) /\ Len(SubSeq(t, a, b)) = IF a <= b THEN b - a + 1 ELSE 0
      /\ \A i \in 1 .. b - a + 1 : SubSeq(t, a, b)[i] = t[a + i - 1]
  BY <1>1, <1>2, SubSeqProperties
<1> QED BY <1>2, <1>3

\* The places a to b of a text hold an entry.
Entry(t, a, b) ==
  /\ a \in 1 .. Len(t) /\ b \in 1 .. Len(t) /\ a <= b
  /\ \A i \in a .. b : t[i] # Comma
  /\ a = 1 \/ t[a - 1] = Comma
  /\ b = Len(t) \/ t[b + 1] = Comma

\* Entries, by the places where they are.
LEMMA EntriesAre ==
  ASSUME NEW t, NEW e
  PROVE  e \in Entries(t) <=> \E a, b : Entry(t, a, b) /\ e = SubSeq(t, a, b)
<1> DEFINE S == {s \in (1 .. Len(t)) \X (1 .. Len(t)) :
                   /\ s[1] <= s[2] /\ \A i \in s[1] .. s[2] : t[i] # Comma
                   /\ s[1] = 1 \/ t[s[1] - 1] = Comma
                   /\ s[2] = Len(t) \/ t[s[2] + 1] = Comma}
<1>1. e \in Entries(t) <=> \E s \in S : e = SubSeq(t, s[1], s[2])
  BY DEF Entries
<1>2. ASSUME NEW s \in S PROVE Entry(t, s[1], s[2])
  BY DEF Entry
<1>3. ASSUME NEW a, NEW b, Entry(t, a, b) PROVE \E s \in S : s[1] = a /\ s[2] = b
  <2>0. PICK s : s = <<a, b>>
    OBVIOUS
  <2>1. s[1] = a /\ s[2] = b
    BY <2>0
  <2>2. s \in S
    BY <1>3, <2>0, <2>1 DEF Entry
  <2> QED BY <2>1, <2>2
<1> HIDE DEF S
<1> QED BY <1>1, <1>2, <1>3

\* Every place that is no comma is in an entry.
LEMMA InEntry ==
  ASSUME NEW t \in Seq(Token), NEW i \in 1 .. Len(t), t[i] # Comma
  PROVE  \E a, b : Entry(t, a, b) /\ a <= i /\ i <= b
<1>0. PICK n \in Nat : n = Len(t)
  OBVIOUS
<1> DEFINE B == {k \in i .. n : k = n \/ t[k + 1] = Comma}
           A == {k \in 0 .. i - 1 : i - k = 1 \/ t[i - k - 1] = Comma}
<1>1. PICK b \in B : \A k \in B : b <= k
  <2>1. B \subseteq Nat /\ n \in B
    BY <1>0
  <2> HIDE DEF B
  <2> QED BY <2>1, LeastNumber
<1>2. PICK d \in A : \A k \in A : d <= k
  <2>1. A \subseteq Nat /\ i - 1 \in A
    BY <1>0
  <2> HIDE DEF A
  <2> QED BY <2>1, LeastNumber
<1>3. ASSUME NEW j \in i .. b PROVE t[j] # Comma
  <2>1. CASE j = i
    BY <2>1
  <2>2. CASE j # i
    <3>1. j - 1 \in i .. n /\ ~(b <= j - 1) /\ j - 1 + 1 = j
      BY <1>1, <2>2
    <3> QED BY <1>1, <3>1
  <2> QED BY <2>1, <2>2
<1>4. ASSUME NEW j \in i - d .. i PROVE t[j] # Comma
  <2>1. CASE j = i
    BY <2>1
  <2>2. CASE j # i
    <3>1. i - (j + 1) \in 0 .. i - 1 /\ ~(d <= i - (j + 1)) /\ i - (i - (j + 1)) - 1 = j
      BY <1>2, <2>2
    <3> QED BY <1>2, <3>1
  <2> QED BY <2>1, <2>2
<1>5. i - d \in 1 .. n /\ b \in 1 .. n /\ i - d <= i /\ i <= b
  BY <1>0, <1>1, <1>2
<1>6. \A j \in i - d .. b : j \in i .. b \/ j \in i - d .. i
  BY <1>5
<1>7. Entry(t, i - d, b)
  BY <1>0, <1>1, <1>2, <1>3, <1>4, <1>5, <1>6 DEF Entry
<1> QED BY <1>5, <1>7

\* A text after another: the entries of v that do not touch its beginning, or all
\* of them if the first text ends with a comma.
Joined(t, p, v) ==
  /\ p \in Seq(Token) /\ v \in Seq(Token) /\ t \in Seq(Token) /\ Len(t) = Len(p) + Len(v)
  /\ \A i \in 1 .. Len(p) : t[i] = p[i]
  /\ \A i \in 1 .. Len(v) : t[Len(p) + i] = v[i]

LEMMA JoinedIs ==
  ASSUME NEW p \in Seq(Token), NEW v \in Seq(Token)
  PROVE  Joined(p \o v, p, v)
BY DEF Joined

SameEntry(t, c, d, v, a, b) ==
  /\ Entry(t, c, d) <=> Entry(v, a, b)
  /\ Entry(v, a, b) => SubSeq(t, c, d) = SubSeq(v, a, b)

MayBegin(p, a) == a > 1 \/ (a = 1 /\ Len(p) > 0 /\ p[Len(p)] = Comma)

LEMMA Shifted ==
  ASSUME NEW t, NEW p, NEW v, Joined(t, p, v), NEW m \in Nat, m = Len(p),
         NEW a \in Nat, NEW b \in Nat, MayBegin(p, a),
         NEW c, c = m + a, NEW d, d = m + b
  PROVE  SameEntry(t, c, d, v, a, b)
<1>0. PICK n \in Nat : n = Len(v)
  BY DEF Joined
<1>1. t \in Seq(Token) /\ Len(t) = m + n /\ v \in Seq(Token)
  BY <1>0 DEF Joined
<1>2. (\A i \in 1 .. m : t[i] = p[i]) /\ \A i \in 1 .. n : t[m + i] = v[i]
  BY <1>0 DEF Joined
<1>r. a > 1 \/ (a = 1 /\ m > 0 /\ p[m] = Comma)
  BY DEF MayBegin
<1>3. ASSUME Entry(v, a, b) PROVE Entry(t, m + a, m + b)
  <2>1. a \in 1 .. n /\ b \in 1 .. n /\ a <= b
    BY <1>0, <1>3 DEF Entry
  <2>2. ASSUME NEW i \in m + a .. m + b PROVE t[i] # Comma
    <3>1. PICK j \in a .. b : j \in 1 .. n /\ m + j = i
      <4>1. i - m \in a .. b /\ i - m \in 1 .. n /\ m + (i - m) = i
        BY <2>1
      <4> QED BY <4>1
    <3>2. v[j] # Comma
      BY <1>3 DEF Entry
    <3> QED BY <1>2, <3>1, <3>2
  <2>3. m + a = 1 \/ t[(m + a) - 1] = Comma
    <3>1. CASE a > 1
      <4>1. a - 1 \in 1 .. n /\ m + (a - 1) = m + a - 1
        BY <2>1, <3>1
      <4> QED BY <1>2, <1>3, <3>1, <4>1 DEF Entry
    <3>2. CASE a = 1 /\ m > 0 /\ p[m] = Comma
      BY <1>2, <3>2
    <3> QED BY <1>r, <3>1, <3>2
  <2>4. m + b = m + n \/ t[m + b + 1] = Comma
    <3>1. CASE b # n
      <4>1. b + 1 \in 1 .. n /\ m + (b + 1) = m + b + 1
        BY <2>1, <3>1
      <4> QED BY <1>0, <1>2, <1>3, <3>1, <4>1 DEF Entry
    <3> QED BY <3>1
  <2>6. c \in 1 .. m + n /\ d \in 1 .. m + n /\ c <= d
    BY <2>1
  <2>7. (\A i \in c .. d : t[i] # Comma) /\ (c = 1 \/ t[c - 1] = Comma)
    <3>1. \A i \in c .. d : t[i] # Comma
      BY <2>2
    <3>2. c = 1 \/ t[c - 1] = Comma
      BY <2>3, Zenon
    <3> QED BY <3>1, <3>2
  <2>8. d = Len(t) \/ t[d + 1] = Comma
    BY <1>1, <2>4
  <2>9. Entry(t, c, d)
    BY <1>1, <2>6, <2>7, <2>8 DEF Entry
  <2> QED BY <2>9, Zenon
<1>4. ASSUME Entry(t, m + a, m + b) PROVE Entry(v, a, b)
  <2>1. a \in 1 .. n /\ b \in 1 .. n /\ a <= b
    <3>1. m + a \in 1 .. m + n /\ m + b \in 1 .. m + n /\ m + a <= m + b
      BY <1>1, <1>4 DEF Entry
    <3>2. a # 0
      BY DEF MayBegin
    <3> QED BY <3>1, <3>2
  <2>2. ASSUME NEW i \in a .. b PROVE v[i] # Comma
    <3>1. m + i \in m + a .. m + b /\ i \in 1 .. n
      BY <2>1
    <3> QED BY <1>2, <1>4, <3>1 DEF Entry
  <2>3. a = 1 \/ v[a - 1] = Comma
    <3>1. CASE a # 1
      <4>1. a - 1 \in 1 .. n /\ m + (a - 1) = m + a - 1 /\ m + a # 1
        BY <2>1, <3>1
      <4> QED BY <1>2, <1>4, <4>1 DEF Entry
    <3> QED BY <3>1
  <2>4. b = n \/ v[b + 1] = Comma
    <3>1. CASE b # n
      <4>1. b + 1 \in 1 .. n /\ m + (b + 1) = m + b + 1 /\ m + b # m + n
        BY <2>1, <3>1
      <4> QED BY <1>1, <1>2, <1>4, <4>1 DEF Entry
    <3> QED BY <3>1
  <2> QED BY <1>0, <2>1, <2>2, <2>3, <2>4 DEF Entry
<1>5. ASSUME Entry(v, a, b) PROVE SubSeq(t, m + a, m + b) = SubSeq(v, a, b)
  <2>1. a \in 1 .. n /\ b \in 1 .. n /\ a <= b
    BY <1>0, <1>5 DEF Entry
  <2>2. PICK k \in Nat : k = b - a + 1
    BY <2>1
  <2>3. PICK x, y : x = SubSeq(v, a, b) /\ y = SubSeq(t, m + a, m + b)
    OBVIOUS
  <2>4. x \in Seq(Token) /\ Len(x) = k /\ \A i \in 1 .. k : x[i] = v[a + i - 1]
    <3>1. a >= 1 /\ a <= b + 1 /\ b <= Len(v)
      BY <1>0, <2>1
    <3>2. x \in Seq(Token) /\ Len(x) = b - a + 1 /\ \A i \in 1 .. b - a + 1 : x[i] = v[a + i - 1]
      BY <1>1, <2>3, <3>1, Piece
    <3> QED BY <2>2, <3>2
  <2>5. y \in Seq(Token) /\ Len(y) = k /\ \A i \in 1 .. k : y[i] = t[(m + a) + i - 1]
    <3>1. c \in Nat /\ d \in Nat /\ c = m + a /\ d = m + b
      OBVIOUS
    <3>2. c >= 1 /\ c <= d + 1 /\ d <= m + n /\ d - c + 1 = k
      BY <2>1, <2>2, <3>1
    <3>3. Len(y) = d - c + 1 /\ y \in Seq(Token) /\ \A i \in 1 .. d - c + 1 : y[i] = t[c + i - 1]
      <4>1. y = SubSeq(t, c, d) /\ d <= Len(t)
        BY <1>1, <2>3, <3>1, <3>2
      <4> QED BY <1>1, <3>2, <4>1, Piece
    <3> QED BY <3>1, <3>2, <3>3
  <2>6. \A i \in 1 .. k : t[(m + a) + i - 1] = v[a + i - 1]
    <3> TAKE i \in 1 .. k
    <3>1. a + i - 1 \in 1 .. n /\ m + (a + i - 1) = (m + a) + i - 1
      BY <2>1, <2>2
    <3> QED BY <1>2, <3>1
  <2>7. x = y
    <3>1. \A i \in 1 .. k : x[i] = y[i]
      BY <2>4, <2>5, <2>6, Zenon
    <3> QED BY <2>4, <2>5, <3>1, SameText
  <2> QED BY <2>3, <2>7
<1> QED BY <1>3, <1>4, <1>5, Zenon DEF SameEntry

\* The entries of a text are its first, which is what comes before any comma and
\* may be empty, and those that come after a comma.
FirstEnds(t, k) ==
  /\ k \in 0 .. Len(t) /\ \A i \in 1 .. k : t[i] # Comma
  /\ k = Len(t) \/ t[k + 1] = Comma

FirstIs(t, e) == \E k : FirstEnds(t, k) /\ e = SubSeq(t, 1, k)

Later(t) == {e \in Entries(t) : \E a, b : Entry(t, a, b) /\ a > 1 /\ e = SubSeq(t, a, b)}

LEMMA LaterAre ==
  ASSUME NEW t, NEW e
  PROVE  e \in Later(t) <=> \E a, b : Entry(t, a, b) /\ a > 1 /\ e = SubSeq(t, a, b)
BY EntriesAre DEF Later

\* There is a first entry, and only one.
LEMMA FirstExists ==
  ASSUME NEW t \in Seq(Token)
  PROVE  \E e : FirstIs(t, e)
<1>0. PICK n \in Nat : n = Len(t)
  OBVIOUS
<1> DEFINE K == {k \in 0 .. n : k = n \/ t[k + 1] = Comma}
<1>1. PICK k \in K : \A j \in K : k <= j
  <2>1. K \subseteq Nat /\ n \in K
    BY <1>0
  <2> HIDE DEF K
  <2> QED BY <2>1, LeastNumber
<1>2. ASSUME NEW i \in 1 .. k PROVE t[i] # Comma
  <2>1. i - 1 \in 0 .. n /\ ~(k <= i - 1) /\ i - 1 + 1 = i
    BY <1>1
  <2> QED BY <1>1, <2>1
<1>3. FirstEnds(t, k)
  BY <1>0, <1>1, <1>2 DEF FirstEnds
<1> QED BY <1>3 DEF FirstIs

LEMMA FirstEntry ==
  ASSUME NEW t \in Seq(Token), NEW k, FirstEnds(t, k), NEW b
  PROVE  Entry(t, 1, b) <=> k # 0 /\ b = k
<1>0. PICK n \in Nat : n = Len(t)
  OBVIOUS
<1>1. k \in 0 .. n /\ (\A i \in 1 .. k : t[i] # Comma) /\ (k = n \/ t[k + 1] = Comma)
  BY <1>0 DEF FirstEnds
<1>2. ASSUME k # 0, b = k PROVE Entry(t, 1, b)
  BY <1>0, <1>1, <1>2 DEF Entry
<1>3. ASSUME Entry(t, 1, b) PROVE k # 0 /\ b = k
  <2>1. b \in 1 .. n /\ (\A i \in 1 .. b : t[i] # Comma) /\ (b = n \/ t[b + 1] = Comma)
    BY <1>0, <1>3 DEF Entry
  <2>2. ~(b < k)
    <3> SUFFICES ASSUME b < k PROVE FALSE
      OBVIOUS
    <3>1. b + 1 \in 1 .. k /\ b # n
      BY <1>1, <2>1
    <3> QED BY <1>1, <2>1, <3>1
  <2>3. ~(k < b)
    <3> SUFFICES ASSUME k < b PROVE FALSE
      OBVIOUS
    <3>1. k + 1 \in 1 .. b /\ k # n
      BY <1>1, <2>1
    <3> QED BY <1>1, <2>1, <3>1
  <2> QED BY <1>1, <2>1, <2>2, <2>3
<1> QED BY <1>2, <1>3

LEMMA FirstAndLater ==
  ASSUME NEW t \in Seq(Token), NEW f, FirstIs(t, f)
  PROVE  /\ f \in Seq(Token)
         /\ \A e : e \in Entries(t) <=> e \in Later(t) \/ (e = f /\ f # <<>>)
<1>0. PICK k : FirstEnds(t, k) /\ f = SubSeq(t, 1, k)
  BY DEF FirstIs
<1>1. k \in Nat /\ k <= Len(t)
  BY <1>0 DEF FirstEnds
<1>2. f \in Seq(Token) /\ Len(f) = k - 1 + 1
  BY <1>0, <1>1, Piece
<1>3. f # <<>> <=> k # 0
  BY <1>1, <1>2
<1>4. ASSUME NEW e PROVE e \in Entries(t) <=> e \in Later(t) \/ (e = f /\ f # <<>>)
  <2>1. ASSUME e \in Entries(t) PROVE e \in Later(t) \/ (e = f /\ f # <<>>)
    <3>1. PICK a, b : Entry(t, a, b) /\ e = SubSeq(t, a, b)
      BY <2>1, EntriesAre
    <3>2. CASE a = 1
      BY <1>0, <1>3, <3>1, <3>2, FirstEntry
    <3>3. CASE a # 1
      <4>1. a > 1
        BY <3>1, <3>3 DEF Entry
      <4> QED BY <3>1, <4>1, LaterAre
    <3> QED BY <3>2, <3>3
  <2>2. ASSUME f # <<>> PROVE f \in Entries(t)
    BY <1>0, <1>3, <2>2, FirstEntry, EntriesAre
  <2>3. e \in Later(t) => e \in Entries(t)
    BY DEF Later
  <2> QED BY <2>1, <2>2, <2>3
<1> QED BY <1>2, <1>4

\* A text that begins with a comma.
LEMMA AfterComma ==
  ASSUME NEW v \in Seq(Token)
  PROVE  FirstIs(<<Comma>> \o v, <<>>) /\ \A e : e \in Later(<<Comma>> \o v) <=> e \in Entries(v)
<1>t. PICK t : t = <<Comma>> \o v
  OBVIOUS
<1>0. PICK p : p = <<Comma>>
  OBVIOUS
<1>1. p \in Seq(Token) /\ Len(p) = 1 /\ p[1] = Comma
  BY <1>0 DEF Token
<1>m. PICK m \in Nat : m = 1
  OBVIOUS
<1>2. t \in Seq(Token) /\ t = p \o v /\ Len(t) = 1 + Len(v) /\ t[1] = Comma
  BY <1>0, <1>1, <1>t
<1>3. FirstIs(t, <<>>)
  <2>1. FirstEnds(t, 0)
    BY <1>2 DEF FirstEnds
  <2>2. SubSeq(t, 1, 0) = <<>>
    BY SubSeqEmpty
  <2> QED BY <2>1, <2>2 DEF FirstIs
<1>4. ASSUME NEW a \in Nat, NEW b \in Nat, a >= 1
      PROVE  /\ Entry(t, 1 + a, 1 + b) <=> Entry(v, a, b)
             /\ Entry(v, a, b) => SubSeq(t, 1 + a, 1 + b) = SubSeq(v, a, b)
  <2>1. MayBegin(p, a)
    BY <1>1, <1>4 DEF MayBegin
  <2>2. m = Len(p) /\ Joined(t, p, v)
    BY <1>1, <1>2, <1>m, JoinedIs
  <2>3. PICK c, d : c = m + a /\ d = m + b
    OBVIOUS
  <2>4. SameEntry(t, c, d, v, a, b)
    BY <2>1, <2>2, <2>3, Shifted
  <2> QED BY <1>m, <2>3, <2>4, Zenon DEF SameEntry
<1>5. ASSUME NEW e, e \in Entries(v) PROVE e \in Later(t)
  <2>1. PICK a, b : Entry(v, a, b) /\ e = SubSeq(v, a, b)
    BY <1>5, EntriesAre
  <2>2. a \in Nat /\ b \in Nat /\ a >= 1
    BY <2>1 DEF Entry
  <2>3. Entry(t, 1 + a, 1 + b) /\ e = SubSeq(t, 1 + a, 1 + b)
    BY <1>4, <2>1, <2>2, Zenon
  <2>4. 1 + a > 1
    BY <2>2
  <2> QED BY <2>3, <2>4, LaterAre, Zenon
<1>6. ASSUME NEW e, e \in Later(t) PROVE e \in Entries(v)
  <2>1. PICK c, d : Entry(t, c, d) /\ c > 1 /\ e = SubSeq(t, c, d)
    BY <1>6, LaterAre, Zenon
  <2>2. PICK a \in Nat, b \in Nat : c = 1 + a /\ d = 1 + b /\ a >= 1
    <3>1. c \in Nat /\ d \in Nat /\ c <= d
      BY <2>1 DEF Entry
    <3>2. c - 1 \in Nat /\ d - 1 \in Nat /\ c = 1 + (c - 1) /\ d = 1 + (d - 1) /\ c - 1 >= 1
      BY <2>1, <3>1
    <3> QED BY <3>2
  <2>3. Entry(v, a, b) /\ e = SubSeq(v, a, b)
    BY <1>4, <2>1, <2>2, Zenon
  <2> QED BY <2>3, EntriesAre, Zenon
<1> QED BY <1>t, <1>3, <1>5, <1>6

CommaFree(p) == \A i \in 1 .. Len(p) : p[i] # Comma

\* A text that begins with something else.
LEMMA AfterOther ==
  ASSUME NEW p \in Seq(Token), CommaFree(p), NEW v \in Seq(Token)
  PROVE  /\ \A e : e \in Later(p \o v) <=> e \in Later(v)
         /\ \A e : FirstIs(v, e) => FirstIs(p \o v, p \o e)
<1>t. PICK t : t = p \o v
  OBVIOUS
<1>0. PICK m \in Nat, n \in Nat : m = Len(p) /\ n = Len(v)
  OBVIOUS
<1>1. t \in Seq(Token) /\ Len(t) = m + n
  BY <1>0, <1>t
<1>2. (\A i \in 1 .. m : t[i] = p[i] /\ p[i] # Comma) /\ \A i \in 1 .. n : t[m + i] = v[i]
  <2>1. \A i \in 1 .. m : t[i] = p[i]
    BY <1>0, <1>t
  <2>2. \A i \in 1 .. n : t[m + i] = v[i]
    BY <1>0, <1>t
  <2> QED BY <1>0, <2>1, <2>2 DEF CommaFree
<1>3. ASSUME NEW a \in Nat, NEW b \in Nat, a > 1
      PROVE  /\ Entry(t, m + a, m + b) <=> Entry(v, a, b)
             /\ Entry(v, a, b) => SubSeq(t, m + a, m + b) = SubSeq(v, a, b)
  <2>1. MayBegin(p, a) /\ Joined(t, p, v)
    BY <1>3, <1>t, JoinedIs DEF MayBegin
  <2>2. PICK c, d : c = m + a /\ d = m + b
    OBVIOUS
  <2>3. SameEntry(t, c, d, v, a, b)
    BY <1>0, <2>1, <2>2, Shifted
  <2> QED BY <2>2, <2>3, Zenon DEF SameEntry
<1>4. ASSUME NEW e, e \in Later(v) PROVE e \in Later(t)
  <2>1. PICK a, b : Entry(v, a, b) /\ a > 1 /\ e = SubSeq(v, a, b)
    BY <1>4, LaterAre
  <2>2. a \in Nat /\ b \in Nat
    BY <2>1 DEF Entry
  <2>3. Entry(t, m + a, m + b) /\ e = SubSeq(t, m + a, m + b)
    BY <1>3, <2>1, <2>2, Zenon
  <2>4. m + a > 1
    BY <2>1, <2>2
  <2> QED BY <2>3, <2>4, LaterAre, Zenon
<1>5. ASSUME NEW e, e \in Later(t) PROVE e \in Later(v)
  <2>1. PICK c, d : Entry(t, c, d) /\ c > 1 /\ e = SubSeq(t, c, d)
    BY <1>5, LaterAre, Zenon
  <2>2. c \in 1 .. m + n /\ d \in 1 .. m + n /\ c <= d /\ t[c - 1] = Comma
    BY <1>1, <2>1 DEF Entry
  <2>3. c - 1 \notin 1 .. m
    BY <1>2, <2>2
  <2>4. PICK a \in Nat, b \in Nat : c = m + a /\ d = m + b /\ a > 1
    <3>1. c - m \in Nat /\ d - m \in Nat /\ c = m + (c - m) /\ d = m + (d - m) /\ c - m > 1
      BY <2>1, <2>2, <2>3
    <3> QED BY <3>1
  <2>5. Entry(v, a, b) /\ e = SubSeq(v, a, b)
    BY <1>3, <2>1, <2>4, Zenon
  <2> QED BY <2>4, <2>5, LaterAre, Zenon
<1>6. ASSUME NEW e, FirstIs(v, e) PROVE FirstIs(t, p \o e)
  <2>1. PICK k : FirstEnds(v, k) /\ e = SubSeq(v, 1, k)
    BY <1>6 DEF FirstIs
  <2>2. k \in 0 .. n /\ (\A i \in 1 .. k : v[i] # Comma) /\ (k = n \/ v[k + 1] = Comma)
    BY <1>0, <2>1 DEF FirstEnds
  <2>3. ASSUME NEW i \in 1 .. m + k PROVE t[i] # Comma
    <3>1. CASE i \in 1 .. m
      BY <1>2, <3>1
    <3>2. CASE i \notin 1 .. m
      <4>1. i - m \in 1 .. k /\ i - m \in 1 .. n /\ m + (i - m) = i
        BY <2>2, <3>2
      <4> QED BY <1>2, <2>2, <4>1
    <3> QED BY <3>1, <3>2
  <2>4. m + k = m + n \/ t[m + k + 1] = Comma
    <3>1. CASE k # n
      <4>1. k + 1 \in 1 .. n /\ m + (k + 1) = m + k + 1
        BY <2>2, <3>1
      <4> QED BY <1>2, <2>2, <3>1, <4>1
    <3> QED BY <3>1
  <2>5. FirstEnds(t, m + k)
    <3>1. PICK c : c = m + k
      OBVIOUS
    <3>2. c \in 0 .. Len(t) /\ (\A i \in 1 .. c : t[i] # Comma) /\ (c = Len(t) \/ t[c + 1] = Comma)
      BY <1>1, <2>2, <2>3, <2>4, <3>1
    <3> QED BY <3>1, <3>2 DEF FirstEnds
  <2>6. p \o e = SubSeq(t, 1, m + k)
    <3>1. e \in Seq(Token) /\ Len(e) = k /\ \A i \in 1 .. k : e[i] = v[i]
      <4>1. /\ e \in Seq(Token) /\ Len(e) = k - 1 + 1
            /\ \A i \in 1 .. k - 1 + 1 : e[i] = v[1 + i - 1]
        BY <1>0, <2>1, <2>2, Piece
      <4> QED BY <2>2, <4>1
    <3>2. PICK x, y : x = p \o e /\ y = SubSeq(t, 1, m + k)
      OBVIOUS
    <3>3. x \in Seq(Token) /\ Len(x) = m + k
      <4>1. x \in Seq(Token) /\ Len(x) = Len(p) + Len(e)
        BY <3>1, <3>2, ConcatProperties, Zenon
      <4> QED BY <1>0, <3>1, <4>1
    <3>4. (\A i \in 1 .. m : x[i] = p[i]) /\ \A i \in 1 .. k : x[m + i] = e[i]
      BY <1>0, <3>1, <3>2
    <3>5. y \in Seq(Token) /\ Len(y) = m + k /\ \A i \in 1 .. m + k : y[i] = t[i]
      <4>1. PICK c \in Nat : c = m + k /\ c <= Len(t)
        BY <1>1, <2>2
      <4>2. /\ y \in Seq(Token) /\ Len(y) = c - 1 + 1
            /\ \A i \in 1 .. c - 1 + 1 : y[i] = t[1 + i - 1]
        BY <1>1, <3>2, <4>1, Piece
      <4> QED BY <4>1, <4>2
    <3>6. ASSUME NEW i \in 1 .. m + k PROVE x[i] = y[i]
      <4>1. CASE i \in 1 .. m
        BY <1>2, <3>4, <3>5, <4>1
      <4>2. CASE i \notin 1 .. m
        <5>1. PICK j \in 1 .. k : j \in 1 .. n /\ i = m + j
          <6>1. i - m \in 1 .. k /\ i - m \in 1 .. n /\ m + (i - m) = i
            BY <2>2, <4>2
          <6> QED BY <6>1
        <5>2. x[i] = e[j] /\ y[i] = t[i] /\ t[i] = v[j]
          BY <1>2, <3>4, <3>5, <5>1
        <5> QED BY <3>1, <5>1, <5>2
      <4> QED BY <4>1, <4>2
    <3>7. x = y
      <4>1. PICK c \in Nat : c = m + k
        BY <2>2
      <4> QED BY <3>3, <3>5, <3>6, <4>1, SameText
    <3> QED BY <3>2, <3>7
  <2> QED BY <2>5, <2>6 DEF FirstIs
<1> QED BY <1>t, <1>4, <1>5, <1>6

-------------------------------------------------------------------------------
\* What strings.ReplaceAll leaves of a text from a place on, by what it leaves
\* from later places on.
Suffix(t, i) == SubSeq(t, i, Len(t))
Matches(t, q, i) == SubSeq(t, i, i + Len(q) - 1) = q
Keep(x, r) == <<x>> \o r

RestOf(f, t, q, i) ==
  IF i + Len(q) > Len(t) + 1 THEN Suffix(t, i)
  ELSE IF Matches(t, q, i) THEN f[i + Len(q)] ELSE Keep(t[i], f[i + 1])

RestFrom(f, t, q, l) == \A i \in l .. Len(t) + 1 : f[i] = RestOf(f, t, q, i)

LEMMA RestSame ==
  ASSUME NEW t, NEW q, Len(t) \in Nat, Len(q) \in Nat, Len(q) >= 1, NEW i \in 1 .. Len(t) + 1,
         NEW f, NEW g, \A j \in i + 1 .. Len(t) + 1 : f[j] = g[j]
  PROVE  RestOf(f, t, q, i) = RestOf(g, t, q, i)
<1>0. PICK m \in Nat, n \in Nat : m = Len(q) /\ n = Len(t)
  OBVIOUS
<1>1. CASE i + m > n + 1
  BY <1>0, <1>1 DEF RestOf
<1>2. CASE ~(i + m > n + 1)
  <2>1. i + m \in i + 1 .. n + 1 /\ i + 1 \in i + 1 .. n + 1
    BY <1>0, <1>2
  <2>2. f[i + m] = g[i + m] /\ f[i + 1] = g[i + 1]
    BY <1>0, <2>1
  <2>3. /\ RestOf(f, t, q, i) = IF Matches(t, q, i) THEN f[i + m] ELSE Keep(t[i], f[i + 1])
        /\ RestOf(g, t, q, i) = IF Matches(t, q, i) THEN g[i + m] ELSE Keep(t[i], g[i + 1])
    BY <1>0, <1>2 DEF RestOf
  <2>4. CASE Matches(t, q, i)
    BY <2>2, <2>3, <2>4
  <2>5. CASE ~Matches(t, q, i)
    BY <2>2, <2>3, <2>5
  <2> QED BY <2>4, <2>5
<1> QED BY <1>1, <1>2

\* The recursive function of RemoveAll exists: it is built from the end of the text.
LEMMA RestExists ==
  ASSUME NEW t, NEW q, Len(t) \in Nat, Len(q) \in Nat, Len(q) >= 1
  PROVE  \E f : f = [i \in 1 .. Len(t) + 1 |-> RestOf(f, t, q, i)]
<1>0. PICK n \in Nat : n = Len(t)
  OBVIOUS
<1> DEFINE T == {k \in 0 .. n + 1 : ~\E f : RestFrom(f, t, q, n + 2 - k)}
<1>1. T = {}
  <2> SUFFICES ASSUME T # {} PROVE FALSE
    OBVIOUS
  <2>1. PICK k \in T : \A j \in T : k <= j
    <3>1. T \subseteq Nat
      OBVIOUS
    <3> HIDE DEF T
    <3> QED BY <3>1, LeastNumber
  <2>2. CASE k = 0
    <3>1. n + 2 - k = n + 2 /\ \A i \in n + 2 .. n + 1 : FALSE
      BY <2>2
    <3>2. ASSUME NEW f PROVE RestFrom(f, t, q, n + 2 - k)
      BY <1>0, <3>1 DEF RestFrom
    <3> QED BY <2>1, <3>2
  <2>3. CASE k # 0
    <3>1. k - 1 \in 0 .. n + 1 /\ ~(k <= k - 1) /\ n + 2 - (k - 1) = n + 3 - k
      BY <2>1, <2>3
    <3>2. PICK f : RestFrom(f, t, q, n + 2 - (k - 1))
      BY <2>1, <3>1
    <3>3. PICK l \in 1 .. n + 1 : l = n + 2 - k /\ n + 2 - (k - 1) = l + 1
      <4>1. n + 2 - k \in 1 .. n + 1 /\ n + 2 - (k - 1) = (n + 2 - k) + 1
        BY <2>1, <2>3
      <4> QED BY <4>1
    <3>4. RestFrom(f, t, q, l + 1)
      BY <3>2, <3>3
    <3>5. \A i \in l + 1 .. n + 1 : f[i] = RestOf(f, t, q, i)
      BY <1>0, <3>4 DEF RestFrom
    <3>6. PICK x : x = RestOf(f, t, q, l)
      OBVIOUS
    <3>7. PICK g : g = [j \in 1 .. n + 1 |-> IF j = l THEN x ELSE f[j]]
      OBVIOUS
    <3>8. g[l] = x /\ \A j \in l + 1 .. n + 1 : g[j] = f[j]
      <4>1. \A j \in l + 1 .. n + 1 : j \in 1 .. n + 1 /\ j # l
        OBVIOUS
      <4> QED BY <3>7, <4>1
    <3>9. ASSUME NEW i \in l .. n + 1 PROVE g[i] = RestOf(g, t, q, i)
      <4>1. i \in 1 .. n + 1 /\ \A j \in i + 1 .. n + 1 : j \in l + 1 .. n + 1
        OBVIOUS
      <4>2. RestOf(f, t, q, i) = RestOf(g, t, q, i)
        <5>1. \A j \in i + 1 .. Len(t) + 1 : f[j] = g[j]
          BY <1>0, <3>8, <4>1
        <5>2. i \in 1 .. Len(t) + 1
          BY <1>0, <4>1
        <5> QED BY <5>1, <5>2, RestSame
      <4>3. g[i] = RestOf(f, t, q, i)
        <5>1. i = l \/ i \in l + 1 .. n + 1
          OBVIOUS
        <5> QED BY <3>5, <3>6, <3>8, <5>1
      <4> QED BY <4>2, <4>3
    <3>10. RestFrom(g, t, q, l)
      BY <1>0, <3>9 DEF RestFrom
    <3> QED BY <2>1, <3>3, <3>10
  <2> QED BY <2>2, <2>3
<1>2. PICK f : RestFrom(f, t, q, 1)
  <2>1. n + 1 \in 0 .. n + 1 /\ n + 2 - (n + 1) = 1
    OBVIOUS
  <2> QED BY <1>1, <2>1
<1>3. PICK g : g = [i \in 1 .. n + 1 |-> f[i]]
  OBVIOUS
<1>4. ASSUME NEW i \in 1 .. n + 1 PROVE g[i] = RestOf(g, t, q, i)
  <2>1. \A j \in i + 1 .. n + 1 : j \in 1 .. n + 1
    OBVIOUS
  <2>2. \A j \in i + 1 .. Len(t) + 1 : f[j] = g[j]
    BY <1>0, <1>3, <2>1
  <2>3. RestOf(f, t, q, i) = RestOf(g, t, q, i)
    BY <1>0, <2>2, RestSame
  <2>4. g[i] = f[i] /\ f[i] = RestOf(f, t, q, i)
    BY <1>0, <1>2, <1>3 DEF RestFrom
  <2> QED BY <2>3, <2>4
<1>5. g = [i \in 1 .. n + 1 |-> RestOf(g, t, q, i)]
  BY <1>3, <1>4
<1> QED BY <1>0, <1>5

LEMMA RemoveAllIs ==
  ASSUME NEW t, NEW q, Len(t) \in Nat, Len(q) \in Nat, Len(q) >= 1
  PROVE  \E f : RemoveAll(t, q) = f[1] /\ RestFrom(f, t, q, 1)
<1> DEFINE Rec(f) == f = [i \in 1 .. Len(t) + 1 |->
                            IF i + Len(q) > Len(t) + 1 THEN SubSeq(t, i, Len(t))
                            ELSE IF SubSeq(t, i, i + Len(q) - 1) = q THEN f[i + Len(q)]
                            ELSE <<t[i]>> \o f[i + 1]]
<1>1. \A g : Rec(g) <=> g = [i \in 1 .. Len(t) + 1 |-> RestOf(g, t, q, i)]
  BY Zenon DEF RestOf, Suffix, Matches, Keep
<1>2. \E g : Rec(g)
  <2>1. PICK g : g = [i \in 1 .. Len(t) + 1 |-> RestOf(g, t, q, i)]
    BY RestExists
  <2>2. Rec(g)
    BY <1>1, <2>1
  <2> HIDE DEF Rec
  <2> QED BY <2>2
<1>3. RemoveAll(t, q) = (CHOOSE g : Rec(g))[1]
  BY Zenon DEF RemoveAll
<1>4. PICK f : f = CHOOSE g : Rec(g)
  OBVIOUS
<1>5. Rec(f)
  <2> HIDE DEF Rec
  <2> QED BY <1>2, <1>4
<1>6. RestFrom(f, t, q, 1)
  <2> HIDE DEF Rec
  <2>1. f = [i \in 1 .. Len(t) + 1 |-> RestOf(f, t, q, i)]
    BY <1>1, <1>5
  <2> QED BY <2>1 DEF RestFrom
<1> HIDE DEF Rec
<1> QED BY <1>3, <1>4, <1>6

\* The later entries of the end of a text are later entries of the text.
LEMMA LaterOfJoined ==
  ASSUME NEW t, NEW p, NEW v, Joined(t, p, v), NEW e, e \in Later(v)
  PROVE  e \in Later(t)
<1>0. PICK m \in Nat : m = Len(p)
  BY DEF Joined
<1>1. PICK a, b : Entry(v, a, b) /\ a > 1 /\ e = SubSeq(v, a, b)
  BY LaterAre, Zenon
<1>2. v \in Seq(Token) /\ a \in Nat /\ b \in Nat
  BY <1>1 DEF Entry, Joined
<1>3. PICK c, d : c = m + a /\ d = m + b
  OBVIOUS
<1>4. MayBegin(p, a)
  BY <1>1 DEF MayBegin
<1>5. SameEntry(t, c, d, v, a, b)
  BY <1>0, <1>2, <1>3, <1>4, Shifted
<1>6. Entry(t, c, d) /\ e = SubSeq(t, c, d)
  BY <1>1, <1>5, Zenon DEF SameEntry
<1>7. c > 1
  BY <1>1, <1>2, <1>3
<1> QED BY <1>6, <1>7, LaterAre, Zenon

LEMMA FirstUnique ==
  ASSUME NEW t \in Seq(Token), NEW e, NEW f, FirstIs(t, e), FirstIs(t, f)
  PROVE  e = f
<1>1. PICK k : FirstEnds(t, k) /\ e = SubSeq(t, 1, k)
  BY DEF FirstIs
<1>2. PICK l : FirstEnds(t, l) /\ f = SubSeq(t, 1, l)
  BY DEF FirstIs
<1>3. k = 0 \/ Entry(t, 1, k)
  BY <1>1, FirstEntry, Zenon
<1>4. l = 0 \/ Entry(t, 1, l)
  BY <1>2, FirstEntry, Zenon
<1>5. k = l
  BY <1>1, <1>2, <1>3, <1>4, FirstEntry, Zenon
<1> QED BY <1>1, <1>2, <1>5

\* A piece of a text is part of it, and so is what it begins with.
LEMMA IsPart ==
  ASSUME NEW t, NEW i \in 0 .. Len(t), NEW j \in 0 .. Len(t)
  PROVE  SubSeq(t, i + 1, j) \in SubSeqs(t)
BY SMT DEF SubSeqs

LEMMA PartOfJoin ==
  ASSUME NEW p \in Seq(Token), NEW f \in Seq(Token)
  PROVE  p \in SubSeqs(p \o f)
<1>t. PICK t : t = p \o f
  OBVIOUS
<1>0. PICK m \in Nat : m = Len(p)
  OBVIOUS
<1>1. t \in Seq(Token) /\ m <= Len(t) /\ \A i \in 1 .. m : t[i] = p[i]
  <2>1. Joined(t, p, f)
    BY <1>t, JoinedIs
  <2> QED BY <1>0, <2>1 DEF Joined
<1>2. PICK y : y = SubSeq(t, 1, m)
  OBVIOUS
<1>3. y \in Seq(Token) /\ Len(y) = m /\ \A i \in 1 .. m : y[i] = t[i]
  <2>1. /\ y \in Seq(Token) /\ Len(y) = m - 1 + 1
        /\ \A i \in 1 .. m - 1 + 1 : y[i] = t[1 + i - 1]
    BY <1>1, <1>2, Piece
  <2> QED BY <2>1
<1>4. y = p
  <2>1. \A i \in 1 .. m : y[i] = p[i]
    BY <1>1, <1>3
  <2> QED BY <1>0, <1>3, <2>1, SameText
<1>5. 0 \in 0 .. Len(t) /\ m \in 0 .. Len(t) /\ 0 + 1 = 1
  BY <1>1
<1>6. SubSeq(t, 0 + 1, m) \in SubSeqs(t)
  BY <1>5, IsPart
<1> QED BY <1>2, <1>4, <1>5, <1>6, <1>t

\* A text begins with its first entry.
LEMMA FirstSplit ==
  ASSUME NEW v \in Seq(Token), NEW f, FirstIs(v, f)
  PROVE  f \in Seq(Token) /\ \E w \in Seq(Token) : v = f \o w
<1>1. PICK k : FirstEnds(v, k) /\ f = SubSeq(v, 1, k)
  BY DEF FirstIs
<1>0. PICK n \in Nat : n = Len(v)
  OBVIOUS
<1>2. k \in 0 .. n
  BY <1>0, <1>1 DEF FirstEnds
<1>3. SubSeq(v, 1, k) \o SubSeq(v, k + 1, n) = SubSeq(v, 1, n)
  <2>1. 1 \in 1 .. Len(v) + 1 /\ k \in 1 - 1 .. Len(v) /\ n \in k .. Len(v)
    BY <1>0, <1>2
  <2> QED BY <2>1, ConcatAdjacentSubSeq, Zenon
<1>4. SubSeq(v, 1, n) = v
  BY <1>0, SubSeqFull
<1>5. SubSeq(v, k + 1, n) \in Seq(Token) /\ f \in Seq(Token)
  <2>1. PICK l \in Nat : l = k + 1 /\ l >= 1 /\ l <= n + 1
    BY <1>2
  <2>2. SubSeq(v, l, n) \in Seq(Token)
    BY <1>0, <2>1, Piece
  <2>3. SubSeq(v, 1, k) \in Seq(Token)
    BY <1>0, <1>2, Piece
  <2> QED BY <1>1, <2>1, <2>2, <2>3
<1> QED BY <1>1, <1>3, <1>4, <1>5

-------------------------------------------------------------------------------
\* A text s and what an edit makes of it, u: of the later entries, those in R are
\* gone and those in A are new.
Becomes(s, u, A, R) ==
  /\ s \in Seq(Token) /\ u \in Seq(Token)
  /\ \A e : e \in Later(u) <=> (e \in Later(s) /\ e \notin R) \/ e \in A
  /\ \A e : FirstIs(s, e) => FirstIs(u, e)

\* A token before both texts changes the later entries of neither ...
LEMMA KeptOther ==
  ASSUME NEW v, NEW r, NEW A, NEW R, Becomes(v, r, A, R), NEW x \in Token, x # Comma
  PROVE  Becomes(<<x>> \o v, <<x>> \o r, A, R)
<1>0. v \in Seq(Token) /\ r \in Seq(Token)
  BY DEF Becomes
<1>1. PICK o : o = <<x>>
  OBVIOUS
<1>2. o \in Seq(Token) /\ CommaFree(o)
  BY <1>1 DEF CommaFree
<1>3. PICK s, q : s = o \o v /\ q = o \o r
  OBVIOUS
<1>4. s \in Seq(Token) /\ q \in Seq(Token)
  BY <1>0, <1>2, <1>3
<1>5. /\ \A e : e \in Later(s) <=> e \in Later(v)
      /\ \A e : e \in Later(q) <=> e \in Later(r)
  BY <1>0, <1>2, <1>3, AfterOther, Zenon
<1>6. ASSUME NEW e, FirstIs(s, e) PROVE FirstIs(q, e)
  <2>1. PICK f : FirstIs(v, f)
    BY <1>0, FirstExists
  <2>2. FirstIs(s, o \o f) /\ FirstIs(q, o \o f)
    BY <1>0, <1>2, <1>3, <2>1, AfterOther, Zenon DEF Becomes
  <2>3. e = o \o f
    BY <1>4, <1>6, <2>2, FirstUnique, Zenon
  <2> QED BY <2>2, <2>3, Zenon
<1>7. Becomes(s, q, A, R)
  BY <1>4, <1>5, <1>6, Zenon DEF Becomes
<1> QED BY <1>1, <1>3, <1>7, Zenon

\* ... and a comma makes the first entries later ones.
LEMMA KeptComma ==
  ASSUME NEW v, NEW r, NEW A, NEW R, Becomes(v, r, A, R), \A e : FirstIs(v, e) => e \notin R
  PROVE  Becomes(<<Comma>> \o v, <<Comma>> \o r, A, R)
<1>0. v \in Seq(Token) /\ r \in Seq(Token)
  BY DEF Becomes
<1>3. PICK s, q : s = <<Comma>> \o v /\ q = <<Comma>> \o r
  OBVIOUS
<1>4. s \in Seq(Token) /\ q \in Seq(Token)
  BY <1>0, <1>3 DEF Token
<1>5. /\ FirstIs(s, <<>>) /\ \A e : e \in Later(s) <=> e \in Entries(v)
      /\ FirstIs(q, <<>>) /\ \A e : e \in Later(q) <=> e \in Entries(r)
  BY <1>0, <1>3, AfterComma, Zenon
<1>6. ASSUME NEW e, FirstIs(s, e) PROVE FirstIs(q, e)
  BY <1>4, <1>5, <1>6, FirstUnique, Zenon
<1>7. PICK f : FirstIs(v, f)
  BY <1>0, FirstExists
<1>8. FirstIs(r, f) /\ f \notin R
  BY <1>7 DEF Becomes
<1>9. /\ \A e : e \in Entries(v) <=> e \in Later(v) \/ (e = f /\ f # <<>>)
      /\ \A e : e \in Entries(r) <=> e \in Later(r) \/ (e = f /\ f # <<>>)
  BY <1>0, <1>7, <1>8, FirstAndLater, Zenon
<1>10. \A e : e \in Later(r) <=> (e \in Later(v) /\ e \notin R) \/ e \in A
  BY DEF Becomes
<1>11. \A e : e \in Later(q) <=> (e \in Later(s) /\ e \notin R) \/ e \in A
  BY <1>5, <1>8, <1>9, <1>10, Zenon
<1>12. Becomes(s, q, A, R)
  BY <1>4, <1>6, <1>11, Zenon DEF Becomes
<1> QED BY <1>3, <1>12, Zenon

\* A text and what is left of it after a removal of the later entries p.
Left(s, r, p) ==
  /\ s \in Seq(Token) /\ r \in Seq(Token)
  /\ \A e : e \in Later(r) <=> e \in Later(s) /\ e # p
  /\ \A e : FirstIs(s, e) => FirstIs(r, e)

\* No place for a comma and p.
LEMMA LeftShort ==
  ASSUME NEW s \in Seq(Token), NEW p \in Seq(Token), Len(s) <= Len(p)
  PROVE  Left(s, s, p)
<1>1. p \notin Later(s)
  <2> SUFFICES ASSUME p \in Later(s) PROVE FALSE
    OBVIOUS
  <2>1. PICK a, b : Entry(s, a, b) /\ a > 1 /\ p = SubSeq(s, a, b)
    BY LaterAre, Zenon
  <2>2. a \in 1 .. Len(s) /\ b \in 1 .. Len(s) /\ a <= b
    BY <2>1 DEF Entry
  <2>3. Len(p) = b - a + 1
    BY <2>1, <2>2, Piece
  <2> QED BY <2>1, <2>2, <2>3
<1> QED BY <1>1 DEF Left

LEMMA LeftOther ==
  ASSUME NEW v, NEW r, NEW p, Left(v, r, p), NEW x \in Token, x # Comma
  PROVE  Left(<<x>> \o v, <<x>> \o r, p)
<1>1. \A s, u : Left(s, u, p) <=> Becomes(s, u, {}, {p})
  BY Zenon DEF Left, Becomes
<1> QED BY <1>1, KeptOther

LEMMA LeftComma ==
  ASSUME NEW v, NEW r, NEW p, Left(v, r, p), ~FirstIs(v, p)
  PROVE  Left(<<Comma>> \o v, <<Comma>> \o r, p)
<1>1. \A s, u : Left(s, u, p) <=> Becomes(s, u, {}, {p})
  BY Zenon DEF Left, Becomes
<1> QED BY <1>1, KeptComma

\* A comma and p are removed together; no entry that only begins with p is
\* cut.
LEMMA LeftMatch ==
  ASSUME NEW v, NEW r, NEW p \in Seq(Token), p # <<>>, CommaFree(p), Left(v, r, p),
         NEW s, s = <<Comma>> \o (p \o v),
         \A e \in Later(s) : p \in SubSeqs(e) => e = p
  PROVE  Left(s, r, p)
<1>0. v \in Seq(Token) /\ r \in Seq(Token)
  BY DEF Left
<1>1. PICK u : u = p \o v
  OBVIOUS
<1>2. u \in Seq(Token) /\ s \in Seq(Token) /\ s = <<Comma>> \o u
  <2>1. u \in Seq(Token)
    BY <1>0, <1>1
  <2> QED BY <1>1, <2>1 DEF Token
<1>3. FirstIs(s, <<>>) /\ \A e : e \in Later(s) <=> e \in Entries(u)
  BY <1>2, AfterComma, Zenon
<1>4. PICK f : FirstIs(v, f)
  BY <1>0, FirstExists
<1>5. FirstIs(r, f) /\ f \in Seq(Token)
  BY <1>0, <1>4, FirstAndLater DEF Left
<1>6. /\ \A e : e \in Later(u) <=> e \in Later(v)
      /\ FirstIs(u, p \o f)
  BY <1>0, <1>1, <1>4, AfterOther, Zenon
<1>7. p \o f # <<>>
  BY <1>5
<1>8. \A e : e \in Entries(u) <=> e \in Later(u) \/ (e = p \o f /\ p \o f # <<>>)
  BY <1>2, <1>6, FirstAndLater, Zenon
<1>9. p \o f \in Later(s)
  BY <1>3, <1>7, <1>8, Zenon
<1>10. p \o f = p
  BY <1>5, <1>9, PartOfJoin, Zenon
<1>11. f = <<>>
  <2>1. Len(p \o f) = Len(p) + Len(f) /\ Len(p \o f) = Len(p)
    BY <1>5, <1>10
  <2>2. Len(f) = 0
    BY <1>5, <2>1
  <2> QED BY <1>5, <2>2
<1>12. \A e : e \in Later(r) <=> e \in Later(v) /\ e # p
  BY DEF Left
<1>13. \A e : e \in Later(r) <=> e \in Later(s) /\ e # p
  BY <1>3, <1>6, <1>7, <1>8, <1>10, <1>12, Zenon
<1>14. ASSUME NEW e, FirstIs(s, e) PROVE FirstIs(r, e)
  BY <1>2, <1>3, <1>5, <1>11, <1>14, FirstUnique, Zenon
<1> QED BY <1>0, <1>2, <1>13, <1>14, Zenon DEF Left

\* What a text is from a place on.
LEMMA SuffixType ==
  ASSUME NEW t \in Seq(Token), NEW i \in 1 .. Len(t) + 1
  PROVE  Suffix(t, i) \in Seq(Token) /\ Len(Suffix(t, i)) = Len(t) - i + 1
<1>1. i \in Nat /\ Len(t) \in Nat /\ i >= 1 /\ i <= Len(t) + 1 /\ Len(t) <= Len(t)
  OBVIOUS
<1> QED BY <1>1, Piece DEF Suffix

LEMMA SuffixHead ==
  ASSUME NEW t \in Seq(Token), NEW i \in 1 .. Len(t)
  PROVE  Suffix(t, i) = <<t[i]>> \o Suffix(t, i + 1) /\ t[i] \in Token
<1>1. Len(t) \in i .. Len(t)
  OBVIOUS
<1>2. Suffix(t, i) = <<t[i]>> \o Suffix(t, i + 1)
  BY <1>1, SubSeqRecursiveFirst, Zenon DEF Suffix
<1> QED BY <1>2

LEMMA SuffixMatch ==
  ASSUME NEW t \in Seq(Token), NEW q, Len(q) \in Nat, NEW i \in 1 .. Len(t) + 1,
         i + Len(q) <= Len(t) + 1, Matches(t, q, i)
  PROVE  Suffix(t, i) = q \o Suffix(t, i + Len(q))
<1>1. PICK k : k = i + Len(q) - 1
  OBVIOUS
<1>2. k \in i - 1 .. Len(t) /\ Len(t) \in k .. Len(t) /\ k + 1 = i + Len(q)
  BY <1>1
<1>3. SubSeq(t, i, k) \o SubSeq(t, k + 1, Len(t)) = SubSeq(t, i, Len(t))
  BY <1>2, ConcatAdjacentSubSeq, Zenon
<1>4. SubSeq(t, i, k) = q
  BY <1>1 DEF Matches
<1> QED BY <1>2, <1>3, <1>4, Zenon DEF Suffix

\* A suffix that begins with q is a match of q.
LEMMA MatchIf ==
  ASSUME NEW t \in Seq(Token), NEW q \in Seq(Token), NEW w \in Seq(Token), q # <<>>,
         NEW i \in 1 .. Len(t) + 1, Suffix(t, i) = q \o w
  PROVE  i + Len(q) <= Len(t) + 1 /\ Matches(t, q, i)
<1>0. PICK m \in Nat, n \in Nat : m = Len(q) /\ n = Len(t)
  OBVIOUS
<1>s. PICK s : s = Suffix(t, i)
  OBVIOUS
<1>1. s \in Seq(Token) /\ Len(s) = n - i + 1 /\ \A j \in 1 .. n - i + 1 : s[j] = t[i + j - 1]
  <2>1. i \in Nat /\ n \in Nat /\ i >= 1 /\ i <= n + 1 /\ n <= Len(t)
    BY <1>0
  <2> QED BY <1>0, <1>s, <2>1, Piece DEF Suffix
<1>2. Len(s) >= m /\ \A j \in 1 .. m : s[j] = q[j]
  <2>1. Joined(s, q, w)
    BY <1>s, JoinedIs, Zenon
  <2> QED BY <1>0, <2>1 DEF Joined
<1>3. i + m <= n + 1
  BY <1>1, <1>2
<1>4. PICK k \in Nat : k = i + m - 1
  <2>1. i + m - 1 \in Nat
    OBVIOUS
  <2> QED BY <2>1
<1>5. PICK y : y = SubSeq(t, i, k)
  OBVIOUS
<1>6. y \in Seq(Token) /\ Len(y) = m /\ \A j \in 1 .. m : y[j] = t[i + j - 1]
  <2>1. i \in Nat /\ i >= 1 /\ i <= k + 1 /\ k <= Len(t) /\ k - i + 1 = m
    BY <1>0, <1>3, <1>4
  <2>2. y \in Seq(Token) /\ Len(y) = k - i + 1 /\ \A j \in 1 .. k - i + 1 : y[j] = t[i + j - 1]
    BY <1>5, <2>1, Piece
  <2> QED BY <2>1, <2>2
<1>7. \A j \in 1 .. m : j \in 1 .. n - i + 1
  BY <1>3
<1>8. \A j \in 1 .. m : y[j] = q[j]
  BY <1>1, <1>2, <1>6, <1>7, Zenon
<1>9. y = q
  BY <1>0, <1>6, <1>8, SameText
<1> QED BY <1>0, <1>3, <1>4, <1>5, <1>9 DEF Matches

LEMMA SuffixJoined ==
  ASSUME NEW t \in Seq(Token), NEW i \in 1 .. Len(t) + 1
  PROVE  \E p : Joined(t, p, Suffix(t, i))
<1>1. PICK k \in Nat : k = i - 1
  OBVIOUS
<1>2. 1 \in 1 .. Len(t) + 1 /\ k \in 1 - 1 .. Len(t) /\ Len(t) \in k .. Len(t) /\ k + 1 = i
  BY <1>1
<1>3. SubSeq(t, 1, k) \o SubSeq(t, k + 1, Len(t)) = SubSeq(t, 1, Len(t))
  BY <1>2, ConcatAdjacentSubSeq, Zenon
<1>4. SubSeq(t, 1, Len(t)) = t
  BY SubSeqFull
<1>5. PICK p : p = SubSeq(t, 1, k)
  OBVIOUS
<1>6. p \o Suffix(t, i) = t
  BY <1>2, <1>3, <1>4, <1>5, Zenon DEF Suffix
<1>7. p \in Seq(Token)
  <2>1. 1 <= k + 1 /\ k <= Len(t)
    BY <1>2
  <2> QED BY <1>5, <2>1, Piece
<1>8. Joined(t, p, Suffix(t, i))
  BY <1>6, <1>7, SuffixType, JoinedIs, Zenon
<1> QED BY <1>8

\* The first pass of RemoveFromPathFilter, by induction from the end of the text.
LEMMA LaterRemoved ==
  ASSUME NEW t \in Seq(Token), NEW p \in Seq(Token), p # <<>>, CommaFree(p),
         \A e \in Later(t) : p \in SubSeqs(e) => e = p
  PROVE  Left(t, RemoveAll(t, <<Comma>> \o p), p)
<1>0. PICK n \in Nat : n = Len(t)
  OBVIOUS
<1>q. PICK q : q = <<Comma>> \o p
  OBVIOUS
<1>1. q \in Seq(Token) /\ Len(q) = Len(p) + 1 /\ q # <<>>
  BY <1>q DEF Token
<1>m. PICK m \in Nat : m = Len(q) /\ m >= 1
  BY <1>1
<1>2. PICK f : RemoveAll(t, q) = f[1] /\ RestFrom(f, t, q, 1)
  BY <1>0, <1>m, RemoveAllIs
<1>3. \A i \in 1 .. n + 1 : f[i] = RestOf(f, t, q, i)
  BY <1>0, <1>2 DEF RestFrom
<1> DEFINE T == {k \in 0 .. n : ~Left(Suffix(t, n + 1 - k), f[n + 1 - k], p)}
<1>4. T = {}
  <2> SUFFICES ASSUME T # {} PROVE FALSE
    OBVIOUS
  <2>1. PICK k \in T : \A j \in T : k <= j
    <3>1. T \subseteq Nat
      OBVIOUS
    <3> HIDE DEF T
    <3> QED BY <3>1, LeastNumber
  <2>2. PICK i \in 1 .. n + 1 : i = n + 1 - k
    <3>1. n + 1 - k \in 1 .. n + 1
      BY <2>1
    <3> QED BY <3>1
  <2>3. ~Left(Suffix(t, i), f[i], p)
    BY <2>1, <2>2
  <2>4. ASSUME NEW j \in i + 1 .. n + 1 PROVE Left(Suffix(t, j), f[j], p)
    <3>1. n + 1 - j \in 0 .. n /\ ~(k <= n + 1 - j) /\ n + 1 - (n + 1 - j) = j
      BY <2>1, <2>2
    <3>2. n + 1 - j \notin T
      BY <2>1, <3>1
    <3> QED BY <3>1, <3>2
  <2> HIDE DEF T
  <2>5. PICK s : s = Suffix(t, i)
    OBVIOUS
  <2>6. s \in Seq(Token) /\ Len(s) = n - i + 1
    BY <1>0, <2>5, SuffixType
  <2>7. CASE i + m > n + 1
    <3>1. f[i] = s
      BY <1>0, <1>3, <1>m, <2>5, <2>7 DEF RestOf
    <3>2. Len(s) <= Len(p)
      BY <1>1, <1>m, <2>6, <2>7
    <3> QED BY <2>3, <2>5, <2>6, <3>1, <3>2, LeftShort
  <2>8. CASE ~(i + m > n + 1) /\ Matches(t, q, i)
    <3>1. f[i] = f[i + m]
      BY <1>0, <1>3, <1>m, <2>8 DEF RestOf
    <3>2. PICK j \in i + 1 .. n + 1 : j = i + m
      <4>1. i + m \in i + 1 .. n + 1
        BY <1>m, <2>8
      <4> QED BY <4>1
    <3>3. PICK v : v = Suffix(t, j)
      OBVIOUS
    <3>4. Left(v, f[j], p) /\ v \in Seq(Token)
      BY <2>4, <3>3 DEF Left
    <3>5. s = q \o v
      <4>1. i \in 1 .. Len(t) + 1 /\ i + Len(q) <= Len(t) + 1 /\ Len(q) \in Nat
        BY <1>0, <1>m, <2>8
      <4>2. Suffix(t, i) = q \o Suffix(t, i + Len(q))
        BY <2>8, <4>1, SuffixMatch
      <4> QED BY <1>m, <2>5, <3>2, <3>3, <4>2
    <3>6. s = <<Comma>> \o (p \o v)
      <4>1. <<Comma>> \in Seq(Token)
        BY DEF Token
      <4>2. (<<Comma>> \o p) \o v = <<Comma>> \o (p \o v)
        BY <3>4, <4>1, ConcatAssociative
      <4> QED BY <1>q, <3>5, <4>2, Zenon
    <3>7. \A e \in Later(s) : p \in SubSeqs(e) => e = p
      <4>1. PICK o : Joined(t, o, s)
        BY <1>0, <2>5, SuffixJoined
      <4>2. \A e : e \in Later(s) => e \in Later(t)
        BY <4>1, LaterOfJoined, Zenon
      <4> QED BY <4>2, Zenon
    <3>8. Left(s, f[j], p)
      BY <3>4, <3>6, <3>7, LeftMatch, Zenon
    <3> QED BY <2>3, <2>5, <3>1, <3>2, <3>8
  <2>9. CASE ~(i + m > n + 1) /\ ~Matches(t, q, i)
    <3>0. PICK j \in i + 1 .. n + 1 : j = i + 1
      <4>1. i + 1 \in i + 1 .. n + 1
        BY <1>m, <2>9
      <4> QED BY <4>1
    <3>1. f[i] = Keep(t[i], f[j])
      BY <1>0, <1>3, <1>m, <2>9, <3>0 DEF RestOf
    <3>2. PICK v, r : v = Suffix(t, j) /\ r = f[j]
      OBVIOUS
    <3>3. Left(v, r, p) /\ v \in Seq(Token)
      BY <2>4, <3>2 DEF Left
    <3>4. s = <<t[i]>> \o v /\ t[i] \in Token
      <4>1. i \in 1 .. Len(t)
        BY <1>0, <1>m, <2>9
      <4>2. Suffix(t, i) = <<t[i]>> \o Suffix(t, i + 1) /\ t[i] \in Token
        BY <4>1, SuffixHead
      <4> QED BY <2>5, <3>0, <3>2, <4>2
    <3>5. f[i] = <<t[i]>> \o r
      BY <3>1, <3>2 DEF Keep
    <3>6. CASE t[i] = Comma
      <4>1. ~FirstIs(v, p)
        <5> SUFFICES ASSUME FirstIs(v, p) PROVE FALSE
          OBVIOUS
        <5>1. PICK w \in Seq(Token) : v = p \o w
          BY <3>3, FirstSplit
        <5>2. <<Comma>> \in Seq(Token)
          BY DEF Token
        <5>3. (<<Comma>> \o p) \o w = <<Comma>> \o (p \o w)
          BY <5>1, <5>2, ConcatAssociative
        <5>4. Suffix(t, i) = q \o w
          BY <1>q, <2>5, <3>4, <3>6, <5>1, <5>3, Zenon
        <5>5. i \in 1 .. Len(t) + 1
          BY <1>0
        <5> QED BY <1>1, <2>9, <5>4, <5>5, MatchIf
      <4>2. Left(<<Comma>> \o v, <<Comma>> \o r, p)
        BY <3>3, <4>1, LeftComma
      <4> QED BY <2>3, <2>5, <3>4, <3>5, <3>6, <4>2, Zenon
    <3>7. CASE t[i] # Comma
      <4>1. Left(<<t[i]>> \o v, <<t[i]>> \o r, p)
        BY <3>3, <3>4, <3>7, LeftOther
      <4> QED BY <2>3, <2>5, <3>4, <3>5, <4>1, Zenon
    <3> QED BY <3>6, <3>7
  <2> QED BY <2>7, <2>8, <2>9
<1>5. Left(Suffix(t, 1), f[1], p)
  <2>1. n \in 0 .. n /\ n + 1 - n = 1
    OBVIOUS
  <2> QED BY <1>4, <2>1
<1>6. Suffix(t, 1) = t
  BY SubSeqFull DEF Suffix
<1> QED BY <1>2, <1>5, <1>6, <1>q, Zenon

\* After the first pass p matches at the beginning of the text only.
LEMMA NoLaterMatch ==
  ASSUME NEW r \in Seq(Token), NEW p \in Seq(Token), p # <<>>, CommaFree(p), p \notin Later(r),
         \A e \in Entries(r) : p \in SubSeqs(e) => e = p,
         NEW i \in 2 .. Len(r) + 1, i + Len(p) <= Len(r) + 1
  PROVE  ~Matches(r, p, i)
<1> SUFFICES ASSUME Matches(r, p, i) PROVE FALSE
  OBVIOUS
<1>0. PICK m \in Nat, n \in Nat : m = Len(p) /\ n = Len(r) /\ m >= 1
  OBVIOUS
<1>1. i \in 1 .. n /\ i + m <= n + 1 /\ i > 1
  BY <1>0
<1>2. \A l \in 1 .. m : r[i + l - 1] = p[l] /\ p[l] # Comma
  <2>1. PICK k \in Nat : k = i + m - 1
    <3>1. i + m - 1 \in Nat
      OBVIOUS
    <3> QED BY <3>1
  <2>2. SubSeq(r, i, k) = p
    BY <1>0, <2>1 DEF Matches
  <2>3. i \in Nat /\ i >= 1 /\ i <= k + 1 /\ k <= Len(r) /\ k - i + 1 = m
    BY <1>0, <1>1, <2>1
  <2>4. \A l \in 1 .. k - i + 1 : SubSeq(r, i, k)[l] = r[i + l - 1]
    BY <2>3, Piece
  <2> QED BY <1>0, <2>2, <2>3, <2>4 DEF CommaFree
<1>3. r[i] # Comma
  <2>1. 1 \in 1 .. m /\ i + 1 - 1 = i
    BY <1>0
  <2> QED BY <1>2, <2>1
<1>4. PICK a, b : Entry(r, a, b) /\ a <= i /\ i <= b
  BY <1>0, <1>1, <1>3, InEntry
<1>5. a \in 1 .. n /\ b \in 1 .. n /\ a <= b /\ (b = n \/ r[b + 1] = Comma)
  BY <1>0, <1>4 DEF Entry
<1>6. i + m - 1 <= b
  <2> SUFFICES ASSUME ~(i + m - 1 <= b) PROVE FALSE
    OBVIOUS
  <2>1. PICK l \in 1 .. m : i + l - 1 = b + 1
    <3>1. b + 2 - i \in 1 .. m /\ i + (b + 2 - i) - 1 = b + 1
      BY <1>1, <1>4, <1>5
    <3> QED BY <3>1
  <2>2. b # n
    BY <1>1, <1>5
  <2> QED BY <1>2, <1>5, <2>1, <2>2
<1>7. PICK e : e = SubSeq(r, a, b)
  OBVIOUS
<1>8. PICK c \in Nat : c = b - a + 1
  <2>1. b - a + 1 \in Nat
    BY <1>5
  <2> QED BY <2>1
<1>9. e \in Seq(Token) /\ Len(e) = c /\ \A j \in 1 .. c : e[j] = r[a + j - 1]
  <2>1. a \in Nat /\ b \in Nat /\ a >= 1 /\ a <= b + 1 /\ b <= Len(r)
    BY <1>0, <1>5
  <2> QED BY <1>7, <1>8, <2>1, Piece
<1>10. p \in SubSeqs(e)
  <2>1. PICK j \in Nat : j = i - a /\ j + m <= c
    <3>1. i - a \in Nat /\ (i - a) + m <= c
      BY <1>1, <1>4, <1>5, <1>6, <1>8
    <3> QED BY <3>1
  <2>2. PICK y : y = SubSeq(e, j + 1, j + m)
    OBVIOUS
  <2>3. y \in SubSeqs(e)
    <3>1. j \in 0 .. Len(e) /\ j + m \in 0 .. Len(e)
      BY <1>9, <2>1
    <3> QED BY <2>2, <3>1, IsPart
  <2>4. y \in Seq(Token) /\ Len(y) = m /\ \A l \in 1 .. m : y[l] = e[j + l]
    <3>1. PICK g \in Nat, h \in Nat : g = j + 1 /\ h = j + m
      OBVIOUS
    <3>2. g >= 1 /\ g <= h + 1 /\ h <= Len(e) /\ h - g + 1 = m
      <4>1. j + m <= c
        BY <2>1
      <4>2. h <= Len(e)
        BY <1>9, <3>1, <4>1
      <4>3. g >= 1 /\ g <= h + 1 /\ h - g + 1 = m
        BY <3>1
      <4> QED BY <4>2, <4>3
    <3>3. /\ y \in Seq(Token) /\ Len(y) = h - g + 1
          /\ \A l \in 1 .. h - g + 1 : y[l] = e[g + l - 1]
      BY <1>9, <2>2, <3>1, <3>2, Piece
    <3>4. \A l \in 1 .. m : g + l - 1 = j + l
      BY <3>1
    <3> QED BY <3>2, <3>3, <3>4
  <2>5. ASSUME NEW l \in 1 .. m PROVE y[l] = p[l]
    <3>1. j + l \in 1 .. c /\ a + (j + l) - 1 = i + l - 1
      BY <1>1, <1>5, <2>1
    <3>2. e[j + l] = r[a + (j + l) - 1]
      BY <1>9, <3>1
    <3> QED BY <1>2, <2>4, <3>1, <3>2
  <2>6. y = p
    BY <1>0, <2>4, <2>5, SameText
  <2> QED BY <2>3, <2>6
<1>11. e = p
  BY <1>4, <1>7, <1>10, EntriesAre
<1>12. a > 1
  BY <1>0, <1>1, <1>4, <1>5, <1>6, <1>8, <1>9, <1>11
<1> QED BY <1>4, <1>7, <1>11, <1>12, LaterAre

LEMMA RestIsSuffix ==
  ASSUME NEW r \in Seq(Token), NEW p \in Seq(Token), p # <<>>,
         \A i \in 2 .. Len(r) + 1 : i + Len(p) <= Len(r) + 1 => ~Matches(r, p, i),
         NEW f, RestFrom(f, r, p, 1)
  PROVE  \A i \in 2 .. Len(r) + 1 : f[i] = Suffix(r, i)
<1>0. PICK m \in Nat, n \in Nat : m = Len(p) /\ n = Len(r) /\ m >= 1
  OBVIOUS
<1> DEFINE T == {k \in 0 .. n - 1 : f[n + 1 - k] # Suffix(r, n + 1 - k)}
<1>1. T = {}
  <2> SUFFICES ASSUME T # {} PROVE FALSE
    OBVIOUS
  <2>1. PICK k \in T : \A j \in T : k <= j
    <3>1. T \subseteq Nat
      OBVIOUS
    <3> HIDE DEF T
    <3> QED BY <3>1, LeastNumber
  <2>2. PICK i \in 2 .. n + 1 : i = n + 1 - k
    <3>1. n + 1 - k \in 2 .. n + 1
      BY <2>1
    <3> QED BY <3>1
  <2>3. f[i] # Suffix(r, i)
    BY <2>1, <2>2
  <2>4. f[i] = RestOf(f, r, p, i)
    <3>1. i \in 1 .. n + 1
      OBVIOUS
    <3> QED BY <1>0, <3>1 DEF RestFrom
  <2>5. CASE i + m > n + 1
    BY <1>0, <2>3, <2>4, <2>5 DEF RestOf
  <2>6. CASE ~(i + m > n + 1)
    <3>1. ~Matches(r, p, i)
      BY <1>0, <2>6
    <3>2. f[i] = Keep(r[i], f[i + 1])
      BY <1>0, <2>4, <2>6, <3>1 DEF RestOf
    <3>3. i + 1 \in 2 .. n + 1 /\ i \in 1 .. n
      BY <1>0, <2>6
    <3>4. f[i + 1] = Suffix(r, i + 1)
      <4>1. n + 1 - (i + 1) \in 0 .. n - 1 /\ ~(k <= n + 1 - (i + 1)) /\ n + 1 - (n + 1 - (i + 1)) = i + 1
        BY <2>1, <2>2, <3>3
      <4>2. n + 1 - (i + 1) \notin T
        BY <2>1, <4>1
      <4> QED BY <4>1, <4>2
    <3>5. Suffix(r, i) = <<r[i]>> \o Suffix(r, i + 1)
      BY <1>0, <3>3, SuffixHead
    <3> QED BY <2>3, <3>2, <3>4, <3>5, Zenon DEF Keep
  <2> QED BY <2>5, <2>6
<1>2. ASSUME NEW i \in 2 .. n + 1 PROVE f[i] = Suffix(r, i)
  <2>1. n + 1 - i \in 0 .. n - 1 /\ n + 1 - (n + 1 - i) = i
    OBVIOUS
  <2> QED BY <1>1, <2>1
<1> QED BY <1>0, <1>2

\* The second pass of RemoveFromPathFilter.
LEMMA FirstRemoved ==
  ASSUME NEW r \in Seq(Token), NEW p \in Seq(Token), p # <<>>, CommaFree(p), p \notin Later(r),
         \A e \in Entries(r) : p \in SubSeqs(e) => e = p
  PROVE  /\ RemoveAll(r, p) \in Seq(Token)
         /\ \A e : e \in Entries(RemoveAll(r, p)) <=> e \in Entries(r) /\ e # p
<1>0. PICK m \in Nat, n \in Nat : m = Len(p) /\ n = Len(r) /\ m >= 1
  OBVIOUS
<1>1. PICK f : RemoveAll(r, p) = f[1] /\ RestFrom(f, r, p, 1)
  BY <1>0, RemoveAllIs
<1>2. \A i \in 2 .. Len(r) + 1 : i + Len(p) <= Len(r) + 1 => ~Matches(r, p, i)
  BY NoLaterMatch
<1>3. \A i \in 2 .. n + 1 : f[i] = Suffix(r, i)
  BY <1>0, <1>1, <1>2, RestIsSuffix
<1>4. f[1] = RestOf(f, r, p, 1)
  <2>1. 1 \in 1 .. Len(r) + 1
    BY <1>0
  <2> QED BY <1>1, <2>1 DEF RestFrom
<1>5. Suffix(r, 1) = r
  BY SubSeqFull DEF Suffix
<1>6. PICK h : FirstIs(r, h)
  BY FirstExists
<1>7. \A e : e \in Entries(r) <=> e \in Later(r) \/ (e = h /\ h # <<>>)
  BY <1>6, FirstAndLater, Zenon
<1>8. ASSUME p \in Entries(r) PROVE 1 + m <= n + 1 /\ Matches(r, p, 1)
  <2>1. FirstIs(r, p)
    <3>1. p = h
      BY <1>7, <1>8, Zenon
    <3> QED BY <1>6, <3>1
  <2>2. PICK w \in Seq(Token) : r = p \o w
    BY <2>1, FirstSplit
  <2>3. 1 \in 1 .. Len(r) + 1
    BY <1>0
  <2>4. Suffix(r, 1) = p \o w
    BY <1>5, <2>2
  <2>5. 1 + Len(p) <= Len(r) + 1 /\ Matches(r, p, 1)
    BY <2>2, <2>3, <2>4, MatchIf
  <2> QED BY <1>0, <2>5
<1>9. CASE 1 + m > n + 1
  <2>1. f[1] = r
    BY <1>0, <1>4, <1>5, <1>9 DEF RestOf
  <2>2. p \notin Entries(r)
    BY <1>8, <1>9
  <2> QED BY <1>1, <2>1, <2>2, Zenon
<1>10. CASE ~(1 + m > n + 1) /\ ~Matches(r, p, 1)
  <2>1. f[1] = Keep(r[1], f[1 + 1])
    BY <1>0, <1>4, <1>10 DEF RestOf
  <2>2. 1 + 1 \in 2 .. n + 1 /\ 1 \in 1 .. n
    BY <1>0, <1>10
  <2>3. f[1 + 1] = Suffix(r, 1 + 1)
    BY <1>3, <2>2
  <2>4. Suffix(r, 1) = <<r[1]>> \o Suffix(r, 1 + 1)
    BY <1>0, <2>2, SuffixHead
  <2>5. f[1] = r
    BY <1>5, <2>1, <2>3, <2>4, Zenon DEF Keep
  <2>6. p \notin Entries(r)
    BY <1>8, <1>10
  <2> QED BY <1>1, <2>5, <2>6, Zenon
<1>11. CASE ~(1 + m > n + 1) /\ Matches(r, p, 1)
  <2>1. f[1] = f[1 + m]
    BY <1>0, <1>4, <1>11 DEF RestOf
  <2>2. 1 + m \in 2 .. n + 1 /\ 1 + m \in 1 .. n + 1
    BY <1>0, <1>11
  <2>3. PICK v : v = Suffix(r, 1 + m)
    OBVIOUS
  <2>4. f[1] = v /\ v \in Seq(Token)
    BY <1>0, <1>3, <2>1, <2>2, <2>3, SuffixType
  <2>5. r = p \o v
    <3>1. 1 \in 1 .. Len(r) + 1 /\ 1 + Len(p) <= Len(r) + 1
      BY <1>0, <1>11
    <3>2. Suffix(r, 1) = p \o Suffix(r, 1 + Len(p))
      BY <1>0, <1>11, <3>1, SuffixMatch
    <3> QED BY <1>0, <1>5, <2>3, <3>2
  <2>6. PICK g : FirstIs(v, g)
    BY <2>4, FirstExists
  <2>7. g \in Seq(Token) /\ \A e : e \in Entries(v) <=> e \in Later(v) \/ (e = g /\ g # <<>>)
    BY <2>4, <2>6, FirstAndLater, Zenon
  <2>8. FirstIs(r, p \o g) /\ \A e : e \in Later(r) <=> e \in Later(v)
    <3>1. FirstIs(p \o v, p \o g) /\ \A e : e \in Later(p \o v) <=> e \in Later(v)
      BY <2>4, <2>6, AfterOther, Zenon
    <3> QED BY <2>5, <3>1, Zenon
  <2>9. p \o g # <<>>
    BY <2>7
  <2>10. h = p \o g
    BY <1>6, <2>8, FirstUnique, Zenon
  <2>11. p \o g \in Entries(r)
    BY <1>7, <2>9, <2>10, Zenon
  <2>12. p \o g = p
    BY <2>7, <2>11, PartOfJoin, Zenon
  <2>13. g = <<>>
    <3>1. Len(p \o g) = Len(p) + Len(g) /\ Len(p \o g) = Len(p)
      BY <2>7, <2>12
    <3>2. Len(g) = 0
      BY <2>7, <3>1
    <3> QED BY <2>7, <3>2
  <2>14. \A e : e \in Entries(v) <=> e \in Entries(r) /\ e # p
    BY <1>7, <2>7, <2>8, <2>10, <2>12, <2>13, Zenon
  <2> QED BY <1>1, <2>4, <2>14, Zenon
<1> QED BY <1>9, <1>10, <1>11

\* The paths of a list after the removal of one of them.
LEMMA EntriesRemoved ==
  ASSUME NEW t \in Seq(Token), NEW p \in Seq(Token), p # <<>>, CommaFree(p),
         \A e \in Entries(t) : p \in SubSeqs(e) => e = p
  PROVE  /\ RemoveFromPathFilter(t, p) \in Seq(Token)
         /\ \A e : e \in Entries(RemoveFromPathFilter(t, p)) <=> e \in Entries(t) /\ e # p
<1>1. PICK r : r = RemoveAll(t, <<Comma>> \o p)
  OBVIOUS
<1>2. \A e : e \in Later(t) => e \in Entries(t)
  BY DEF Later
<1>3. Left(t, r, p)
  BY <1>1, <1>2, LaterRemoved, Zenon
<1>4. PICK f : FirstIs(t, f)
  BY FirstExists
<1>5. r \in Seq(Token) /\ FirstIs(r, f) /\ p \notin Later(r)
  BY <1>3, <1>4, Zenon DEF Left
<1>6. /\ \A e : e \in Entries(t) <=> e \in Later(t) \/ (e = f /\ f # <<>>)
      /\ \A e : e \in Entries(r) <=> e \in Later(r) \/ (e = f /\ f # <<>>)
  BY <1>4, <1>5, FirstAndLater, Zenon
<1>7. \A e : e \in Entries(r) => e \in Entries(t)
  BY <1>3, <1>6, Zenon DEF Left
<1>8. /\ RemoveAll(r, p) \in Seq(Token)
      /\ \A e : e \in Entries(RemoveAll(r, p)) <=> e \in Entries(r) /\ e # p
  BY <1>5, <1>7, FirstRemoved, Zenon
<1>9. RemoveFromPathFilter(t, p) = RemoveAll(r, p)
  BY <1>1 DEF RemoveFromPathFilter
<1>10. \A e : e \in Entries(r) /\ e # p <=> e \in Entries(t) /\ e # p
  BY <1>3, <1>6, Zenon DEF Left
<1> QED BY <1>8, <1>9, <1>10, Zenon

-------------------------------------------------------------------------------
\* The paths of a list after one is appended.

\* The entries of a path, and of the empty text.
LEMMA OnlyEntry ==
  ASSUME NEW p \in Seq(Token), p # <<>>, CommaFree(p)
  PROVE  \A e : e \in Entries(p) <=> e = p
<1>0. PICK m \in Nat : m = Len(p) /\ m # 0
  OBVIOUS
<1>1. FirstEnds(p, m)
  BY <1>0 DEF FirstEnds, CommaFree
<1>2. SubSeq(p, 1, m) = p
  BY <1>0, SubSeqFull
<1>3. FirstIs(p, p)
  BY <1>1, <1>2, Zenon DEF FirstIs
<1>4. ASSUME NEW e, e \in Later(p) PROVE FALSE
  <2>1. PICK a, b : Entry(p, a, b) /\ a > 1
    BY <1>4, LaterAre, Zenon
  <2>2. a - 1 \in 1 .. Len(p) /\ p[a - 1] = Comma
    BY <2>1 DEF Entry
  <2> QED BY <2>2 DEF CommaFree
<1>5. \A e : e \in Entries(p) <=> e \in Later(p) \/ (e = p /\ p # <<>>)
  BY <1>3, FirstAndLater, Zenon
<1> QED BY <1>4, <1>5, Zenon

LEMMA NoEntry == \A e : e \notin Entries(<<>>)
<1> SUFFICES ASSUME NEW e, e \in Entries(<<>>) PROVE FALSE
  OBVIOUS
<1>1. PICK a, b : Entry(<<>>, a, b)
  BY EntriesAre, Zenon
<1> QED BY <1>1 DEF Entry

\* A text and the one with p after it.
Longer(s, u, p) ==
  /\ s \in Seq(Token) /\ u \in Seq(Token)
  /\ \A e : e \in Later(u) <=> e \in Later(s) \/ e = p
  /\ \A e : FirstIs(s, e) => FirstIs(u, e)

LEMMA LongerOther ==
  ASSUME NEW v, NEW r, NEW p, Longer(v, r, p), NEW x \in Token, x # Comma
  PROVE  Longer(<<x>> \o v, <<x>> \o r, p)
<1>1. \A s, u : Longer(s, u, p) <=> Becomes(s, u, {p}, {})
  BY Zenon DEF Longer, Becomes
<1> QED BY <1>1, KeptOther

LEMMA LongerComma ==
  ASSUME NEW v, NEW r, NEW p, Longer(v, r, p)
  PROVE  Longer(<<Comma>> \o v, <<Comma>> \o r, p)
<1>1. \A s, u : Longer(s, u, p) <=> Becomes(s, u, {p}, {})
  BY Zenon DEF Longer, Becomes
<1> QED BY <1>1, KeptComma

\* By induction from the end of the text too.
LEMMA LaterAdded ==
  ASSUME NEW t \in Seq(Token), NEW p \in Seq(Token), p # <<>>, CommaFree(p),
         NEW w, w = <<Comma>> \o p
  PROVE  Longer(t, t \o w, p)
<1>0. PICK n \in Nat : n = Len(t)
  OBVIOUS
<1>w. w \in Seq(Token)
  BY DEF Token
<1> DEFINE T == {k \in 0 .. n : ~Longer(Suffix(t, n + 1 - k), Suffix(t, n + 1 - k) \o w, p)}
<1>4. T = {}
  <2> SUFFICES ASSUME T # {} PROVE FALSE
    OBVIOUS
  <2>1. PICK k \in T : \A j \in T : k <= j
    <3>1. T \subseteq Nat
      OBVIOUS
    <3> HIDE DEF T
    <3> QED BY <3>1, LeastNumber
  <2>2. PICK i \in 1 .. n + 1 : i = n + 1 - k
    <3>1. n + 1 - k \in 1 .. n + 1
      BY <2>1
    <3> QED BY <3>1
  <2>3. ~Longer(Suffix(t, i), Suffix(t, i) \o w, p)
    BY <2>1, <2>2
  <2>4. ASSUME NEW j \in i + 1 .. n + 1 PROVE Longer(Suffix(t, j), Suffix(t, j) \o w, p)
    <3>1. n + 1 - j \in 0 .. n /\ ~(k <= n + 1 - j) /\ n + 1 - (n + 1 - j) = j
      BY <2>1, <2>2
    <3>2. n + 1 - j \notin T
      BY <2>1, <3>1
    <3> QED BY <3>1, <3>2
  <2> HIDE DEF T
  <2>5. PICK s : s = Suffix(t, i)
    OBVIOUS
  <2>6. s \in Seq(Token) /\ Len(s) = n - i + 1
    BY <1>0, <2>5, SuffixType
  <2>7. CASE i = n + 1
    <3>1. s = <<>>
      BY <2>6, <2>7
    <3>2. s \o w = w
      BY <1>w, <3>1, ConcatEmptySeq
    <3>3. FirstIs(w, <<>>) /\ \A e : e \in Later(w) <=> e \in Entries(p)
      BY AfterComma, Zenon
    <3>4. \A e : e \in Entries(p) <=> e = p
      BY OnlyEntry, Zenon
    <3>5. FirstIs(s, <<>>)
      <4>1. FirstEnds(s, 0)
        BY <2>6, <3>1 DEF FirstEnds
      <4>2. SubSeq(s, 1, 0) = <<>>
        BY SubSeqEmpty
      <4> QED BY <4>1, <4>2, Zenon DEF FirstIs
    <3>6. \A e : e \notin Later(s)
      BY <3>1, NoEntry DEF Later
    <3>7. \A e : FirstIs(s, e) => FirstIs(w, e)
      BY <2>6, <3>3, <3>5, FirstUnique, Zenon
    <3>8. Longer(s, w, p)
      BY <1>w, <2>6, <3>3, <3>4, <3>6, <3>7, Zenon DEF Longer
    <3> QED BY <2>3, <2>5, <3>2, <3>8, Zenon
  <2>8. CASE i # n + 1
    <3>0. PICK j \in i + 1 .. n + 1 : j = i + 1
      <4>1. i + 1 \in i + 1 .. n + 1
        BY <2>8
      <4> QED BY <4>1
    <3>1. PICK v : v = Suffix(t, j)
      OBVIOUS
    <3>2. Longer(v, v \o w, p) /\ v \in Seq(Token)
      BY <2>4, <3>1 DEF Longer
    <3>3. PICK x : x = t[i]
      OBVIOUS
    <3>4. s = <<x>> \o v /\ x \in Token
      <4>1. i \in 1 .. Len(t)
        BY <1>0, <2>8
      <4>2. Suffix(t, i) = <<t[i]>> \o Suffix(t, i + 1) /\ t[i] \in Token
        BY <4>1, SuffixHead
      <4> QED BY <2>5, <3>0, <3>1, <3>3, <4>2
    <3>5. s \o w = <<x>> \o (v \o w)
      <4>1. <<x>> \in Seq(Token)
        BY <3>4
      <4>2. (<<x>> \o v) \o w = <<x>> \o (v \o w)
        BY <1>w, <3>2, <4>1, ConcatAssociative
      <4> QED BY <3>4, <4>2, Zenon
    <3>6. CASE x = Comma
      <4>1. Longer(<<Comma>> \o v, <<Comma>> \o (v \o w), p)
        BY <3>2, LongerComma
      <4> QED BY <2>3, <2>5, <3>4, <3>5, <3>6, <4>1, Zenon
    <3>7. CASE x # Comma
      <4>1. Longer(<<x>> \o v, <<x>> \o (v \o w), p)
        BY <3>2, <3>4, <3>7, LongerOther
      <4> QED BY <2>3, <2>5, <3>4, <3>5, <4>1, Zenon
    <3> QED BY <3>6, <3>7
  <2> QED BY <2>7, <2>8
<1>5. Longer(Suffix(t, 1), Suffix(t, 1) \o w, p)
  <2>1. n \in 0 .. n /\ n + 1 - n = 1
    OBVIOUS
  <2> QED BY <1>4, <2>1
<1>6. Suffix(t, 1) = t
  BY SubSeqFull DEF Suffix
<1> QED BY <1>5, <1>6, Zenon

LEMMA EntriesAppended ==
  ASSUME NEW t \in Seq(Token), NEW p \in Seq(Token), p # <<>>, CommaFree(p)
  PROVE  /\ AppendToPathFilter(t, p) \in Seq(Token)
         /\ \A e : e \in Entries(AppendToPathFilter(t, p)) <=> e \in Entries(t) \/ e = p
<1>1. CASE t = <<>>
  <2>1. AppendToPathFilter(t, p) = (<<>> \o <<>>) \o p
    BY <1>1 DEF AppendToPathFilter
  <2>2. (<<>> \o <<>>) \o p = p
    BY ConcatEmptySeq
  <2>3. AppendToPathFilter(t, p) = p
    BY <2>1, <2>2, Zenon
  <2>4. \A e : e \in Entries(p) <=> e = p
    BY OnlyEntry, Zenon
  <2>5. \A e : e \notin Entries(t)
    BY <1>1, NoEntry, Zenon
  <2> QED BY <2>3, <2>4, <2>5, Zenon
<1>2. CASE t # <<>>
  <2>1. PICK w : w = <<Comma>> \o p
    OBVIOUS
  <2>2. AppendToPathFilter(t, p) = t \o w
    <3>1. AppendToPathFilter(t, p) = (t \o <<Comma>>) \o p
      BY <1>2, Zenon DEF AppendToPathFilter
    <3>2. <<Comma>> \in Seq(Token)
      BY DEF Token
    <3>3. (t \o <<Comma>>) \o p = t \o (<<Comma>> \o p)
      BY <3>2, ConcatAssociative
    <3> QED BY <2>1, <3>1, <3>3, Zenon
  <2>3. PICK u : u = t \o w
    OBVIOUS
  <2>4. Longer(t, u, p)
    BY <2>1, <2>3, LaterAdded, Zenon
  <2>5. PICK f : FirstIs(t, f)
    BY FirstExists
  <2>6. u \in Seq(Token) /\ FirstIs(u, f) /\ \A e : e \in Later(u) <=> e \in Later(t) \/ e = p
    BY <2>4, <2>5, Zenon DEF Longer
  <2>7. /\ \A e : e \in Entries(t) <=> e \in Later(t) \/ (e = f /\ f # <<>>)
        /\ \A e : e \in Entries(u) <=> e \in Later(u) \/ (e = f /\ f # <<>>)
    BY <2>5, <2>6, FirstAndLater, Zenon
  <2>8. \A e : e \in Entries(u) <=> e \in Entries(t) \/ e = p
    BY <2>6, <2>7, Zenon
  <2> QED BY <2>2, <2>3, <2>6, <2>8, Zenon
<1> QED BY <1>1, <1>2

-------------------------------------------------------------------------------
\* A text that holds the paths in W.
Holds(t, W) == t \in Seq(Token) /\ Entries(t) = W

\* What the assumption says of a path.
LEMMA PathOfDevice ==
  ASSUME NEW p \in Paths
  PROVE  p \in Seq(Token) /\ p # <<>> /\ CommaFree(p)
<1>1. p \in Seq(STRING) /\ p # <<>> /\ \A i \in DOMAIN p : p[i] # Comma
  BY NdmAssumption
<1>2. p \in Seq(Token)
  BY <1>1 DEF Token
<1>3. CommaFree(p)
  BY <1>1 DEF CommaFree
<1> QED BY <1>1, <1>2, <1>3

LEMMA AppendHolds ==
  ASSUME NEW t, NEW W, Holds(t, W), NEW p \in Paths
  PROVE  Holds(AppendToPathFilter(t, p), W \cup {p})
<1>1. PICK u : u = AppendToPathFilter(t, p)
  OBVIOUS
<1>2. u \in Seq(Token) /\ \A e : e \in Entries(u) <=> e \in Entries(t) \/ e = p
  BY <1>1, PathOfDevice, EntriesAppended DEF Holds
<1>3. Entries(u) = W \cup {p}
  BY <1>2 DEF Holds
<1>4. Holds(u, W \cup {p})
  BY <1>2, <1>3 DEF Holds
<1> QED BY <1>1, <1>4

LEMMA RemoveHolds ==
  ASSUME NEW t, NEW W, Holds(t, W), NEW p \in Paths,
         \A e \in Entries(t) : p \in SubSeqs(e) => e = p
  PROVE  Holds(RemoveFromPathFilter(t, p), W \ {p})
<1>1. PICK u : u = RemoveFromPathFilter(t, p)
  OBVIOUS
<1>2. u \in Seq(Token) /\ \A e : e \in Entries(u) <=> e \in Entries(t) /\ e # p
  <2>1. t \in Seq(Token) /\ p \in Seq(Token) /\ p # <<>> /\ CommaFree(p)
    BY PathOfDevice DEF Holds
  <2> QED BY <1>1, <2>1, EntriesRemoved, Zenon
<1>3. Entries(u) = W \ {p}
  BY <1>2 DEF Holds
<1>4. Holds(u, W \ {p})
  BY <1>2, <1>3 DEF Holds
<1> QED BY <1>1, <1>4

\* What should be in the list after an edit.
Result(e, W) == IF e.option = "Append" THEN W \cup {e.path} ELSE W \ {e.path}

\* An edit that is about to be sent was made from what is stored, and nobody else
\* is about to send one.
PatchIsCurrent(w) ==
  /\ stored # NoFilter /\ edit[w].old = stored
  /\ Holds(edit[w].new, Result(edit[w], wanted))
  /\ \A o \in Writers : edit[o].pc = "patch" => o = w

ListInv ==
  /\ EditType
  /\ ~overlapped /\ ~cut =>
       /\ stored # NoFilter => Holds(stored, wanted)
       /\ \A w \in Writers : edit[w].pc = "patch" => PatchIsCurrent(w)

LEMMA ListInitial == NdmInit => ListInv
<1> SUFFICES ASSUME NdmInit PROVE ListInv
  OBVIOUS
<1>1. EditType /\ \A w \in Writers : edit[w].pc # "patch"
  BY DEF NdmInit, EditType, Idle, Edit
<1>2. ASSUME stored # NoFilter PROVE Holds(stored, wanted)
  <2>1. stored \in Texts /\ wanted = Entries(stored)
    BY <1>2 DEF NdmInit
  <2>2. stored \in Seq(STRING)
    BY <2>1, NdmAssumption
  <2>3. stored \in Seq(Token)
    BY <2>2 DEF Token
  <2> QED BY <2>1, <2>3 DEF Holds
<1> QED BY <1>1, <1>2 DEF ListInv

\* What an edit is about to send was computed from the list that is stored.
LEMMA ListEdit ==
  ASSUME ListInv, NEW w \in Writers, NEW option \in {"Append", "Remove"}, NEW path \in Paths,
         PathFilterExclude(w, option, path)
  PROVE  ListInv'
<1>1. UNCHANGED <<stored, wanted>>
  BY DEF PathFilterExclude
<1>2. CASE stored = NoFilter
  <2>1. UNCHANGED <<edit, overlapped, cut>>
    BY <1>2 DEF PathFilterExclude
  <2> QED BY <1>1, <2>1 DEF ListInv, EditType, PatchIsCurrent
<1>3. CASE stored # NoFilter
  <2>1. PICK text : text = IF option = "Append" THEN AppendToPathFilter(stored, path)
                         ELSE RemoveFromPathFilter(stored, path)
    OBVIOUS
  <2>2. edit' = [edit EXCEPT ![w] = Edit("patch", option, path, stored, text)]
    BY <1>3, <2>1, Zenon DEF PathFilterExclude
  <2>3. EditType' /\ edit'[w] = Edit("patch", option, path, stored, text)
        /\ \A o \in Writers \ {w} : edit'[o] = edit[o]
    BY <2>2, OneEdit DEF ListInv
  <2>4. /\ edit'[w].pc = "patch" /\ edit'[w].option = option /\ edit'[w].path = path
        /\ edit'[w].old = stored /\ edit'[w].new = text
    BY <2>3 DEF Edit
  <2>5. ASSUME ~overlapped', ~cut'
        PROVE  Holds(stored', wanted') /\ \A o \in Writers : edit'[o].pc = "patch" => PatchIsCurrent(o)'
    <3>1. ~overlapped /\ \A o \in Writers : edit[o].pc # "patch"
      BY <1>3, <2>5 DEF PathFilterExclude
    <3>2. ~cut /\ (option = "Remove" => ~\E e \in Entries(stored) : e # path /\ path \in SubSeqs(e))
      BY <1>3, <2>5, Zenon DEF PathFilterExclude
    <3>3. Holds(stored, wanted)
      BY <1>3, <3>1, <3>2 DEF ListInv
    <3>4. Holds(text, Result(edit'[w], wanted))
      <4>1. CASE option = "Append"
        <5>1. text = AppendToPathFilter(stored, path) /\ Result(edit'[w], wanted) = wanted \cup {path}
          BY <2>1, <2>4, <4>1 DEF Result
        <5> QED BY <3>3, <5>1, AppendHolds
      <4>2. CASE option = "Remove"
        <5>1. text = RemoveFromPathFilter(stored, path) /\ Result(edit'[w], wanted) = wanted \ {path}
          BY <2>1, <2>4, <4>2 DEF Result
        <5>2. \A e \in Entries(stored) : path \in SubSeqs(e) => e = path
          BY <3>2, <4>2, Zenon
        <5> QED BY <3>3, <5>1, <5>2, RemoveHolds
      <4> QED BY <4>1, <4>2
    <3>5. \A o \in Writers : edit'[o].pc = "patch" => o = w
      BY <2>3, <3>1
    <3>6. PatchIsCurrent(w)'
      BY <1>1, <1>3, <2>4, <3>4, <3>5 DEF PatchIsCurrent
    <3> QED BY <1>1, <3>3, <3>5, <3>6
  <2> QED BY <2>3, <2>5 DEF ListInv
<1> QED BY <1>2, <1>3

\* The patch stores it.
LEMMA ListPatch ==
  ASSUME ListInv, NEW w \in Writers, Patch(w)
  PROVE  ListInv'
<1>1. PICK e : edit' = [edit EXCEPT ![w] = e] /\ e.pc = "restart"
  <2>1. Edit("restart", edit[w].option, edit[w].path, edit[w].old, edit[w].new).pc = "restart"
    BY DEF Edit
  <2> QED BY <2>1, Zenon DEF Patch
<1>2. EditType' /\ edit'[w] = e /\ \A o \in Writers \ {w} : edit'[o] = edit[o]
  BY <1>1, OneEdit DEF ListInv
<1>3. ASSUME ~overlapped', ~cut'
      PROVE  Holds(stored', wanted') /\ \A o \in Writers : edit'[o].pc # "patch"
  <2>1. PatchIsCurrent(w)
    BY <1>3 DEF Patch, ListInv
  <2>2. stored' = edit[w].new
    BY <2>1 DEF Patch, PatchIsCurrent
  <2>3. wanted' = Result(edit[w], wanted)
    BY DEF Patch, Result
  <2>4. Holds(stored', wanted')
    BY <2>1, <2>2, <2>3 DEF PatchIsCurrent
  <2>5. ASSUME NEW o \in Writers PROVE edit'[o].pc # "patch"
    <3>1. CASE o = w
      BY <1>1, <1>2, <3>1
    <3>2. CASE o # w
      BY <1>2, <2>1, <3>2 DEF PatchIsCurrent
    <3> QED BY <3>1, <3>2
  <2> QED BY <2>4, <2>5
<1> QED BY <1>2, <1>3 DEF ListInv

\* An edit that ends leaves the list and the other edits alone.
LEMMA ListEnd ==
  ASSUME ListInv, NEW w \in Writers, PatchFails(w) \/ Restart(w) \/ RestartFails(w)
  PROVE  ListInv'
<1>1. edit' = [edit EXCEPT ![w] = Idle] /\ UNCHANGED <<stored, wanted, overlapped, cut>>
  BY DEF PatchFails, Restart, RestartFails
<1>2. EditType' /\ edit'[w] = Idle /\ \A o \in Writers \ {w} : edit'[o] = edit[o]
  BY <1>1, OneEdit DEF ListInv
<1>3. Idle.pc = "idle"
  BY DEF Idle, Edit
<1>4. ASSUME ~overlapped, ~cut, NEW o \in Writers, edit'[o].pc = "patch"
      PROVE  PatchIsCurrent(o)'
  <2>1. edit'[o] = edit[o]
    BY <1>2, <1>3, <1>4
  <2>2. PatchIsCurrent(o)
    BY <1>4, <2>1 DEF ListInv
  <2>3. \A u \in Writers : edit'[u].pc = "patch" => edit[u].pc = "patch"
    BY <1>2, <1>3
  <2> QED BY <1>1, <2>1, <2>2, <2>3 DEF PatchIsCurrent
<1> QED BY <1>1, <1>2, <1>4 DEF ListInv

LEMMA ListStep == ASSUME ListInv, [NdmNext]_ndmVars PROVE ListInv'
<1>1. CASE UNCHANGED ndmVars
  BY <1>1 DEF ndmVars, ListInv, EditType, PatchIsCurrent
<1>2. CASE NdmNext
  BY <1>2, ListEdit, ListPatch, ListEnd DEF NdmNext
<1> QED BY <1>1, <1>2

(***************************************************************************)
(* For every set of paths, every text to begin with and every number of    *)
(* writers and edits: unless edits overlapped, or a path was removed that  *)
(* is part of another in the list, the paths of the stored text are those  *)
(* that were added and not removed.                                        *)
(***************************************************************************)
THEOREM ListIsKept == NdmSpec => []ListIsWhatIsWanted
<1>1. ListInv => ListIsWhatIsWanted
  BY DEF ListInv, Holds, ListIsWhatIsWanted
<1> QED BY <1>1, ListInitial, ListStep, PTL DEF NdmSpec

-------------------------------------------------------------------------------
\* The report of a rollout.

SpecType == [generation : Nat, template : Nat, replicas : Nat]
StatusType == [observed : Nat, replicas : Nat, updated : Nat, available : Nat, deadline : BOOLEAN]

RolloutType ==
  /\ spec \in SpecType /\ seen \in SpecType
  /\ old \in Nat /\ new \in Nat /\ ready \in Nat /\ stuck \in BOOLEAN
  /\ status \in StatusType
  /\ report \in [generation : Nat, rolledOut : BOOLEAN]
  /\ complete \subseteq Nat

\* The controller and the status are behind the specification; there is one
\* specification of each generation.
Behind ==
  /\ status.observed <= seen.generation
  /\ seen.generation <= spec.generation
  /\ seen.generation = spec.generation => seen = spec

\* When every pod is of the specification the controller sees, and available,
\* that generation is complete.
PodsComplete ==
  /\ ready <= new
  /\ old = 0 /\ new >= seen.replicas /\ ready = new => seen.generation \in complete

(***************************************************************************)
(* The copy that RolloutStatus reads is of two ages.  A status that is     *)
(* acceptable for the specification is not older than it, and was written  *)
(* when every pod was available; a status of an earlier generation, which  *)
(* may show as many pods, is told from it by the observed generation only. *)
(***************************************************************************)
StatusIsProof ==
  /\ status.observed = spec.generation
  /\ status.updated >= spec.replicas
  /\ status.replicas <= status.updated /\ status.available >= status.updated
  => spec.generation \in complete

RolloutInv == RolloutType /\ Behind /\ PodsComplete /\ StatusIsProof /\ ReportedIsComplete

-------------------------------------------------------------------------------
USE RolloutAssumption

LEMMA RolloutInitInv == RolloutInit => RolloutInv
<1> SUFFICES ASSUME RolloutInit PROVE RolloutInv
  OBVIOUS
<1> USE DEF RolloutInit
<1>1. PICK r \in 0 .. MaxReplicas : spec = [generation |-> 1, template |-> 1, replicas |-> r]
  OBVIOUS
<1>2. spec \in SpecType /\ seen = spec
  BY <1>1 DEF SpecType
<1>3. status \in StatusType /\ status.observed = 0
  BY DEF StatusType, StatusOf
<1>4. report \in [generation : Nat, rolledOut : BOOLEAN] /\ ~report.rolledOut
  BY DEF NoReport
<1>5. RolloutType
  <2>1. stuck \in BOOLEAN
    BY Zenon
  <2>2. old \in Nat /\ new \in Nat /\ ready \in Nat /\ complete \subseteq Nat
    OBVIOUS
  <2> QED BY <1>2, <1>3, <1>4, <2>1, <2>2, Zenon DEF RolloutType
<1>6. Behind /\ StatusIsProof
  <2>1. spec.generation = 1 /\ seen.generation = 1
    BY <1>1, <1>2
  <2> HIDE DEF RolloutInit
  <2>2. Behind
    BY <1>2, <1>3, <2>1 DEF Behind
  <2>3. StatusIsProof
    BY <1>3, <2>1 DEF StatusIsProof
  <2> QED BY <2>2, <2>3
<1>7. PodsComplete
  BY <1>1, <1>2 DEF PodsComplete
<1> QED BY <1>4, <1>5, <1>6, <1>7 DEF RolloutInv, ReportedIsComplete

(***************************************************************************)
(* What RolloutStatus accepts: none of the checks names a reason.          *)
(***************************************************************************)
LEMMA AcceptedStatus ==
  ASSUME NEW sp \in SpecType, NEW st \in StatusType, IsRollout(sp, st)
  PROVE  /\ ~IsOlderReplicaActive(sp, st) /\ ~IsTerminationInProgress(st)
         /\ ~IsUpdateInProgress(st) /\ ~IsNotSyncSpec(sp, st)
<1>1. /\ "OlderReplicaActive" \notin rolloutChecks(sp, st)
      /\ "TerminationInProgress" \notin rolloutChecks(sp, st)
      /\ "UpdateInProgress" \notin rolloutChecks(sp, st)
      /\ "NotSpecSynced" \notin rolloutChecks(sp, st)
  BY DEF IsRollout
<1> QED BY <1>1 DEF rolloutChecks

LEMMA RolloutStatusInv == ASSUME RolloutInv, RolloutStatus PROVE RolloutInv'
<1> USE DEF RolloutInv, RolloutStatus
<1>1. spec \in SpecType /\ status \in StatusType /\ spec.generation \in Nat
  BY DEF RolloutType, SpecType
<1>2. report'.generation = spec.generation /\ (report'.rolledOut <=> IsRollout(spec, status))
  OBVIOUS
<1>3. IsRollout(spec, status) \in BOOLEAN
  BY DEF IsRollout
<1>4. report' \in [generation : Nat, rolledOut : BOOLEAN]
  BY <1>1, <1>3
<1>5. RolloutType'
  BY <1>4 DEF RolloutType
<1>6. ASSUME IsRollout(spec, status) PROVE spec.generation \in complete
  <2>1. /\ status.updated >= spec.replicas /\ status.replicas <= status.updated
        /\ status.available >= status.updated /\ spec.generation <= status.observed
    BY <1>1, <1>6, AcceptedStatus DEF SpecType, StatusType, IsOlderReplicaActive, IsTerminationInProgress,
                                IsUpdateInProgress, IsNotSyncSpec
  <2>2. status.observed = spec.generation
    BY <2>1 DEF Behind, RolloutType, SpecType, StatusType
  <2> QED BY <2>1, <2>2 DEF StatusIsProof
<1>7. ReportedIsComplete'
  BY <1>2, <1>6 DEF ReportedIsComplete
<1> QED BY <1>5, <1>7 DEF Behind, PodsComplete, StatusIsProof

LEMMA UpdateInv == ASSUME RolloutInv, Update PROVE RolloutInv'
<1> USE DEF RolloutInv
<1>1. PICK r \in 0 .. MaxReplicas, t \in {spec.template, spec.generation + 1} :
        spec' = [generation |-> spec.generation + 1, template |-> t, replicas |-> r]
  BY DEF Update
<1>2. UNCHANGED <<seen, old, new, ready, stuck, status, report, complete>>
  BY DEF Update
<1>3. spec' \in SpecType /\ spec'.generation = spec.generation + 1
  BY <1>1 DEF RolloutType, SpecType
<1>4. RolloutType'
  BY <1>2, <1>3 DEF RolloutType
<1>5. Behind' /\ StatusIsProof'
  BY <1>2, <1>3 DEF Behind, StatusIsProof, RolloutType, SpecType, StatusType
<1>6. PodsComplete' /\ ReportedIsComplete'
  BY <1>2 DEF PodsComplete, ReportedIsComplete
<1> QED BY <1>4, <1>5, <1>6

LEMMA ObserveInv == ASSUME RolloutInv, Observe PROVE RolloutInv'
<1> USE DEF RolloutInv
<1>1. seen' = spec /\ stuck' = FALSE /\ UNCHANGED <<spec, status, report>>
  BY DEF Observe
<1>2. old' \in Nat /\ new' \in Nat /\ ready' \in Nat /\ ready' <= new'
  BY DEF Observe, RolloutType, PodsComplete
<1>3. /\ complete' = complete \/ complete' = complete \cup {spec.generation}
      /\ old' = 0 /\ new' >= spec.replicas /\ ready' = new' => spec.generation \in complete'
  BY DEF Observe, Completed
<1>4. spec.generation \in Nat
  BY DEF RolloutType, SpecType
<1>5. RolloutType'
  BY <1>1, <1>2, <1>3, <1>4 DEF RolloutType
<1>6. Behind' /\ StatusIsProof'
  BY <1>1, <1>3 DEF Behind, StatusIsProof, RolloutType, SpecType, StatusType
<1>7. PodsComplete' /\ ReportedIsComplete'
  BY <1>1, <1>2, <1>3 DEF PodsComplete, ReportedIsComplete
<1> QED BY <1>5, <1>6, <1>7

LEMMA PodsInv ==
  ASSUME RolloutInv, NEW o \in Nat, NEW n \in Nat, NEW r \in Nat, r <= n, Pods(o, n, r), stuck' \in BOOLEAN
  PROVE  RolloutInv'
<1> USE DEF RolloutInv
<1>1. old' = o /\ new' = n /\ ready' = r /\ UNCHANGED <<spec, seen, status, report>>
  BY DEF Pods
<1>2. /\ complete' = complete \/ complete' = complete \cup {seen.generation}
      /\ o = 0 /\ n >= seen.replicas /\ r = n => seen.generation \in complete'
  BY DEF Pods, Completed
<1>3. seen.generation \in Nat
  BY DEF RolloutType, SpecType
<1>4. RolloutType'
  BY <1>1, <1>2, <1>3 DEF RolloutType
<1>5. Behind' /\ StatusIsProof'
  BY <1>1, <1>2 DEF Behind, StatusIsProof
<1>6. PodsComplete' /\ ReportedIsComplete'
  BY <1>1, <1>2 DEF PodsComplete, ReportedIsComplete
<1> QED BY <1>4, <1>5, <1>6

LEMMA ControllerInv ==
  ASSUME RolloutInv, StartPod \/ StopOld \/ StopNew \/ BecomeReady \/ Crash
  PROVE  RolloutInv'
<1>1. old \in Nat /\ new \in Nat /\ ready \in Nat /\ ready <= new /\ stuck \in BOOLEAN
  BY DEF RolloutInv, RolloutType, PodsComplete
<1>2. seen.replicas \in Nat
  BY DEF RolloutInv, RolloutType, SpecType
<1>3. stuck' \in BOOLEAN
  BY <1>1 DEF StartPod, StopOld, StopNew, BecomeReady, Crash
<1>4. CASE StartPod
  BY <1>1, <1>3, <1>4, PodsInv DEF StartPod
<1>5. CASE StopOld
  BY <1>1, <1>3, <1>5, PodsInv DEF StopOld
<1>6. CASE StopNew
  <2>1. new - 1 \in Nat /\ (IF ready = new THEN ready - 1 ELSE ready) \in Nat
        /\ (IF ready = new THEN ready - 1 ELSE ready) <= new - 1
    BY <1>1, <1>2, <1>6 DEF StopNew
  <2> QED BY <1>1, <1>3, <1>6, <2>1, PodsInv DEF StopNew
<1>7. CASE BecomeReady
  BY <1>1, <1>3, <1>7, PodsInv DEF BecomeReady
<1>8. CASE Crash
  BY <1>1, <1>3, <1>8, PodsInv DEF Crash
<1> QED BY <1>4, <1>5, <1>6, <1>7, <1>8

LEMMA WriteStatusInv == ASSUME RolloutInv, WriteStatus PROVE RolloutInv'
<1> USE DEF RolloutInv, WriteStatus
<1>1. /\ status'.observed = seen.generation /\ status'.replicas = old + new
      /\ status'.updated = new /\ status'.available = ready
  BY DEF StatusOf
<1>2. status' \in StatusType
  BY DEF StatusOf, StatusType, RolloutType, SpecType
<1>3. RolloutType'
  BY <1>2 DEF RolloutType
<1>4. Behind'
  BY <1>1 DEF Behind, RolloutType, SpecType
<1>5. StatusIsProof'
  BY <1>1 DEF StatusIsProof, Behind, PodsComplete, RolloutType, SpecType
<1> QED BY <1>3, <1>4, <1>5 DEF PodsComplete, ReportedIsComplete

(***************************************************************************)
(* RolloutInv holds always.                                                       *)
(***************************************************************************)
THEOREM RolloutInvariance == RolloutSpec => []RolloutInv
<1>1. ASSUME RolloutInv, MissDeadline \/ UNCHANGED rolloutVars PROVE RolloutInv'
  <2>1. UNCHANGED <<spec, seen, old, new, ready, status, report, complete>> /\ stuck' \in BOOLEAN
    BY <1>1 DEF MissDeadline, rolloutVars, RolloutInv, RolloutType
  <2> QED
    BY <1>1, <2>1 DEF RolloutInv, RolloutType, Behind, PodsComplete, StatusIsProof, ReportedIsComplete
<1>2. RolloutInv /\ [RolloutNext]_rolloutVars => RolloutInv'
  BY <1>1, RolloutStatusInv, UpdateInv, ObserveInv, ControllerInv, WriteStatusInv
  DEF RolloutNext, Controller
<1> QED BY RolloutInitInv, <1>2, PTL DEF RolloutSpec

(***************************************************************************)
(* A rollout that RolloutStatus reports took place: the five checks on one *)
(* copy of the object are enough, however late its status is and whatever  *)
(* has become of the pods since.                                           *)
(***************************************************************************)
THEOREM ReportIsRight == RolloutSpec => []ReportedIsComplete
<1>1. RolloutInv => ReportedIsComplete
  BY DEF RolloutInv
<1> QED BY <1>1, RolloutInvariance, PTL

HIDE RolloutAssumption

-------------------------------------------------------------------------------
\* The clients of the API server.

SomeCluster == Clusters \cup {NoCluster}

ClientType ==
  /\ env \in SomeCluster
  /\ client \in [kind : DOMAIN Operations, path : SomeCluster, clientset : SomeCluster,
                 config : SomeCluster]

\* What the environment names now, for a client without a path.
Found == IF env # NoCluster THEN env ELSE Home

(***************************************************************************)
(* A cached clientset is that of the kubeconfig path, or was found in the  *)
(* environment.  Unless that changed before there was a config, the config *)
(* is of the same cluster, or will be.                                     *)
(***************************************************************************)
CacheIsOfCluster ==
  /\ client.clientset # NoCluster /\ client.path # NoCluster => client.clientset = client.path
  /\ client.config # NoCluster /\ client.path # NoCluster => client.config = client.path
  /\ client.clientset = NoCluster => client.config = NoCluster /\ objects = {} /\ coll = NoCollection
  /\ client.clientset # NoCluster /\ client.path = NoCluster /\ ~moved =>
       client.clientset = IF client.config = NoCluster THEN Found ELSE client.config

\* Everything the client made is in the cluster of its clientset.
ObjectsAreInCluster == \A o \in objects : o = <<client.clientset, o[2]>>

\* So is the last call, and if it was a command that of its credentials, which the
\* client keeps from then on.
CallIsInCluster ==
  /\ last.cluster # NoCluster => last.cluster = client.clientset
  /\ last.op = "Exec" /\ last.config # NoCluster => last.config = client.config

(***************************************************************************)
(* CreateCollection: what it has created so far is there, has different    *)
(* names, and was not there when it began.                                 *)
(***************************************************************************)
Made(i) == <<client.clientset, coll.list[i]>>

CollectionSoFar ==
  /\ coll.list \in Seq(Names)
  /\ Len(coll.created) \in 0 .. Len(coll.list)
  /\ coll.created \in Seq(Names)
  /\ coll.began \subseteq objects
  /\ \A i \in 1 .. Len(coll.created) : Made(i) \in objects \ coll.began
  /\ \A i, j \in 1 .. Len(coll.created) : coll.list[i] = coll.list[j] => i = j

ClientInv ==
  /\ ClientType /\ CacheIsOfCluster /\ ObjectsAreInCluster /\ CallIsInCluster
  /\ coll # NoCollection => CollectionSoFar

-------------------------------------------------------------------------------
USE KubeClientAssumption

LEMMA ClientInitInv == ClientInit => ClientInv
<1> SUFFICES ASSUME ClientInit PROVE ClientInv
  OBVIOUS
<1> USE DEF ClientInit
<1>1. ClientType /\ client.clientset = NoCluster /\ client.config = NoCluster
  BY DEF ClientType, SomeCluster
<1>2. CacheIsOfCluster
  BY <1>1 DEF CacheIsOfCluster
<1>3. ObjectsAreInCluster /\ CallIsInCluster
  BY DEF ObjectsAreInCluster, CallIsInCluster, NoCall, CallOf
<1> QED BY <1>1, <1>2, <1>3 DEF ClientInv

(***************************************************************************)
(* What a client finds: the cluster it has cached, that of its path, or    *)
(* what the environment names now.                                         *)
(***************************************************************************)
LEMMA Lookup ==
  ASSUME ClientType, CacheIsOfCluster
  PROVE  /\ getClientsetOrCached \in SomeCluster /\ getKubeConfigOrCached \in SomeCluster
         /\ client.clientset # NoCluster => getClientsetOrCached = client.clientset
         /\ client.config # NoCluster => getKubeConfigOrCached = client.config
         /\ client.path # NoCluster => /\ getClientsetOrCached = client.path
                                       /\ getKubeConfigOrCached = client.path
         /\ client.path = NoCluster /\ client.clientset = NoCluster => getClientsetOrCached = Found
         /\ client.path = NoCluster /\ client.config = NoCluster => getKubeConfigOrCached = Found
<1>1. client.path \in SomeCluster /\ client.clientset \in SomeCluster /\ client.config \in SomeCluster
  BY DEF ClientType
<1> QED
  BY <1>1 DEF ClientType, CacheIsOfCluster, SomeCluster, getClientsetOrCached, getKubeConfigOrCached,
       getClientsetForPathOrDirect, getKubeConfigForPathOrDirect, ConfigFor, Found

(***************************************************************************)
(* A call that has found a cluster keeps it, and with it where everything  *)
(* made so far is.                                                         *)
(***************************************************************************)
LEMMA CachesInv ==
  ASSUME ClientType, CacheIsOfCluster, ObjectsAreInCluster,
         NEW c \in {client.config, getKubeConfigOrCached}, getClientsetOrCached # NoCluster,
         Caches(getClientsetOrCached, c), UNCHANGED <<env, moved>>
  PROVE  /\ ClientType' /\ CacheIsOfCluster'
         /\ client'.clientset = getClientsetOrCached /\ client'.config = c
         /\ \A o \in objects : o = <<getClientsetOrCached, o[2]>>
<1>1. /\ client' \in [kind : DOMAIN Operations, path : SomeCluster, clientset : SomeCluster,
                      config : SomeCluster]
      /\ client'.clientset = getClientsetOrCached /\ client'.config = c /\ client'.path = client.path
  <2>1. c \in SomeCluster /\ getClientsetOrCached \in SomeCluster
    BY Lookup DEF ClientType
  <2> QED BY <2>1 DEF ClientType, Caches
<1>2. ClientType'
  BY <1>1 DEF ClientType
<1>3. CacheIsOfCluster'
  BY <1>1, Lookup DEF CacheIsOfCluster, Found
<1>4. \A o \in objects : o = <<getClientsetOrCached, o[2]>>
  <2>1. CASE client.clientset = NoCluster
    BY <2>1 DEF CacheIsOfCluster
  <2>2. CASE client.clientset # NoCluster
    <3>1. getClientsetOrCached = client.clientset
      BY <2>2, Lookup
    <3> QED BY <3>1 DEF ObjectsAreInCluster
  <2> QED BY <2>1, <2>2
<1> QED BY <1>1, <1>2, <1>3, <1>4

\* Create, Delete, DeleteCollection, Get, List, Update and Patch.
LEMMA ReachesInv ==
  ASSUME ClientInv, NEW op, NEW n, Reaches(op, n), op # "Exec",
         \E ok \in BOOLEAN : Outcome(op, ok),
         \A o \in objects' : o \in objects \/ o = <<getClientsetOrCached, n>>
  PROVE  ClientInv'
<1> USE DEF ClientInv
<1>1. /\ getClientsetOrCached # NoCluster /\ Caches(getClientsetOrCached, client.config)
      /\ UNCHANGED <<env, coll, moved>> /\ coll = NoCollection
  BY DEF Reaches, Offers
<1>2. /\ ClientType' /\ CacheIsOfCluster' /\ client'.clientset = getClientsetOrCached
      /\ \A o \in objects : o = <<getClientsetOrCached, o[2]>>
  BY <1>1, CachesInv
<1>3. ObjectsAreInCluster'
  <2> SUFFICES ASSUME NEW o \in objects' PROVE o = <<getClientsetOrCached, o[2]>>
    BY <1>2 DEF ObjectsAreInCluster
  <2>1. CASE o \in objects
    BY <1>2, <2>1
  <2>2. CASE o = <<getClientsetOrCached, n>>
    BY <2>2
  <2> QED BY <2>1, <2>2
<1>4. CallIsInCluster'
  <2>1. PICK ok \in BOOLEAN : Outcome(op, ok)
    OBVIOUS
  <2>2. last'.op = op /\ last'.cluster = getClientsetOrCached
    BY <2>1 DEF Outcome, CallOf
  <2> QED BY <1>2, <2>2 DEF CallIsInCluster
<1> QED BY <1>1, <1>2, <1>3, <1>4

LEMMA CallInv ==
  ASSUME ClientInv, NEW n \in Names \cup {""},
         Create(n) \/ Delete(n) \/ DeleteCollection \/ (\E op : Access(op, n))
  PROVE  ClientInv'
<1>1. CASE Create(n)
  BY <1>1, ReachesInv DEF Create
<1>2. CASE Delete(n)
  BY <1>2, ReachesInv DEF Delete
<1>3. CASE DeleteCollection
  BY <1>3, ReachesInv DEF DeleteCollection
<1>4. ASSUME NEW op, Access(op, n) PROVE ClientInv'
  BY <1>4, ReachesInv DEF Access
<1> QED BY <1>1, <1>2, <1>3, <1>4

\* A call that is refused keeps nothing.
LEMMA RefusedInv == ASSUME ClientInv, NEW op, NEW n, Refused(op, n) PROVE ClientInv'
<1> USE DEF ClientInv, Refused
<1>1. CallIsInCluster'
  BY DEF CallIsInCluster, CallOf
<1>2. ClientType' /\ CacheIsOfCluster' /\ ObjectsAreInCluster'
  BY DEF ClientType, CacheIsOfCluster, ObjectsAreInCluster, Found
<1> QED BY <1>1, <1>2 DEF CollectionSoFar, Offers

LEMMA ExecInv == ASSUME ClientInv, Exec PROVE ClientInv'
<1> USE DEF ClientInv
<1>1. /\ getClientsetOrCached # NoCluster /\ Caches(getClientsetOrCached, getKubeConfigOrCached)
      /\ UNCHANGED <<env, objects, coll, moved>> /\ coll = NoCollection
      /\ last'.cluster = getClientsetOrCached /\ last'.config = getKubeConfigOrCached
  BY DEF Exec, Offers, CallOf
<1>2. /\ ClientType' /\ CacheIsOfCluster'
      /\ client'.clientset = getClientsetOrCached /\ client'.config = getKubeConfigOrCached
      /\ \A o \in objects : o = <<getClientsetOrCached, o[2]>>
  BY <1>1, CachesInv
<1>3. ObjectsAreInCluster' /\ CallIsInCluster'
  BY <1>1, <1>2 DEF ObjectsAreInCluster, CallIsInCluster
<1> QED BY <1>1, <1>2, <1>3

LEMMA CreateCollectionInv ==
  ASSUME ClientInv, NEW l \in Collections, CreateCollection(l)
  PROVE  ClientInv'
<1> USE DEF ClientInv
<1>1. /\ getClientsetOrCached # NoCluster /\ Caches(getClientsetOrCached, client.config)
      /\ UNCHANGED <<env, objects, last, moved>>
      /\ coll'.list = l /\ coll'.created = <<>> /\ coll'.began = objects
  BY DEF CreateCollection, Collection
<1>2. /\ ClientType' /\ CacheIsOfCluster'
      /\ client'.clientset = getClientsetOrCached /\ client'.config = client.config
      /\ \A o \in objects : o = <<getClientsetOrCached, o[2]>>
  BY <1>1, CachesInv
<1>3. ObjectsAreInCluster' /\ CallIsInCluster'
  BY <1>1, <1>2, Lookup DEF ObjectsAreInCluster, CallIsInCluster
<1>4. CollectionSoFar'
  <2>1. l \in Seq(Names) /\ <<>> \in Seq(Names) /\ Len(<<>>) = 0
    OBVIOUS
  <2>2. /\ coll'.list \in Seq(Names) /\ coll'.created \in Seq(Names)
        /\ Len(coll'.created) = 0 /\ Len(coll'.list) \in Nat
    BY <1>1, <2>1
  <2> QED BY <1>1, <2>2 DEF CollectionSoFar
<1> QED BY <1>2, <1>3, <1>4

LEMMA CreateNextInv == ASSUME ClientInv, CreateNext PROVE ClientInv'
<1> USE DEF ClientInv
<1> DEFINE k == Len(coll.created) + 1
           n == coll.list[k]
<1>1. /\ coll # NoCollection /\ Len(coll.created) < Len(coll.list)
      /\ UNCHANGED <<env, client, moved, sent>>
      /\ client.clientset # NoCluster /\ getClientsetOrCached = client.clientset
  BY Lookup DEF CreateNext, CacheIsOfCluster
<1>2. ClientType'
  BY <1>1 DEF ClientType
<1>3. CASE coll' = NoCollection /\ Outcome("CreateCollection", FALSE) /\ UNCHANGED objects
  BY <1>1, <1>2, <1>3 DEF CacheIsOfCluster, Found, ObjectsAreInCluster, CallIsInCluster, Outcome, CallOf
<1>4. CASE /\ <<client.clientset, n>> \notin objects
           /\ objects' = objects \cup {<<client.clientset, n>>}
           /\ coll' = Collection(coll.list, Append(coll.created, n), coll.began)
           /\ UNCHANGED last
  <2>0. CollectionSoFar
    BY <1>1
  <2> HIDE DEF ClientInv
  <2>1. CacheIsOfCluster' /\ ObjectsAreInCluster' /\ CallIsInCluster'
    <3>1. CacheIsOfCluster /\ ObjectsAreInCluster /\ CallIsInCluster
      BY DEF ClientInv
    <3>2. CacheIsOfCluster' /\ CallIsInCluster'
      BY <1>1, <1>4, <3>1 DEF CacheIsOfCluster, Found, CallIsInCluster
    <3>3. ObjectsAreInCluster'
      BY <1>1, <1>4, <3>1 DEF ObjectsAreInCluster
    <3> QED BY <3>2, <3>3
  <2>2. /\ coll.list \in Seq(Names) /\ coll.created \in Seq(Names) /\ n \in Names
        /\ k \in 1 .. Len(coll.list) /\ Len(coll.created) \in Nat
    <3>1. /\ coll.list \in Seq(Names) /\ coll.created \in Seq(Names)
          /\ Len(coll.list) \in Nat /\ Len(coll.created) \in Nat
      BY <2>0 DEF CollectionSoFar
    <3>2. k \in 1 .. Len(coll.list)
      BY <1>1, <3>1
    <3> QED BY <3>1, <3>2
  <2> HIDE DEF n
  <2>3. /\ coll'.list = coll.list /\ coll'.began = coll.began
        /\ coll'.created \in Seq(Names) /\ Len(coll'.created) = k
    BY <1>4, <2>2 DEF Collection
  <2>4. \A i \in 1 .. k : Made(i)' = Made(i)
    BY <1>1, <2>3 DEF Made
  <2>5. \A i \in 1 .. k : i = k \/ i \in 1 .. Len(coll.created)
    BY <2>2
  <2>6. Made(k) = <<client.clientset, n>>
    BY DEF Made, n
  <2>7. \A i \in 1 .. k : Made(i)' \in objects' \ coll'.began
    BY <1>4, <2>0, <2>3, <2>4, <2>5, <2>6 DEF CollectionSoFar
  <2>8. \A i \in 1 .. Len(coll.created) : coll.list[i] # n
    BY <1>4, <2>0 DEF CollectionSoFar, Made
  <2>9. \A i, j \in 1 .. k : coll.list[i] = coll.list[j] => i = j
    BY <2>0, <2>5, <2>8 DEF CollectionSoFar, n
  <2>10. CollectionSoFar'
    BY <1>4, <2>0, <2>2, <2>3, <2>7, <2>9 DEF CollectionSoFar
  <2> QED BY <1>2, <2>1, <2>10 DEF ClientInv
<1> QED BY <1>1, <1>3, <1>4 DEF CreateNext

LEMMA EndInv == ASSUME ClientInv, CollectionDone \/ ChangeEnv \/ UNCHANGED clientVars PROVE ClientInv'
<1> USE DEF ClientInv
<1>1. CASE CollectionDone
  <2>1. /\ coll # NoCollection /\ coll' = NoCollection /\ UNCHANGED <<env, client, objects, moved>>
        /\ last'.op = "CreateCollection" /\ last'.cluster = getClientsetOrCached
    BY <1>1 DEF CollectionDone, Outcome, CallOf
  <2>2. ClientType' /\ CacheIsOfCluster' /\ ObjectsAreInCluster'
    BY <2>1 DEF ClientType, CacheIsOfCluster, Found, ObjectsAreInCluster
  <2>3. getClientsetOrCached = client.clientset
    BY <2>1, Lookup DEF CacheIsOfCluster
  <2>4. CallIsInCluster'
    BY <2>1, <2>3 DEF CallIsInCluster
  <2> QED BY <2>1, <2>2, <2>4
<1>2. CASE ChangeEnv
  <2>1. ClientType' /\ ObjectsAreInCluster'
    BY <1>2 DEF ChangeEnv, ClientType, SomeCluster, ObjectsAreInCluster
  <2>2. CacheIsOfCluster' /\ CallIsInCluster'
    BY <1>2 DEF ChangeEnv, CacheIsOfCluster, CallIsInCluster
  <2>3. (coll # NoCollection => CollectionSoFar)'
    BY <1>2 DEF ChangeEnv, CollectionSoFar, Made
  <2> QED BY <2>1, <2>2, <2>3
<1>3. CASE UNCHANGED clientVars
  BY <1>3 DEF clientVars, ClientType, CacheIsOfCluster, Found, ObjectsAreInCluster, CallIsInCluster,
              CollectionSoFar, Made
<1> QED BY <1>1, <1>2, <1>3

(***************************************************************************)
(* ClientInv holds always.                                                       *)
(***************************************************************************)
THEOREM ClientInvariance == ClientSpec => []ClientInv
<1>1. ClientInv /\ [ClientNext]_clientVars => ClientInv'
  BY CallInv, RefusedInv, ExecInv, CreateCollectionInv, CreateNextInv, EndInv DEF ClientNext
<1> QED BY ClientInitInv, <1>1, PTL DEF ClientSpec

-------------------------------------------------------------------------------
(***************************************************************************)
(* Everything a client made is in one cluster, that of its kubeconfig path *)
(* if it has one, and its later calls and commands go there, however the   *)
(* environment changes between its calls.  The credentials of a command    *)
(* are of that cluster too, but for a client without a path whose          *)
(* environment changed between its first call and its first command.       *)
(***************************************************************************)
THEOREM OneCluster == ClientSpec => []ClientStaysInOneCluster
<1>1. ClientInv => ClientStaysInOneCluster
  BY DEF ClientInv, CacheIsOfCluster, ObjectsAreInCluster, CallIsInCluster, ClientStaysInOneCluster
<1> QED BY <1>1, ClientInvariance, PTL

(***************************************************************************)
(* CreateCollection succeeds only when it created every object of its list *)
(* itself: the names are different and none of them was there before.      *)
(***************************************************************************)
THEOREM NewCollection == ClientSpec => CollectionIsNew
<1>1. ASSUME ClientInv, CollectionDone PROVE SucceedsWithNew
  <2>1. CollectionSoFar /\ Len(coll.created) = Len(coll.list)
    BY <1>1 DEF ClientInv, CollectionDone
  <2>2. /\ coll.list \in Seq(Names) /\ Len(coll.list) \in Nat
        /\ coll.list \in [1 .. Len(coll.list) -> Names]
        /\ DOMAIN coll.list = 1 .. Len(coll.list)
        /\ coll.list \in [1 .. Len(coll.list) -> Range(coll.list)]
    BY <2>1 DEF CollectionSoFar, Range
  <2>3. IsInjective(coll.list)
    BY <2>1, <2>2 DEF CollectionSoFar, IsInjective
  <2>4. coll.list \in Bijection(1 .. Len(coll.list), Range(coll.list))
    BY <2>2, <2>3 DEF Bijection, Injection, Surjection, Range
  <2>5. Cardinality(Range(coll.list)) = Len(coll.list)
    BY <2>2, <2>4, FS_CountingElements DEF ExistsBijection
  <2>6. \A o \in coll.began : o[1] = client.clientset => o[2] \notin Range(coll.list)
    <3> SUFFICES ASSUME NEW o \in coll.began, o[1] = client.clientset,
                        NEW i \in 1 .. Len(coll.list), o[2] = coll.list[i]
                 PROVE  FALSE
      BY <2>2 DEF Range
    <3>1. o \in objects
      BY <2>1 DEF CollectionSoFar
    <3>2. o = Made(i)
      BY <1>1, <3>1 DEF ClientInv, ObjectsAreInCluster, Made
    <3> QED BY <2>1, <3>2 DEF CollectionSoFar
  <2> QED BY <2>5, <2>6 DEF SucceedsWithNew
<1>2. ClientInv /\ [ClientNext]_clientVars => [SucceedsWithNew]_clientVars
  BY <1>1 DEF SucceedsWithNew
<1> QED BY <1>2, ClientInvariance, PTL DEF ClientSpec, CollectionIsNew
================================================================================
