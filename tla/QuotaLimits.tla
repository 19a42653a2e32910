----------------------------- MODULE QuotaLimits -----------------------------
(***************************************************************************)
(* The limits of a quota: convertToK turns a grace percentage and the      *)
(* requested size into kilobytes, validateLimits fills in a missing pair   *)
(* and rejects a soft limit above the hard one.  The code carries limits   *)
(* as decimal strings ("105k") and compares them as strings: first by      *)
(* length, then lexicographically.                                         *)
(***************************************************************************)
EXTENDS Integers, Sequences

CONSTANTS
  Sizes,  \* the sizes in bytes a claim may request
  Tenths  \* the percentages a StorageClass may name, in tenths

ASSUME LimitsAssumption == Sizes \subseteq Nat \ {0} /\ Tenths \subseteq Nat

VARIABLES
  pvcStorage,      \* the requested size
  softLimitGrace,  \* the grace percentages of the StorageClass
  hardLimitGrace,
  softLimit,       \* the limits that createQuotaPod puts in their place
  hardLimit,
  outcome          \* what createQuotaPod does: "pending", "launched" or "rejected"

limitVars == <<pvcStorage, softLimitGrace, hardLimitGrace, softLimit, hardLimit, outcome>>

(***************************************************************************)
(* A grace is absent (""), a percentage, or a string of another form; a    *)
(* limit is the sequence of its digits.                                    *)
(***************************************************************************)
Absent == [form |-> "absent", tenths |-> 0]
Malformed == [form |-> "malformed", tenths |-> 0]
Percent(t) == [form |-> "percent", tenths |-> t]
Graces == {Absent, Malformed} \cup {Percent(t) : t \in Tenths}

CeilDiv(a, b) == (a + b - 1) \div b
Smaller(a, b) == IF a < b THEN a ELSE b

\* strconv.FormatFloat of a whole number: its digits, the first not 0 unless it is alone.
FormatK[k \in Nat] == IF k < 10 THEN <<k>> ELSE Append(FormatK[k \div 10], k % 10)

ZeroK == <<0>>

\* s > t on strings.
StringGreater(s, t) ==
  \/ \E i \in 1..Len(s) :
       /\ i <= Len(t) /\ s[i] > t[i]
       /\ \A j \in 1..i - 1 : s[j] = t[j]
  \/ Len(s) > Len(t) /\ \A j \in 1..Len(t) : s[j] = t[j]

-----------------------------------------------------------------------------
\* Mutant of GraceInK: the percentage is taken of the size, not added to it.
GraceInKOfSize(tenths, size) == CeilDiv(size * Smaller(tenths, 1000), 1000 * 1024)

\* The arithmetic of convertToK: at most 100% more than the size, rounded up.
GraceInK(tenths, size) == CeilDiv(size * (1000 + Smaller(tenths, 1000)), 1000 * 1024)

convertToK(grace, size) ==
  IF grace.form = "percent" THEN FormatK[GraceInK(grace.tenths, size)] ELSE ZeroK

\* Mutant of limitsInvalid: the lengths are not compared.
limitsComparedAsText(soft, hard) == soft # ZeroK /\ hard # ZeroK /\ StringGreater(soft, hard)

\* validateLimits returns an error.
limitsInvalid(soft, hard) ==
  /\ soft # ZeroK /\ hard # ZeroK
  /\ \/ Len(soft) > Len(hard)
     \/ Len(soft) = Len(hard) /\ StringGreater(soft, hard)

\* Mutant of defaultLimit: no limits are set when there is no grace.
noDefaultLimit(soft, hard, limit) == limit

\* validateLimits sets both limits to the requested size when there is neither.
defaultLimit(soft, hard, limit) ==
  IF soft = ZeroK /\ hard = ZeroK THEN FormatK[CeilDiv(pvcStorage, 1024)] ELSE limit

LimitsInit ==
  /\ pvcStorage \in Sizes
  /\ softLimitGrace \in Graces /\ hardLimitGrace \in Graces
  /\ softLimit = <<>> /\ hardLimit = <<>>
  /\ outcome = "pending"

createQuotaPod ==
  /\ outcome = "pending"
  /\ LET soft == convertToK(softLimitGrace, pvcStorage)
         hard == convertToK(hardLimitGrace, pvcStorage)
     IN  \/ /\ softLimitGrace # Malformed /\ hardLimitGrace # Malformed
            /\ ~limitsInvalid(soft, hard)
            /\ softLimit' = defaultLimit(soft, hard, soft)
            /\ hardLimit' = defaultLimit(soft, hard, hard)
            /\ outcome' = "launched"
         \/ /\ \/ softLimitGrace = Malformed \/ hardLimitGrace = Malformed
               \/ limitsInvalid(soft, hard)
            /\ outcome' = "rejected"
            /\ UNCHANGED <<softLimit, hardLimit>>
  /\ UNCHANGED <<pvcStorage, softLimitGrace, hardLimitGrace>>

LimitsSpec == LimitsInit /\ [][createQuotaPod]_limitVars

-----------------------------------------------------------------------------
\* The number a sequence of digits stands for.
Value(s) ==
  LET f[i \in 0..Len(s)] == IF i = 0 THEN 0 ELSE 10 * f[i - 1] + s[i] IN f[Len(s)]

(***************************************************************************)
(* The quota pod gets limits that hold at least the requested size, and at *)
(* least one of them; a limit that is set is at most twice the size,       *)
(* rounded up to a kilobyte; and the soft one does not exceed the hard one *)
(* as numbers, whatever the strings look like.                             *)
(***************************************************************************)
LimitsFitTheRequest ==
  outcome = "launched" =>
    LET soft == Value(softLimit)
        hard == Value(hardLimit)
    IN  /\ soft # 0 \/ hard # 0
        /\ \A k \in {soft, hard} \ {0} :
             1024 * k >= pvcStorage /\ 1024 * (k - 1) < 2 * pvcStorage
        /\ soft # 0 /\ hard # 0 => soft <= hard

(***************************************************************************)
(* createQuotaPod rejects limits only for a malformed grace, or for a soft *)
(* grace that is larger than a hard one: string comparison rejects nothing *)
(* else.                                                                   *)
(***************************************************************************)
OnlyBadLimitsAreRejected ==
  outcome = "rejected" =>
    \/ Malformed \in {softLimitGrace, hardLimitGrace}
    \/ /\ softLimitGrace.form = "percent" /\ hardLimitGrace.form = "percent"
       /\ softLimitGrace.tenths > hardLimitGrace.tenths

(***************************************************************************)
(* "Setting no value defaults to --> softLimitGrace: "0%" / hardLimitGrace: *)
(* "0%"" (docs/tutorials/hostpath/xfs_quota/enable-xfs-quota.md): without  *)
(* any grace createQuotaPod sets what it sets for 0% and 0%.               *)
(***************************************************************************)
NoGraceIsZeroPercent ==
  outcome = "launched" /\ softLimitGrace = Absent /\ hardLimitGrace = Absent =>
    /\ softLimit = convertToK(Percent(0), pvcStorage)
    /\ hardLimit = convertToK(Percent(0), pvcStorage)
=============================================================================
