--------------------------- MODULE TaskFundsProofs ---------------------------
(***************************************************************************)
(* Proofs about TaskFunds for any number of payers, keys, tasks and        *)
(* requests and any amounts: the type invariant; that the frozen balance   *)
(* of a payer is exactly what its unresolved tasks hold; that money is     *)
(* neither lost nor made; that the store implements the ledger; and that   *)
(* a key's usage and a window's usage cover what was charged to them.      *)
(* The last part is about BatchImage, whose jobs are tasks of TaskFunds:   *)
(* that their actors keep these promises of a task's owner.                *)
(***************************************************************************)
EXTENDS BatchImage, FiniteSetTheorems, FunctionTheorems, TLAPS

-----------------------------------------------------------------------------
(* Facts about Total.  None of them needs induction: a sum is the          *)
(* cardinality of a set of units, and changing one summand changes that    *)
(* set by a disjoint union.                                                *)

\* The units of finitely many natural summands are finitely many.
LEMMA UnitsFinite ==
  ASSUME NEW S, IsFiniteSet(S), NEW f, \A x \in S : f[x] \in Nat
  PROVE  IsFiniteSet(Units(f, S))
<1> DEFINE U == {UnitsOf(f, x) : x \in S}
           g == [x \in S |-> UnitsOf(f, x)]
<1>1. g \in Surjection(S, U)
  BY DEF Surjection
<1>2. IsFiniteSet(U)
  BY <1>1, FS_Surjection
<1>3. \A T \in U : IsFiniteSet(T)
  <2>1. SUFFICES ASSUME NEW x \in S PROVE IsFiniteSet(UnitsOf(f, x))
    OBVIOUS
  <2>2. f[x] \in Int
    OBVIOUS
  <2>3. IsFiniteSet({x})
    BY FS_Singleton
  <2>4. IsFiniteSet(1..f[x])
    BY <2>2, FS_Interval
  <2>5. QED BY <2>3, <2>4, FS_Product DEF UnitsOf
<1>4. QED BY <1>2, <1>3, FS_UNION DEF Units

\* f[x] summands have f[x] units.
LEMMA UnitsOfCardinality ==
  ASSUME NEW f, NEW x, f[x] \in Nat
  PROVE  IsFiniteSet(UnitsOf(f, x)) /\ Cardinality(UnitsOf(f, x)) = f[x]
<1>1. IsFiniteSet({x}) /\ Cardinality({x}) = 1
  BY FS_Singleton
<1> DEFINE n == f[x]
           R == 1..n
<1>2. n \in Nat
  OBVIOUS
<1> HIDE DEF n
<1>3. IsFiniteSet(R) /\ Cardinality(R) = n
  BY <1>2, FS_Interval
<1> HIDE DEF R
<1>4. IsFiniteSet({x} \X R) /\ Cardinality({x} \X R) = Cardinality({x}) * Cardinality(R)
  BY <1>1, <1>3, FS_Product
<1>5. Cardinality({x} \X R) = n
  BY <1>1, <1>2, <1>3, <1>4
<1>6. QED BY <1>4, <1>5 DEF UnitsOf, R, n

\* A total is a natural number.
LEMMA TotalNat ==
  ASSUME NEW S, IsFiniteSet(S), NEW f, \A x \in S : f[x] \in Nat
  PROVE  Total(f, S) \in Nat
BY UnitsFinite, FS_CardinalityType DEF Total

\* A total depends only on the summands.
LEMMA TotalSame ==
  ASSUME NEW S, NEW f, NEW g, \A x \in S : f[x] = g[x]
  PROVE  Total(f, S) = Total(g, S)
<1>1. \A x \in S : UnitsOf(f, x) = UnitsOf(g, x)
  BY DEF UnitsOf
<1>2. Units(f, S) = Units(g, S)
  BY <1>1 DEF Units
<1>3. QED BY <1>2 DEF Total

\* One summand can be taken out of a total.
LEMMA TotalSplit ==
  ASSUME NEW S, IsFiniteSet(S), NEW f, \A x \in S : f[x] \in Nat, NEW a \in S
  PROVE  Total(f, S) = Total(f, S \ {a}) + f[a]
<1> DEFINE R == S \ {a}
<1>1. IsFiniteSet(R)
  BY FS_RemoveElement
<1>2. IsFiniteSet(Units(f, R)) /\ Cardinality(Units(f, R)) \in Nat
  BY <1>1, UnitsFinite, FS_CardinalityType
<1>3. IsFiniteSet(UnitsOf(f, a)) /\ Cardinality(UnitsOf(f, a)) = f[a]
  BY UnitsOfCardinality
<1>4. Units(f, S) = Units(f, R) \cup UnitsOf(f, a)
  BY DEF Units
<1>5. Units(f, R) \cap UnitsOf(f, a) = {}
  BY DEF Units, UnitsOf
<1>6. Cardinality(Units(f, R) \cap UnitsOf(f, a)) = 0
  BY <1>5, FS_EmptySet
<1>7. Cardinality(Units(f, S)) = Cardinality(Units(f, R)) + f[a]
  <2>1. Cardinality(Units(f, R) \cup UnitsOf(f, a))
          = Cardinality(Units(f, R)) + f[a] - Cardinality(Units(f, R) \cap UnitsOf(f, a))
    BY <1>2, <1>3, FS_Union
  <2>2. QED BY <2>1, <1>2, <1>4, <1>6
<1>8. QED BY <1>7 DEF Total

\* Changing one summand changes the total by the difference.
LEMMA TotalChange ==
  ASSUME NEW S, IsFiniteSet(S), NEW a \in S,
         NEW f, \A x \in S : f[x] \in Nat,
         NEW g, \A x \in S : g[x] \in Nat,
         \A x \in S \ {a} : g[x] = f[x]
  PROVE  Total(g, S) = Total(f, S) - f[a] + g[a]
<1>1. Total(f, S \ {a}) \in Nat
  BY TotalNat, FS_RemoveElement
<1>2. Total(f, S) = Total(f, S \ {a}) + f[a]
  BY TotalSplit
<1>3. Total(g, S) = Total(g, S \ {a}) + g[a]
  BY TotalSplit
<1>4. Total(g, S \ {a}) = Total(f, S \ {a})
  BY TotalSame
<1>5. QED BY <1>1, <1>2, <1>3, <1>4

\* Every summand is at most the total.
LEMMA TotalBounds ==
  ASSUME NEW S, IsFiniteSet(S), NEW f, \A x \in S : f[x] \in Nat, NEW a \in S
  PROVE  f[a] <= Total(f, S)
<1>1. Total(f, S \ {a}) \in Nat
  BY TotalNat, FS_RemoveElement
<1>2. Total(f, S) = Total(f, S \ {a}) + f[a]
  BY TotalSplit
<1>3. QED BY <1>1, <1>2

\* Summands outside the set count for nothing: a total over a part of the set
\* is the total of the function that is zero elsewhere.
LEMMA TotalOfPart ==
  ASSUME NEW S, NEW T, T \subseteq S, NEW f, NEW g,
         \A x \in T : g[x] = f[x],
         \A x \in S \ T : g[x] = 0
  PROVE  Total(g, S) = Total(f, T)
<1>1. \A x \in T : UnitsOf(g, x) = UnitsOf(f, x)
  BY DEF UnitsOf
<1>2. \A x \in S \ T : UnitsOf(g, x) = {}
  BY DEF UnitsOf
<1>3. Units(g, S) = Units(f, T)
  BY <1>1, <1>2 DEF Units
<1>4. QED BY <1>3 DEF Total

\* When one summand changes by d, so does the total over every set it is in.
LEMMA TotalMoves ==
  ASSUME NEW S, IsFiniteSet(S), NEW a, NEW d \in Int,
         NEW f, \A x \in S : f[x] \in Nat,
         NEW g, \A x \in S : g[x] \in Nat,
         \A x \in S : g[x] = f[x] + (IF x = a THEN d ELSE 0)
  PROVE  Total(g, S) = Total(f, S) + (IF a \in S THEN d ELSE 0)
<1>1. Total(f, S) \in Nat
  BY TotalNat
<1>2. CASE a \in S
  <2>1. \A x \in S \ {a} : g[x] = f[x]
    OBVIOUS
  <2>2. Total(g, S) = Total(f, S) - f[a] + g[a]
    BY ONLY IsFiniteSet(S), a \in S, \A x \in S : f[x] \in Nat,
            \A x \in S : g[x] \in Nat, <1>2, <2>1, TotalChange
  <2>3. g[a] = f[a] + d /\ f[a] \in Nat
    BY <1>2
  <2>4. QED BY <1>1, <1>2, <2>2, <2>3
<1>3. CASE a \notin S
  <2>1. \A x \in S : g[x] = f[x]
    BY <1>3
  <2>2. Total(g, S) = Total(f, S)
    BY <2>1, TotalSame
  <2>3. QED BY <1>1, <1>3, <2>2
<1>4. QED BY <1>2, <1>3

\* A total in which only one summand is not zero is that summand.
LEMMA TotalOfOne ==
  ASSUME NEW S, NEW f, NEW a \in S, f[a] \in Nat, \A x \in S \ {a} : f[x] = 0
  PROVE  Total(f, S) = f[a]
<1>1. Total(f, S) = Total(f, {a})
  BY TotalOfPart
<1>2. Units(f, {a}) = UnitsOf(f, a)
  BY DEF Units
<1>3. QED BY <1>1, <1>2, UnitsOfCardinality DEF Total

LEMMA TotalOfNone ==
  ASSUME NEW S, NEW f, \A x \in S : f[x] = 0
  PROVE  Total(f, S) = 0
<1>1. Total(f, S) = Total(f, {})
  BY TotalOfPart
<1>2. Units(f, {}) = {}
  BY DEF Units
<1>3. QED BY <1>1, <1>2, FS_EmptySet DEF Total

\* A total over two sets without common members is the sum of the totals.
LEMMA TotalOfBoth ==
  ASSUME NEW S, IsFiniteSet(S), NEW T, IsFiniteSet(T), S \cap T = {},
         NEW f, \A x \in S \cup T : f[x] \in Nat
  PROVE  Total(f, S \cup T) = Total(f, S) + Total(f, T)
<1> DEFINE A == Units(f, S)
           B == Units(f, T)
<1>1. /\ IsFiniteSet(A) /\ Cardinality(A) \in Nat
      /\ IsFiniteSet(B) /\ Cardinality(B) \in Nat
  BY UnitsFinite, FS_CardinalityType
<1>2. Units(f, S \cup T) = A \cup B /\ A \cap B = {}
  BY DEF Units, UnitsOf
<1> HIDE DEF A, B
<1>3. Cardinality(A \cup B) = Cardinality(A) + Cardinality(B) - Cardinality(A \cap B)
  BY <1>1, FS_Union
<1>4. Cardinality(A \cap B) = 0
  BY <1>2, FS_EmptySet
<1>5. Cardinality(A \cup B) = Cardinality(A) + Cardinality(B)
  BY ONLY <1>1, <1>3, <1>4
<1>6. QED BY ONLY <1>2, <1>5 DEF Total, A, B

-----------------------------------------------------------------------------
USE FiniteAssumption, OwnershipAssumption, AmountAssumption, BoundAssumption

-----------------------------------------------------------------------------
(* The helpers keep the types of what they write.                            *)

LEMMA ClaimNames ==
  /\ \A t \in Tasks : HoldClaim(t) \in Claims
                      /\ CaptureClaim(t) \in Claims /\ ReleaseClaim(t) \in Claims
  /\ \A r \in Requests : UsageClaim(r) \in Claims
BY DEF Claims, HoldClaim, CaptureClaim, ReleaseClaim, UsageClaim

LEMMA Members ==
  /\ \A x \in Tasks \cup Requests : PayerOf[x] \in Users /\ KeyOf[x] \in Keys
  /\ \A t \in Tasks : Estimate[t] \in Nat
  /\ \A r \in Requests : Cost[r] \in Nat
OBVIOUS

LEMMA SubShareType ==
  ASSUME TypeOK, NEW x \in Tasks \cup Requests, NEW a \in Nat
  PROVE  SubShare(x, a) \in Nat /\ SubShare(x, a) <= a
<1>1. PayerOf[x] \in Users
  OBVIOUS
<1>2. UsedNow(PayerOf[x]) \in Nat /\ SubLimit[PayerOf[x]] \in Nat
  BY <1>1 DEF TypeOK, WindowTypeOK, UsedNow
<1>3. QED BY <1>2 DEF SubShare, Least

LEMMA UseWindowType ==
  ASSUME TypeOK, NEW x \in Tasks \cup Requests, NEW a \in Nat, UseWindow(x, a)
  PROVE  WindowTypeOK'
<1>1. PayerOf[x] \in Users
  OBVIOUS
<1>2. UsedNow(PayerOf[x]) \in Nat /\ IssueNow(PayerOf[x]) \in Nat
  BY <1>1 DEF TypeOK, WindowTypeOK, UsedNow, IssueNow
<1>3. QED BY <1>1, <1>2 DEF TypeOK, WindowTypeOK, UseWindow, window

LEMMA RefundWindowType ==
  ASSUME TypeOK, NEW t \in Tasks, NEW a \in Int, RefundWindow(t, a)
  PROVE  WindowTypeOK'
<1>1. PayerOf[t] \in Users
  OBVIOUS
<1>2. QED BY <1>1 DEF TypeOK, WindowTypeOK, RefundWindow, AtLeastZero

LEMMA KeyEffectsType ==
  ASSUME TypeOK, NEW k \in Keys, NEW a \in Nat,
         \/ ReserveKey(k, a) \/ RefundKeyBestEffort(k, a)
         \/ ChargeLegacyKey(k, a) \/ ChargeKey(k, a)
  PROVE  KeyTypeOK'
<1>1. CASE ReserveKey(k, a)
  BY <1>1 DEF TypeOK, KeyTypeOK, KeyStatuses, ReserveKey, keyConfig
<1>2. CASE RefundKey(k, a)
  BY <1>2 DEF TypeOK, KeyTypeOK, KeyStatuses, RefundKey, AtLeastZero, keyConfig
<1>3. CASE UNCHANGED keyVars
  BY <1>3 DEF TypeOK, KeyTypeOK, keyVars, keyConfig
<1>4. CASE ChargeLegacyKey(k, a)
  BY <1>4 DEF TypeOK, KeyTypeOK, KeyStatuses, ChargeLegacyKey, keyConfig
<1>5. CASE ChargeKey(k, a)
  BY <1>5 DEF TypeOK, KeyTypeOK, KeyStatuses, ChargeKey, keyConfig
<1>6. QED BY <1>1, <1>2, <1>3, <1>4, <1>5 DEF RefundKeyBestEffort

LEMMA TakeType ==
  ASSUME TypeOK, NEW c \in Claims, NEW fp \in Fingerprints, Take(c, fp)
  PROVE  ClaimTypeOK'
BY DEF TypeOK, ClaimTypeOK, Take

LEMMA WalletHoldType ==
  ASSUME NEW s \in FundsRows
  PROVE  WalletHold(s) \in Nat
BY DEF FundsRows, WalletHold

LEMMA KeptType ==
  ASSUME NEW s \in FundsRows, NEW a \in Nat
  PROVE  KeptSub(s, a) \in Nat /\ KeptSub(s, a) <= s.sub
         /\ KeptSub(s, a) <= a /\ KeptBal(s, a) \in Nat
BY DEF FundsRows, KeptSub, KeptBal, Least

LEMMA FieldUpdateType ==
  ASSUME TypeOK, NEW t \in Tasks
  PROVE  /\ [row EXCEPT ![t].allow = FALSE] \in [Tasks -> FundsRows]
         /\ [row EXCEPT ![t].hold = Estimate[t]] \in [Tasks -> FundsRows]
<1>1. row \in [Tasks -> FundsRows] /\ row[t] \in FundsRows
  BY DEF TypeOK, TaskTypeOK
<1>2. [row[t] EXCEPT !.allow = FALSE] \in FundsRows
  BY <1>1 DEF FundsRows
<1>3. [row[t] EXCEPT !.hold = Estimate[t]] \in FundsRows
  BY <1>1, Members DEF FundsRows
<1>4. QED BY <1>1, <1>2, <1>3

-----------------------------------------------------------------------------
(* Type correctness                                                          *)

LEMMA ReserveType ==
  ASSUME TypeOK, NEW t \in Tasks, Reserve(t)
  PROVE  TypeOK'
<1> DEFINE u == PayerOf[t]
           sub == SubShare(t, Estimate[t])
           bal == Estimate[t] - sub
<1>1. u \in Users /\ KeyOf[t] \in Keys /\ Estimate[t] \in Nat
  OBVIOUS
<1>2. sub \in Nat /\ bal \in Nat
  BY <1>1, SubShareType
<1> HIDE DEF sub
<1>3. WalletTypeOK'
  BY <1>1, <1>2 DEF Reserve, TypeOK, WalletTypeOK, sub
<1>4. WindowTypeOK'
  BY <1>2, UseWindowType DEF Reserve, sub
<1>5. KeyTypeOK'
  BY <1>1, KeyEffectsType DEF Reserve
<1>6. ClaimTypeOK'
  BY ClaimNames, TakeType DEF Reserve, Fingerprints
<1>7. TaskTypeOK'
  <2>1. [hold |-> Estimate[t], bal |-> bal, sub |-> sub, allow |-> TRUE] \in FundsRows
    BY <1>1, <1>2 DEF FundsRows
  <2>2. QED BY <2>1 DEF Reserve, TypeOK, TaskTypeOK, sub
<1>8. QED BY <1>3, <1>4, <1>5, <1>6, <1>7 DEF Reserve, TypeOK

\* Capturing the funds of any row keeps the types, whoever asks for it.
LEMMA CaptureFundsType ==
  ASSUME TypeOK, NEW t \in Tasks, NEW a \in Nat, NEW s \in FundsRows,
         CaptureFunds(t, s, a), Take(CaptureClaim(t), a),
         UNCHANGED <<createdDay, phase, day, charged>>
  PROVE  TypeOK'
<1>1. PayerOf[t] \in Users /\ KeyOf[t] \in Keys
  OBVIOUS
<1>2. s \in FundsRows
  OBVIOUS
<1>3. CaptureFunds(t, s, a)
  OBVIOUS
<1>4. /\ WalletHold(s) \in Nat /\ KeptBal(s, a) \in Nat
      /\ s.sub - KeptSub(s, a) \in Int
      /\ s.hold \in Nat /\ s.allow \in BOOLEAN
  BY <1>1, <1>2, WalletHoldType, KeptType DEF FundsRows
<1>5. WalletTypeOK'
  BY <1>1, <1>3, <1>4 DEF CaptureFunds, CaptureBalance, TypeOK, WalletTypeOK
<1>6. WindowTypeOK'
  BY <1>3, <1>4, RefundWindowType DEF CaptureFunds
<1>7. KeyTypeOK'
  <2>1. CASE s.allow /\ s.hold > a
    <3>1. s.hold - a \in Nat
      BY <1>1, <1>4, <2>1
    <3>2. RefundKeyBestEffort(KeyOf[t], s.hold - a)
      BY <1>3, <2>1 DEF CaptureFunds, CaptureAllowance
    <3>3. QED BY <1>1, <3>1, <3>2, KeyEffectsType
  <2>2. CASE ~s.allow /\ a > 0
    BY <1>1, <1>3, <2>2, KeyEffectsType DEF CaptureFunds, CaptureAllowance
  <2>3. CASE ~(s.allow /\ s.hold > a) /\ ~(~s.allow /\ a > 0)
    BY <1>3, <2>3 DEF CaptureFunds, CaptureAllowance, TypeOK, KeyTypeOK, keyVars, keyConfig
  <2>4. QED BY <2>1, <2>2, <2>3
<1>8. ClaimTypeOK'
  BY ClaimNames, TakeType DEF Fingerprints
<1>9. TaskTypeOK'
  <2>1. row' = [row EXCEPT ![t].allow = FALSE]
    BY <1>3 DEF CaptureFunds, CaptureAllowance
  <2>2. QED BY <2>1, FieldUpdateType DEF TypeOK, TaskTypeOK
<1>10. QED BY <1>5, <1>6, <1>7, <1>8, <1>9 DEF TypeOK

LEMMA CaptureType ==
  ASSUME TypeOK, NEW t \in Tasks, NEW a \in Actuals, Capture(t, a)
  PROVE  TypeOK'
BY CaptureFundsType DEF Capture, TypeOK, TaskTypeOK

\* So does releasing them.
LEMMA ReleaseFundsType ==
  ASSUME TypeOK, NEW t \in Tasks, NEW s \in FundsRows,
         ReleaseFunds(t, s), Take(ReleaseClaim(t), Plain),
         UNCHANGED <<createdDay, phase, day, charged>>
  PROVE  TypeOK'
<1>1. PayerOf[t] \in Users /\ KeyOf[t] \in Keys
  OBVIOUS
<1>2. s \in FundsRows
  OBVIOUS
<1>3. ReleaseFunds(t, s)
  OBVIOUS
<1>4. WalletHold(s) \in Nat /\ s.sub \in Nat /\ s.hold \in Nat
  BY <1>2, WalletHoldType DEF FundsRows
<1>5. WalletTypeOK'
  BY <1>1, <1>3, <1>4 DEF ReleaseFunds, ReleaseBalance, TypeOK, WalletTypeOK, wallet
<1>6. WindowTypeOK'
  <2>1. CASE Claimed(HoldClaim(t))
    BY <1>3, <1>4, <2>1, RefundWindowType DEF ReleaseFunds, ReleaseBalance
  <2>2. CASE ~Claimed(HoldClaim(t))
    BY <1>3, <2>2 DEF ReleaseFunds, ReleaseBalance, TypeOK, WindowTypeOK, window
  <2>3. QED BY <2>1, <2>2
<1>7. KeyTypeOK'
  <2>1. CASE s.allow
    BY <1>1, <1>3, <1>4, <2>1, KeyEffectsType DEF ReleaseFunds, ReleaseBalance
  <2>2. CASE ~s.allow
    BY <1>3, <2>2 DEF ReleaseFunds, ReleaseBalance, TypeOK, KeyTypeOK, keyVars, keyConfig
  <2>3. QED BY <2>1, <2>2
<1>8. ClaimTypeOK'
  BY ClaimNames, TakeType DEF Fingerprints
<1>9. TaskTypeOK'
  <2>1. row' = [row EXCEPT ![t].allow = FALSE]
    BY <1>3 DEF ReleaseFunds, ReleaseBalance
  <2>2. QED BY <2>1, FieldUpdateType DEF TypeOK, TaskTypeOK
<1>10. QED BY <1>5, <1>6, <1>7, <1>8, <1>9 DEF TypeOK

LEMMA ReleaseType ==
  ASSUME TypeOK, NEW t \in Tasks, Release(t)
  PROVE  TypeOK'
BY ReleaseFundsType DEF Release, TypeOK, TaskTypeOK

LEMMA ApplyType ==
  ASSUME TypeOK, NEW r \in Requests, Apply(r)
  PROVE  TypeOK'
<1> DEFINE sub == SubShare(r, Cost[r])
           bal == Cost[r] - sub
<1>1. PayerOf[r] \in Users /\ KeyOf[r] \in Keys /\ Cost[r] \in Nat
  OBVIOUS
<1>2. sub \in Nat /\ bal \in Nat
  BY <1>1, SubShareType
<1> HIDE DEF sub
<1>3. WalletTypeOK'
  BY <1>1, <1>2 DEF Apply, ApplyEffects, Deduct, TypeOK, WalletTypeOK, sub
<1>4. WindowTypeOK'
  BY <1>2, UseWindowType DEF Apply, ApplyEffects, sub
<1>5. KeyTypeOK'
  BY <1>1, KeyEffectsType DEF Apply, ApplyEffects
<1>6. ClaimTypeOK'
  BY ClaimNames, TakeType DEF Apply, Fingerprints
<1>7. charged' \in [Requests -> ShareRecords]
  BY <1>2 DEF Apply, ApplyEffects, TypeOK, ShareRecords, sub
<1>8. QED BY <1>3, <1>4, <1>5, <1>6, <1>7 DEF Apply, TypeOK, taskVars, TaskTypeOK

\* What an update writes has the types of the columns it writes.
LEMMA UpdateType ==
  ASSUME TypeOK, NEW e \in Updates, NEW st \in {"keep", "active", "disabled"},
         NEW limit \in NewQuotas \cup {SameQuota}, NEW reset \in BOOLEAN,
         UpdateKey(e, st, limit, reset)
  PROVE  KeyTypeOK'
<1> DEFINE k == KeyOfUpdate[e]
           final == StatusOfUpdate(edit[e], st, limit, reset)
<1>1. k \in Keys /\ edit[e] \in EditRecords /\ KeyTypeOK
  BY DEF TypeOK, KeyTypeOK
<1>2. final \in KeyStatuses
  <2>1. edit[e].status \in KeyStatuses
    BY <1>1 DEF EditRecords
  <2>2. QED BY <2>1 DEF StatusOfUpdate, KeyStatuses
<1>3. limit # SameQuota => limit \in Nat
  OBVIOUS
<1>4. [NotRead EXCEPT !.step = "done"] \in EditRecords
  BY DEF NotRead, EditRecords, KeyStatuses
<1> HIDE DEF final
<1>5. keyStatus' \in [Keys -> KeyStatuses]
  BY <1>1, <1>2 DEF UpdateKey, KeyTypeOK, final
<1>6. quota' \in [Keys -> Nat] /\ quotaUsed' \in [Keys -> Nat] /\ forgiven' \in [Keys -> Nat]
  BY <1>1, <1>3 DEF UpdateKey, KeyTypeOK
<1>7. edit' \in [Updates -> EditRecords]
  BY <1>1, <1>4 DEF UpdateKey, KeyTypeOK
<1>8. outdated' \in [Keys -> BOOLEAN] /\ ownerDisabled' \in [Keys -> BOOLEAN]
  BY <1>1 DEF UpdateKey, KeyTypeOK
<1>9. QED BY <1>5, <1>6, <1>7, <1>8 DEF KeyTypeOK

LEMMA OtherStepsType ==
  ASSUME TypeOK,
         \/ \E t \in Tasks : CreateTask(t)
         \/ \E t \in Tasks : \E p \in {"settling", "refunding"} : Decide(t, p)
         \/ KeyStep
         \/ \E C \in SUBSET {c \in Claims : live[c] # Absent} : Archive(C)
         \/ \E u \in Users : ResetWindow(u)
         \/ NextDay
         \/ UNCHANGED vars
  PROVE  TypeOK'
<1> USE DEF TypeOK
<1>1. ASSUME NEW t \in Tasks, CreateTask(t) PROVE TypeOK'
  <2>1. TaskTypeOK'
    BY <1>1, FieldUpdateType DEF CreateTask, TaskTypeOK, Phases
  <2>2. QED BY <1>1, <2>1 DEF CreateTask, wallet, window, keyVars, keyConfig, claimVars,
              WalletTypeOK, WindowTypeOK, KeyTypeOK, ClaimTypeOK
<1>2. ASSUME NEW t \in Tasks, NEW p \in {"settling", "refunding"}, Decide(t, p)
      PROVE  TypeOK'
  BY <1>2 DEF Decide, wallet, window, keyVars, keyConfig, claimVars, Phases,
     WalletTypeOK, WindowTypeOK, KeyTypeOK, ClaimTypeOK, TaskTypeOK
<1>3. CASE KeyStep
  <2>1. KeyTypeOK'
    <3>1. ASSUME NEW k \in Keys, DisableTeamKey(k) \/ EnableTeamKey(k) PROVE KeyTypeOK'
      BY <3>1 DEF DisableTeamKey, EnableTeamKey, KeyTypeOK, KeyStatuses
    <3>2. ASSUME NEW e \in Updates, ReadKey(e) PROVE KeyTypeOK'
      <4>1. Reading(KeyOfUpdate[e]) \in EditRecords
        BY DEF Reading, EditRecords, KeyTypeOK
      <4>2. QED BY <3>2, <4>1 DEF ReadKey, KeyTypeOK
    <3>3. ASSUME NEW e \in Updates, NEW st \in {"keep", "active", "disabled"},
                 NEW limit \in NewQuotas \cup {SameQuota}, NEW reset \in BOOLEAN,
                 UpdateKey(e, st, limit, reset)
          PROVE  KeyTypeOK'
      BY <3>3, UpdateType
    <3>4. QED BY <1>3, <3>1, <3>2, <3>3 DEF KeyStep
  <2>2. UNCHANGED <<wallet, window, claimVars, taskVars, day, charged, issueOf>>
    BY <1>3 DEF KeyStep, DisableTeamKey, EnableTeamKey, ReadKey, UpdateKey
  <2>3. QED BY <2>1, <2>2 DEF wallet, window, claimVars, taskVars,
              WalletTypeOK, WindowTypeOK, ClaimTypeOK, TaskTypeOK
<1>4. ASSUME NEW C \in SUBSET {c \in Claims : live[c] # Absent}, Archive(C)
      PROVE  TypeOK'
  <2>1. ClaimTypeOK'
    BY <1>4 DEF Archive, ClaimTypeOK, Fingerprints
  <2>2. QED BY <1>4, <2>1 DEF Archive, wallet, window, keyVars, keyConfig, taskVars,
              WalletTypeOK, WindowTypeOK, KeyTypeOK, TaskTypeOK
<1>5. ASSUME NEW u \in Users, ResetWindow(u) PROVE TypeOK'
  BY <1>5 DEF ResetWindow, wallet, keyVars, keyConfig, claimVars, taskVars,
     WalletTypeOK, WindowTypeOK, KeyTypeOK, ClaimTypeOK, TaskTypeOK
<1>6. CASE NextDay
  BY <1>6 DEF NextDay, wallet, window, keyVars, keyConfig, claimVars, taskVars,
     WalletTypeOK, WindowTypeOK, KeyTypeOK, ClaimTypeOK, TaskTypeOK
<1>7. CASE UNCHANGED vars
  BY <1>7 DEF vars, wallet, window, keyVars, keyConfig, claimVars, taskVars,
     WalletTypeOK, WindowTypeOK, KeyTypeOK, ClaimTypeOK, TaskTypeOK
<1>8. QED BY <1>1, <1>2, <1>3, <1>4, <1>5, <1>6, <1>7

LEMMA InitType == Init => TypeOK
<1> SUFFICES ASSUME Init PROVE TypeOK
  OBVIOUS
<1>1. \A u \in Users : Total(Estimate, TasksOf(u) \cap Legacy) \in Nat
  <2>1. ASSUME NEW u \in Users PROVE IsFiniteSet(TasksOf(u) \cap Legacy)
    BY FS_Subset DEF TasksOf
  <2>2. QED BY <2>1, TotalNat, Members DEF TasksOf
<1>2. WalletTypeOK
  <2>1. /\ balance = InitBalance
        /\ frozen = [u \in Users |-> Total(Estimate, TasksOf(u) \cap Legacy)]
    BY DEF Init
  <2>2. InitBalance \in [Users -> Int]
    <3>1. InitBalance \in [Users -> Nat]
      BY AmountAssumption
    <3>2. QED BY ONLY <3>1
  <2>3. frozen \in [Users -> Nat]
    BY ONLY <1>1, <2>1
  <2>4. QED BY ONLY <2>1, <2>2, <2>3 DEF WalletTypeOK
<1>3. \A t \in Tasks : OldRow(t) \in FundsRows /\ NoFunds \in FundsRows
  BY Members DEF OldRow, NoFunds, FundsRows
<1>4. TaskTypeOK
  BY <1>3 DEF Init, TaskTypeOK, Phases
<1>5. ClaimTypeOK
  BY DEF Init, ClaimTypeOK, Fingerprints
<1>6. NotRead \in EditRecords
  BY DEF NotRead, EditRecords, KeyStatuses
<1>7. QED BY <1>2, <1>4, <1>5, <1>6 DEF Init, TypeOK, WindowTypeOK, KeyTypeOK, KeyStatuses,
            NoShares, ShareRecords

\* Type correctness: in particular frozen balances and usage counters of every
\* payer and key stay natural numbers, whatever order the operations come in.
THEOREM TypeCorrect == Spec => []TypeOK
<1>1. Init => TypeOK
  BY InitType
<1>2. TypeOK /\ [Next]_vars => TypeOK'
  BY ReserveType, CaptureType, ReleaseType, ApplyType, OtherStepsType
     DEF Next, TaskStep
<1>3. QED BY <1>1, <1>2, PTL DEF Spec

-----------------------------------------------------------------------------
(* The frozen balance is what unresolved tasks hold                          *)

LEMMA ClaimsApart ==
  ASSUME NEW t \in Tasks, NEW x \in Tasks, NEW r \in Requests
  PROVE  /\ HoldClaim(t) = HoldClaim(x) => t = x
         /\ CaptureClaim(t) = CaptureClaim(x) => t = x
         /\ ReleaseClaim(t) = ReleaseClaim(x) => t = x
         /\ HoldClaim(t) # CaptureClaim(x) /\ HoldClaim(t) # ReleaseClaim(x)
         /\ CaptureClaim(t) # ReleaseClaim(x)
         /\ UsageClaim(r) # HoldClaim(t) /\ UsageClaim(r) # CaptureClaim(t)
         /\ UsageClaim(r) # ReleaseClaim(t)
BY DEF HoldClaim, CaptureClaim, ReleaseClaim, UsageClaim

\* Taking a claim adds it to the claimed ones and changes no other.
LEMMA ClaimedAfterTake ==
  ASSUME TypeOK, NEW c \in Claims, NEW fp \in Nat \cup {Plain}, Take(c, fp)
  PROVE  \A d \in Claims : Claimed(d)' <=> d = c \/ Claimed(d)
<1>1. fp # Absent
  BY DEF Plain, Absent
<1>2. QED BY <1>1 DEF TypeOK, ClaimTypeOK, Take, Claimed

\* Moving claims to the archive keeps them claimed.
LEMMA ClaimedAfterArchive ==
  ASSUME TypeOK, NEW C \in SUBSET {c \in Claims : live[c] # Absent}, Archive(C)
  PROVE  \A d \in Claims : Claimed(d)' <=> Claimed(d)
BY DEF TypeOK, ClaimTypeOK, Archive, Claimed

LEMMA OutstandingNat ==
  ASSUME TypeOK, RowsRecordHolds
  PROVE  \A t \in Tasks : Outstanding[t] \in Nat
<1> SUFFICES ASSUME NEW t \in Tasks PROVE Outstanding[t] \in Nat
  OBVIOUS
<1>1. row[t] \in FundsRows
  BY DEF TypeOK, TaskTypeOK
<1>2. row[t].hold \in Nat /\ row[t].sub \in Nat
  BY <1>1 DEF FundsRows
<1>3. QED BY <1>2 DEF Outstanding, Held, RowsRecordHolds

\* If only one task's outstanding hold changes and its payer's frozen balance
\* changes by as much, the frozen balances stay equal to the totals.
LEMMA FrozenFollowsOne ==
  ASSUME TypeOK, FrozenIsOutstanding, NEW a \in Tasks, NEW b \in Nat,
         \A x \in Tasks : Outstanding[x] \in Nat,
         Outstanding'[a] = b,
         Outstanding' \in [Tasks -> Int],
         \A x \in Tasks \ {a} : Outstanding'[x] = Outstanding[x],
         frozen' = [frozen EXCEPT ![PayerOf[a]] = @ - Outstanding[a] + b]
  PROVE  FrozenIsOutstanding'
<1> DEFINE g == Outstanding'
<1>1. SUFFICES ASSUME NEW u \in Users PROVE frozen'[u] = Total(g, TasksOf(u))
  BY DEF FrozenIsOutstanding
<1>2. IsFiniteSet(TasksOf(u)) /\ TasksOf(u) \subseteq Tasks
  BY FS_Subset DEF TasksOf
<1>3. frozen[u] = Total(Outstanding, TasksOf(u)) /\ frozen \in [Users -> Nat]
  BY DEF FrozenIsOutstanding, TypeOK, WalletTypeOK
<1>4. \A x \in Tasks : g[x] \in Nat
  OBVIOUS
<1> HIDE DEF g
<1>5. CASE PayerOf[a] = u
  <2>1. a \in TasksOf(u)
    BY <1>5 DEF TasksOf
  <2>2. Total(g, TasksOf(u)) = Total(Outstanding, TasksOf(u)) - Outstanding[a] + g[a]
    <3>1. /\ \A x \in TasksOf(u) : Outstanding[x] \in Nat /\ g[x] \in Nat
          /\ \A x \in TasksOf(u) \ {a} : g[x] = Outstanding[x]
      BY <1>2, <1>4 DEF g
    <3>2. QED BY ONLY <1>2, <2>1, <3>1, TotalChange
  <2>3. QED BY <1>3, <1>5, <2>2 DEF g
<1>6. CASE PayerOf[a] # u
  <2>1. a \notin TasksOf(u)
    BY <1>6 DEF TasksOf
  <2>2. Total(Outstanding, TasksOf(u)) = Total(g, TasksOf(u))
    BY <1>2, <2>1, TotalSame DEF g
  <2>3. QED BY <1>3, <1>6, <2>2
<1>7. QED BY <1>5, <1>6

LEMMA FrozenFollowsNone ==
  ASSUME FrozenIsOutstanding, UNCHANGED frozen,
         \A x \in Tasks : Outstanding'[x] = Outstanding[x]
  PROVE  FrozenIsOutstanding'
<1> DEFINE g == Outstanding'
<1>1. SUFFICES ASSUME NEW u \in Users PROVE frozen[u] = Total(g, TasksOf(u))
  BY DEF FrozenIsOutstanding
<1> HIDE DEF g
<1>2. Total(Outstanding, TasksOf(u)) = Total(g, TasksOf(u))
  BY TotalSame DEF g, TasksOf
<1>3. QED BY <1>2 DEF FrozenIsOutstanding

\* A step that changes neither the claims on a task's funds nor its row leaves
\* what it holds alone.
LEMMA OutstandingSame ==
  ASSUME NEW x \in Tasks, row'[x] = row[x],
         Claimed(HoldClaim(x))' <=> Claimed(HoldClaim(x)),
         Claimed(CaptureClaim(x))' <=> Claimed(CaptureClaim(x)),
         Claimed(ReleaseClaim(x))' <=> Claimed(ReleaseClaim(x))
  PROVE  Outstanding'[x] = Outstanding[x]
BY DEF Outstanding, Held, Resolved, Captured

\* The same, for a step that moves the difference b - Outstanding[a] into frozen.
LEMMA FrozenMoves ==
  ASSUME TypeOK, RowsRecordHolds, FrozenIsOutstanding, NEW a \in Tasks, NEW b \in Nat,
         Outstanding'[a] = b,
         \A x \in Tasks \ {a} : Outstanding'[x] = Outstanding[x],
         NEW d \in Int, d = b - Outstanding[a],
         frozen' = [frozen EXCEPT ![PayerOf[a]] = @ + d]
  PROVE  FrozenIsOutstanding'
<1>1. \A x \in Tasks : Outstanding[x] \in Nat
  BY OutstandingNat
<1>2. Outstanding' \in [Tasks -> Int]
  <2>1. \A x \in Tasks : Outstanding'[x] \in Int
    BY <1>1
  <2>2. Outstanding' = [x \in Tasks |-> Outstanding'[x]]
    BY DEF Outstanding
  <2>3. QED BY <2>1, <2>2
<1>3. frozen \in [Users -> Nat] /\ PayerOf[a] \in Users
  BY DEF TypeOK, WalletTypeOK
<1>4. frozen' = [frozen EXCEPT ![PayerOf[a]] = @ - Outstanding[a] + b]
  <2>1. Outstanding[a] \in Nat /\ frozen[PayerOf[a]] \in Nat
    BY <1>1, <1>3
  <2>2. frozen[PayerOf[a]] + d = frozen[PayerOf[a]] - Outstanding[a] + b
    BY <2>1
  <2>3. QED BY <2>2
<1>5. QED BY <1>1, <1>2, <1>4, FrozenFollowsOne

\* ... and when it ends the hold, the wallet part of its row leaves frozen.
LEMMA FrozenGives ==
  ASSUME TypeOK, RowsRecordHolds, FrozenIsOutstanding, NEW a \in Tasks,
         Outstanding'[a] = 0, Outstanding[a] = WalletHold(row[a]),
         \A x \in Tasks \ {a} : Outstanding'[x] = Outstanding[x],
         frozen' = [frozen EXCEPT ![PayerOf[a]] = @ - WalletHold(row[a])]
  PROVE  FrozenIsOutstanding'
<1> DEFINE w == WalletHold(row[a])
           d == 0 - w
<1>1. w \in Nat
  BY WalletHoldType DEF TypeOK, TaskTypeOK
<1>2. frozen \in [Users -> Nat] /\ PayerOf[a] \in Users
  BY DEF TypeOK, WalletTypeOK
<1> HIDE DEF w
<1>3. d \in Int /\ d = 0 - Outstanding[a]
  BY <1>1 DEF w
<1>4. frozen' = [frozen EXCEPT ![PayerOf[a]] = @ + d]
  <2>1. frozen[PayerOf[a]] - w = frozen[PayerOf[a]] + d
    BY <1>1, <1>2
  <2>2. QED BY <2>1 DEF w
<1> HIDE DEF d
<1>5. 0 \in Nat
  OBVIOUS
<1>6. QED BY <1>3, <1>4, <1>5, FrozenMoves

Discipline(t) ==
  /\ Claimed(CaptureClaim(t)) => phase[t] = "settling"
  /\ Claimed(ReleaseClaim(t)) => phase[t] = "refunding"
  /\ phase[t] = "none" => ~Claimed(HoldClaim(t))
  /\ phase[t] = "settling" => Claimed(HoldClaim(t))
RecordsHold(t) ==
  Claimed(HoldClaim(t)) => /\ row[t].sub <= row[t].hold
                           /\ WalletHold(row[t]) = row[t].hold - row[t].sub
ClaimsSame(x) ==
  /\ Claimed(HoldClaim(x))' <=> Claimed(HoldClaim(x))
  /\ Claimed(CaptureClaim(x))' <=> Claimed(CaptureClaim(x))
  /\ Claimed(ReleaseClaim(x))' <=> Claimed(ReleaseClaim(x))

\* The parts of the invariant that speak of one task follow task by task.
LEMMA PartsPerTask ==
  ASSUME FundsInv, NEW a \in Tasks, Discipline(a)', RecordsHold(a)',
         \A x \in Tasks \ {a} : ClaimsSame(x) /\ row'[x] = row[x] /\ phase'[x] = phase[x]
  PROVE  OwnerDiscipline' /\ RowsRecordHolds'
<1>1. ASSUME NEW x \in Tasks PROVE Discipline(x)'
  <2>1. CASE x = a
    BY <2>1
  <2>2. CASE x # a
    BY <2>2 DEF FundsInv, OwnerDiscipline, Discipline, ClaimsSame
  <2>3. QED BY <2>1, <2>2
<1>2. ASSUME NEW x \in Tasks PROVE RecordsHold(x)'
  <2>1. CASE x = a
    BY <2>1
  <2>2. CASE x # a
    BY <2>2 DEF FundsInv, RowsRecordHolds, RecordsHold, ClaimsSame
  <2>3. QED BY <2>1, <2>2
<1>3. QED BY <1>1, <1>2 DEF OwnerDiscipline, RowsRecordHolds, Discipline, RecordsHold

\* What taking one of a task's claims does to all of them.
LEMMA TakeOfTask ==
  ASSUME TypeOK, NEW a \in Tasks, NEW fp \in Nat \cup {Plain},
         NEW c \in {HoldClaim(a), CaptureClaim(a), ReleaseClaim(a)}, Take(c, fp)
  PROVE  /\ \A x \in Tasks \ {a} : ClaimsSame(x)
         /\ Claimed(HoldClaim(a))' <=> c = HoldClaim(a) \/ Claimed(HoldClaim(a))
         /\ Claimed(CaptureClaim(a))' <=> c = CaptureClaim(a) \/ Claimed(CaptureClaim(a))
         /\ Claimed(ReleaseClaim(a))' <=> c = ReleaseClaim(a) \/ Claimed(ReleaseClaim(a))
<1>1. c \in Claims
  BY ClaimNames
<1>2. \A d \in Claims : Claimed(d)' <=> d = c \/ Claimed(d)
  BY <1>1, ClaimedAfterTake
<1>3. ASSUME NEW x \in Tasks \ {a}
      PROVE  c # HoldClaim(x) /\ c # CaptureClaim(x) /\ c # ReleaseClaim(x)
  BY DEF HoldClaim, CaptureClaim, ReleaseClaim
<1>4. ASSUME NEW x \in Tasks \ {a} PROVE ClaimsSame(x)
  BY <1>2, <1>3, ClaimNames DEF ClaimsSame
<1>5. QED BY <1>2, <1>4, ClaimNames

LEMMA DisciplinePerTask ==
  ASSUME FundsInv, NEW a \in Tasks, Discipline(a)',
         phase' = phase, \A x \in Tasks \ {a} : ClaimsSame(x)
  PROVE  OwnerDiscipline'
<1>1. ASSUME NEW x \in Tasks PROVE Discipline(x)'
  <2>1. CASE x = a
    BY <2>1
  <2>2. CASE x # a
    BY <2>2 DEF FundsInv, OwnerDiscipline, Discipline, ClaimsSame
  <2>3. QED BY <2>1, <2>2
<1>2. QED BY <1>1 DEF OwnerDiscipline, Discipline

LEMMA RowsPerTask ==
  ASSUME RowsRecordHolds, NEW a \in Tasks, RecordsHold(a)',
         \A x \in Tasks \ {a} : ClaimsSame(x) /\ row'[x] = row[x]
  PROVE  RowsRecordHolds'
<1>1. ASSUME NEW x \in Tasks PROVE RecordsHold(x)'
  <2>1. CASE x = a
    BY <2>1
  <2>2. CASE x # a
    BY <2>2 DEF RowsRecordHolds, RecordsHold, ClaimsSame
  <2>3. QED BY <2>1, <2>2
<1>2. QED BY <1>1 DEF RowsRecordHolds, RecordsHold

\* A reservation of a task that nobody has captured or released freezes the wallet
\* part of the row it writes.
LEMMA ReserveFreezes ==
  ASSUME TypeOK, RowsRecordHolds, FrozenIsOutstanding, NEW t \in Tasks, Reserve(t),
         ~Claimed(CaptureClaim(t)), ~Claimed(ReleaseClaim(t))
  PROVE  RowsRecordHolds' /\ FrozenIsOutstanding'
<1> DEFINE sub == SubShare(t, Estimate[t])
           bal == Estimate[t] - sub
<1>1. Estimate[t] \in Nat /\ Estimate[t] >= 1
  OBVIOUS
<1>2. sub \in Nat /\ sub <= Estimate[t] /\ bal \in Nat
  BY <1>1, SubShareType
<1> HIDE DEF sub
<1>3. row' = [row EXCEPT ![t] =
                [hold |-> Estimate[t], bal |-> bal, sub |-> sub, allow |-> TRUE]]
  BY DEF Reserve, sub
<1>4. frozen' = [frozen EXCEPT ![PayerOf[t]] = @ + bal]
  BY DEF Reserve, sub
<1>5. row \in [Tasks -> FundsRows]
  BY DEF TypeOK, TaskTypeOK
<1>6. row'[t] = [hold |-> Estimate[t], bal |-> bal, sub |-> sub, allow |-> TRUE]
      /\ \A x \in Tasks \ {t} : row'[x] = row[x]
  BY <1>3, <1>5
<1>7. /\ \A x \in Tasks \ {t} : ClaimsSame(x)
      /\ Claimed(HoldClaim(t))' /\ ~Claimed(HoldClaim(t))
      /\ ~Claimed(CaptureClaim(t))' /\ ~Claimed(ReleaseClaim(t))'
  <2>1. Take(HoldClaim(t), Plain)
    BY DEF Reserve
  <2>2. ~Claimed(HoldClaim(t))
    BY DEF Reserve, Fresh, Claimed
  <2>3. QED BY <2>1, <2>2, TakeOfTask DEF HoldClaim, CaptureClaim, ReleaseClaim
<1>8. WalletHold(row'[t]) = bal
  BY <1>1, <1>2, <1>6 DEF WalletHold
<1>9. RecordsHold(t)'
  <2>1. row'[t].sub <= row'[t].hold /\ row'[t].hold - row'[t].sub = bal
    BY <1>2, <1>6
  <2>2. QED BY <1>8, <2>1 DEF RecordsHold
<1>10. Outstanding[t] = 0 /\ Outstanding'[t] = bal
  BY <1>6, <1>7 DEF Outstanding, Held, Resolved, Captured
<1>11. \A x \in Tasks \ {t} : Outstanding'[x] = Outstanding[x]
  BY <1>6, <1>7, OutstandingSame DEF ClaimsSame
<1>12. FrozenIsOutstanding'
  <2>1. bal \in Nat /\ bal \in Int /\ bal = bal - Outstanding[t]
    BY <1>2, <1>10
  <2> HIDE DEF bal
  <2>2. QED BY <2>1, <1>4, <1>10, <1>11, FrozenMoves
<1>13. QED BY <1>6, <1>7, <1>9, <1>12, RowsPerTask

\* A capture or release that ends a task's hold takes the wallet part of its row out
\* of frozen; one without a hold frees nothing.
LEMMA EndThaws ==
  ASSUME TypeOK, RowsRecordHolds, FrozenIsOutstanding, NEW t \in Tasks,
         row' = [row EXCEPT ![t].allow = FALSE],
         \A x \in Tasks \ {t} : ClaimsSame(x),
         Claimed(HoldClaim(t))' <=> Claimed(HoldClaim(t)),
         Claimed(CaptureClaim(t))' \/ Claimed(ReleaseClaim(t))',
         frozen' = IF Held(t)
                   THEN [frozen EXCEPT ![PayerOf[t]] = @ - WalletHold(row[t])]
                   ELSE frozen
  PROVE  RowsRecordHolds' /\ FrozenIsOutstanding'
<1>1. row[t] \in FundsRows /\ row \in [Tasks -> FundsRows]
  BY DEF TypeOK, TaskTypeOK
<1>2. /\ row'[t].hold = row[t].hold /\ row'[t].sub = row[t].sub
      /\ row'[t].bal = row[t].bal
      /\ \A x \in Tasks \ {t} : row'[x] = row[x]
  BY <1>1 DEF FundsRows
<1>3. RecordsHold(t)'
  BY <1>2 DEF RowsRecordHolds, RecordsHold, WalletHold
<1>4. RowsRecordHolds'
  BY <1>2, <1>3, RowsPerTask
<1>5. \A x \in Tasks \ {t} : Outstanding'[x] = Outstanding[x]
  BY <1>2, OutstandingSame DEF ClaimsSame
<1>6. Outstanding'[t] = 0
  BY DEF Outstanding, Held, Resolved, Captured
<1>7. CASE Held(t)
  <2>1. Outstanding[t] = WalletHold(row[t])
    BY <1>7 DEF RowsRecordHolds, Outstanding, Held
  <2>2. QED BY <1>4, <1>5, <1>6, <1>7, <2>1, FrozenGives
<1>8. CASE ~Held(t)
  <2>1. Outstanding[t] = 0
    BY <1>8 DEF Outstanding
  <2>2. QED BY <1>4, <1>5, <1>6, <1>8, <2>1, FrozenFollowsNone
<1>9. QED BY <1>7, <1>8

LEMMA ReserveInv ==
  ASSUME FundsInv, NEW t \in Tasks, Reserve(t)
  PROVE  OwnerDiscipline' /\ RowsRecordHolds' /\ FrozenIsOutstanding'
<1>1. /\ phase[t] = "created" /\ phase' = phase
      /\ ~Claimed(CaptureClaim(t)) /\ ~Claimed(ReleaseClaim(t))
  BY DEF Reserve, FundsInv, OwnerDiscipline
<1>2. RowsRecordHolds' /\ FrozenIsOutstanding'
  BY <1>1, ReserveFreezes DEF FundsInv
<1>3. /\ \A x \in Tasks \ {t} : ClaimsSame(x)
      /\ Claimed(HoldClaim(t))'
      /\ Claimed(CaptureClaim(t))' <=> Claimed(CaptureClaim(t))
      /\ Claimed(ReleaseClaim(t))' <=> Claimed(ReleaseClaim(t))
  <2>1. Take(HoldClaim(t), Plain)
    BY DEF Reserve
  <2>2. QED BY <2>1, TakeOfTask DEF FundsInv, HoldClaim, CaptureClaim, ReleaseClaim
<1>4. OwnerDiscipline'
  BY <1>1, <1>3, DisciplinePerTask DEF Discipline
<1>5. QED BY <1>2, <1>4

LEMMA CaptureInv ==
  ASSUME FundsInv, NEW t \in Tasks, NEW a \in Actuals, Capture(t, a)
  PROVE  OwnerDiscipline' /\ RowsRecordHolds' /\ FrozenIsOutstanding'
<1>1. TypeOK /\ a \in Nat
  BY DEF FundsInv
<1>2. /\ frozen' = [frozen EXCEPT ![PayerOf[t]] = @ - WalletHold(row[t])]
      /\ row' = [row EXCEPT ![t].allow = FALSE]
  BY DEF Capture, CaptureFunds, CaptureBalance, CaptureAllowance
<1>3. /\ \A x \in Tasks \ {t} : ClaimsSame(x)
      /\ Claimed(HoldClaim(t))' <=> Claimed(HoldClaim(t))
      /\ Claimed(CaptureClaim(t))'
      /\ Claimed(ReleaseClaim(t))' <=> Claimed(ReleaseClaim(t))
  <2>1. Take(CaptureClaim(t), a)
    BY DEF Capture
  <2>2. QED BY <1>1, <2>1, TakeOfTask DEF HoldClaim, CaptureClaim, ReleaseClaim
<1>4. /\ phase[t] = "settling" /\ phase' = phase
      /\ Claimed(HoldClaim(t)) /\ ~Claimed(CaptureClaim(t)) /\ ~Claimed(ReleaseClaim(t))
  BY DEF Capture, Fresh, FundsInv, OwnerDiscipline, Claimed
<1>5. Held(t)
  BY <1>4 DEF Held, Resolved, Captured
<1>6. RowsRecordHolds' /\ FrozenIsOutstanding'
  BY <1>2, <1>3, <1>5, EndThaws DEF FundsInv
<1>7. OwnerDiscipline'
  BY <1>3, <1>4, DisciplinePerTask DEF Discipline
<1>8. QED BY <1>6, <1>7

LEMMA ReleaseInv ==
  ASSUME FundsInv, NEW t \in Tasks, Release(t)
  PROVE  OwnerDiscipline' /\ RowsRecordHolds' /\ FrozenIsOutstanding'
<1>1. row' = [row EXCEPT ![t].allow = FALSE]
  BY DEF Release, ReleaseFunds, ReleaseBalance
<1>2. /\ \A x \in Tasks \ {t} : ClaimsSame(x)
      /\ Claimed(HoldClaim(t))' <=> Claimed(HoldClaim(t))
      /\ Claimed(CaptureClaim(t))' <=> Claimed(CaptureClaim(t))
      /\ Claimed(ReleaseClaim(t))'
  <2>1. Take(ReleaseClaim(t), Plain)
    BY DEF Release
  <2>2. QED BY <2>1, TakeOfTask DEF FundsInv, HoldClaim, CaptureClaim, ReleaseClaim
<1>3. /\ phase[t] = "refunding" /\ phase' = phase
      /\ ~Claimed(CaptureClaim(t)) /\ ~Claimed(ReleaseClaim(t))
  BY DEF Release, Fresh, FundsInv, OwnerDiscipline, Claimed
<1>4. frozen' = IF Held(t)
                THEN [frozen EXCEPT ![PayerOf[t]] = @ - WalletHold(row[t])]
                ELSE frozen
  BY <1>3 DEF Release, ReleaseFunds, ReleaseBalance, wallet, Held, Resolved, Captured
<1>5. RowsRecordHolds' /\ FrozenIsOutstanding'
  BY <1>1, <1>2, <1>4, EndThaws DEF FundsInv
<1>6. OwnerDiscipline'
  BY <1>2, <1>3, DisciplinePerTask DEF Discipline
<1>7. QED BY <1>5, <1>6

\* Steps that touch no task's claims or row: what is frozen stays as it is.
LEMMA QuietStep ==
  ASSUME FundsInv, UNCHANGED <<row, phase, frozen>>,
         \A x \in Tasks : ClaimsSame(x)
  PROVE  OwnerDiscipline' /\ RowsRecordHolds' /\ FrozenIsOutstanding'
<1>1. OwnerDiscipline'
  BY DEF FundsInv, OwnerDiscipline, ClaimsSame
<1>2. RowsRecordHolds'
  BY DEF FundsInv, RowsRecordHolds, ClaimsSame
<1>3. \A x \in Tasks : Outstanding'[x] = Outstanding[x]
  BY OutstandingSame DEF ClaimsSame
<1>4. FrozenIsOutstanding'
  BY <1>3, FrozenFollowsNone DEF FundsInv
<1>5. QED BY <1>1, <1>2, <1>4

LEMMA ApplyInv ==
  ASSUME FundsInv, NEW r \in Requests, Apply(r)
  PROVE  OwnerDiscipline' /\ RowsRecordHolds' /\ FrozenIsOutstanding'
<1>1. \A d \in Claims : Claimed(d)' <=> d = UsageClaim(r) \/ Claimed(d)
  <2>1. Take(UsageClaim(r), Plain)
    BY DEF Apply
  <2>2. QED BY <2>1, ClaimNames, ClaimedAfterTake DEF FundsInv
<1>2. \A x \in Tasks : ClaimsSame(x)
  BY <1>1, ClaimNames, ClaimsApart DEF ClaimsSame
<1>3. UNCHANGED <<row, phase, frozen>>
  BY DEF Apply, taskVars
<1>4. QED BY <1>2, <1>3, QuietStep

LEMMA ArchiveInv ==
  ASSUME FundsInv, NEW C \in SUBSET {c \in Claims : live[c] # Absent}, Archive(C)
  PROVE  OwnerDiscipline' /\ RowsRecordHolds' /\ FrozenIsOutstanding'
<1>1. \A x \in Tasks : ClaimsSame(x)
  BY ClaimNames, ClaimedAfterArchive DEF FundsInv, ClaimsSame
<1>2. UNCHANGED <<row, phase, frozen>>
  BY DEF Archive, taskVars, wallet
<1>3. QED BY <1>1, <1>2, QuietStep

\* A created task has no claims: its row may still say nothing of a hold.
LEMMA OwnerInv ==
  ASSUME FundsInv, NEW t \in Tasks,
         CreateTask(t) \/ \E p \in {"settling", "refunding"} : Decide(t, p)
  PROVE  OwnerDiscipline' /\ RowsRecordHolds' /\ FrozenIsOutstanding'
<1>1. \A x \in Tasks : ClaimsSame(x)
  BY DEF CreateTask, Decide, claimVars, ClaimsSame, Claimed
<1>2. UNCHANGED frozen
  BY DEF CreateTask, Decide, wallet
<1>3. row \in [Tasks -> FundsRows] /\ phase \in [Tasks -> Phases]
  BY DEF FundsInv, TypeOK, TaskTypeOK
<1>4. /\ ~Claimed(CaptureClaim(t)) /\ ~Claimed(ReleaseClaim(t))
      /\ phase[t] = "none" => ~Claimed(HoldClaim(t))
  BY DEF CreateTask, Decide, FundsInv, OwnerDiscipline
<1>5. CASE CreateTask(t)
  <2>1. /\ phase'[t] = "created"
        /\ \A x \in Tasks \ {t} : row'[x] = row[x] /\ phase'[x] = phase[x]
    BY <1>3, <1>5 DEF CreateTask
  <2>2. ~Claimed(HoldClaim(t))
    BY <1>4, <1>5 DEF CreateTask
  <2>3. Discipline(t)' /\ RecordsHold(t)'
    BY <1>1, <1>4, <2>1, <2>2 DEF Discipline, RecordsHold, ClaimsSame
  <2>4. ASSUME NEW x \in Tasks PROVE Outstanding'[x] = Outstanding[x]
    <3>1. CASE x = t
      BY <1>1, <2>2, <3>1 DEF Outstanding, Held, ClaimsSame
    <3>2. CASE x # t
      BY <1>1, <2>1, <3>2, OutstandingSame DEF ClaimsSame
    <3>3. QED BY <3>1, <3>2
  <2>5. QED BY <1>1, <1>2, <2>1, <2>3, <2>4, PartsPerTask, FrozenFollowsNone DEF FundsInv
<1>6. ASSUME NEW p \in {"settling", "refunding"}, Decide(t, p)
      PROVE  OwnerDiscipline' /\ RowsRecordHolds' /\ FrozenIsOutstanding'
  <2>1. /\ phase'[t] = p /\ row' = row
        /\ \A x \in Tasks \ {t} : phase'[x] = phase[x]
    BY <1>3, <1>6 DEF Decide
  <2>2. Discipline(t)'
    BY <1>1, <1>4, <1>6, <2>1 DEF Discipline, ClaimsSame, Decide
  <2>3. RecordsHold(t)'
    BY <1>1, <2>1 DEF FundsInv, RowsRecordHolds, RecordsHold, ClaimsSame
  <2>4. \A x \in Tasks : Outstanding'[x] = Outstanding[x]
    BY <1>1, <2>1, OutstandingSame DEF ClaimsSame
  <2>5. QED BY <1>1, <1>2, <2>1, <2>2, <2>3, <2>4, PartsPerTask, FrozenFollowsNone
           DEF FundsInv
<1>7. QED BY <1>5, <1>6

LEMMA OtherStepsInv ==
  ASSUME FundsInv,
         KeyStep \/ (\E u \in Users : ResetWindow(u)) \/ NextDay \/ UNCHANGED vars
  PROVE  OwnerDiscipline' /\ RowsRecordHolds' /\ FrozenIsOutstanding'
<1>1. UNCHANGED <<live, archive, row, phase, frozen>>
  BY DEF KeyStep, DisableTeamKey, EnableTeamKey, ReadKey, UpdateKey, ResetWindow, NextDay,
     vars, wallet, claimVars, taskVars
<1>2. \A x \in Tasks : ClaimsSame(x)
  BY <1>1 DEF ClaimsSame, Claimed
<1>3. QED BY <1>1, <1>2, QuietStep

\* At the start only the tasks of an older release hold anything.
LEMMA InitClaims ==
  ASSUME Init, NEW t \in Tasks
  PROVE  /\ Claimed(HoldClaim(t)) <=> t \in Legacy
         /\ ~Claimed(CaptureClaim(t)) /\ ~Claimed(ReleaseClaim(t))
<1>1. HoldClaim(t) \in {HoldClaim(x) : x \in Legacy} <=> t \in Legacy
  BY DEF HoldClaim
<1>2. /\ CaptureClaim(t) \notin {HoldClaim(x) : x \in Legacy}
      /\ ReleaseClaim(t) \notin {HoldClaim(x) : x \in Legacy}
  BY DEF HoldClaim, CaptureClaim, ReleaseClaim
<1>3. QED BY <1>1, <1>2, ClaimNames DEF Init, Claimed, Absent, Plain

LEMMA InitRows ==
  ASSUME Init, NEW t \in Legacy
  PROVE  /\ row[t].hold = Estimate[t] /\ row[t].sub = 0
         /\ WalletHold(row[t]) = Estimate[t]
<1>1. row[t] = OldRow(t)
  BY DEF Init
<1>2. WalletHold(OldRow(t)) = Estimate[t]
  BY Members DEF OldRow, WalletHold
<1>3. OldRow(t).hold = Estimate[t] /\ OldRow(t).sub = 0
  BY DEF OldRow
<1>4. QED BY <1>1, <1>2, <1>3

LEMMA InitOutstanding ==
  ASSUME Init, NEW t \in Tasks
  PROVE  Outstanding[t] = IF t \in Legacy THEN Estimate[t] ELSE 0
<1>1. Held(t) <=> t \in Legacy
  BY InitClaims DEF Held, Resolved, Captured
<1>2. t \in Legacy => row[t].hold - row[t].sub = Estimate[t]
  BY InitRows, Members
<1>3. QED BY <1>1, <1>2 DEF Outstanding

LEMMA InitFunds == Init => FundsInv
<1> SUFFICES ASSUME Init PROVE FundsInv
  OBVIOUS
<1>1. TypeOK
  BY InitType
<1>2. OwnerDiscipline
  BY InitClaims DEF Init, OwnerDiscipline
<1>3. RowsRecordHolds
  <2>1. \A t \in Tasks : Estimate[t] \in Nat /\ Estimate[t] - 0 = Estimate[t]
                        /\ 0 <= Estimate[t]
    BY Members
  <2>2. QED BY <2>1, InitClaims, InitRows DEF RowsRecordHolds
<1>4. ASSUME NEW u \in Users PROVE frozen[u] = Total(Outstanding, TasksOf(u))
  <2>1. \A t \in TasksOf(u) \cap Legacy : Outstanding[t] = Estimate[t]
    BY InitOutstanding
  <2>2. \A t \in TasksOf(u) \ (TasksOf(u) \cap Legacy) : Outstanding[t] = 0
    BY InitOutstanding DEF TasksOf
  <2>3. Total(Outstanding, TasksOf(u) \cap Legacy) = Total(Outstanding, TasksOf(u))
    BY <2>2, TotalOfPart
  <2>4. Total(Outstanding, TasksOf(u) \cap Legacy) = Total(Estimate, TasksOf(u) \cap Legacy)
    BY <2>1, TotalSame
  <2>5. QED BY <2>3, <2>4 DEF Init
<1>5. QED BY <1>1, <1>2, <1>3, <1>4 DEF FundsInv, FrozenIsOutstanding

LEMMA FundsInvStep == FundsInv /\ [Next]_vars => FundsInv'
<1> SUFFICES ASSUME FundsInv, [Next]_vars PROVE FundsInv'
  OBVIOUS
<1>1. TypeOK'
  BY ReserveType, CaptureType, ReleaseType, ApplyType, OtherStepsType
     DEF FundsInv, Next, TaskStep
<1>2. OwnerDiscipline' /\ RowsRecordHolds' /\ FrozenIsOutstanding'
  BY ReserveInv, CaptureInv, ReleaseInv, ApplyInv, ArchiveInv, OwnerInv, OtherStepsInv
     DEF Next, TaskStep
<1>3. QED BY <1>1, <1>2 DEF FundsInv

\* The frozen balance of every payer is the sum of what its unresolved tasks hold,
\* for any number of payers, tasks and requests and any amounts.
THEOREM FrozenCorrect == Spec => []FrozenIsOutstanding
<1>1. FundsInv => FrozenIsOutstanding
  BY DEF FundsInv
<1>2. QED BY <1>1, InitFunds, FundsInvStep, PTL DEF Spec

-----------------------------------------------------------------------------
(* Money is conserved                                                        *)

\* A claim is in one of the two tables, so the archiver never hides what a capture
\* charged behind another record of it (ArchiveUsageDedup, claimUsageBillingRequest).
OneRecord == \A c \in Claims : live[c] = Absent \/ archive[c] = Absent

\* A request has been charged nothing until its claim is taken (Apply).
ChargedOnce == \A r \in Requests : ~Claimed(UsageClaim(r)) => charged[r] = NoShares

\* The inductive invariant behind MoneyConserved.
MoneyInv == FundsInv /\ OneRecord /\ ChargedOnce /\ MoneyConserved

-----------------------------------------------------------------------------
(* The strengthening                                                         *)

LEMMA OneRecordStep == FundsInv /\ OneRecord /\ [Next]_vars => OneRecord'
<1> SUFFICES ASSUME FundsInv, OneRecord, [Next]_vars PROVE OneRecord'
  OBVIOUS
<1>1. live \in [Claims -> Fingerprints] /\ archive \in [Claims -> Fingerprints]
  BY DEF FundsInv, TypeOK, ClaimTypeOK
<1>2. ASSUME NEW c \in Claims, NEW fp \in Fingerprints, Fresh(c), Take(c, fp)
      PROVE  OneRecord'
  BY <1>1, <1>2 DEF OneRecord, Fresh, Take
<1>3. ASSUME NEW C \in SUBSET {c \in Claims : live[c] # Absent}, Archive(C)
      PROVE  OneRecord'
  BY <1>1, <1>3 DEF OneRecord, Archive
<1>4. CASE UNCHANGED claimVars
  BY <1>4 DEF OneRecord, claimVars
<1>5. Actuals \subseteq Fingerprints /\ Plain \in Fingerprints
  BY DEF Fingerprints
<1>6. ASSUME NEW t \in Tasks,
             Reserve(t) \/ Release(t) \/ \E a \in Actuals : Capture(t, a)
      PROVE  OneRecord'
  BY <1>2, <1>5, <1>6, ClaimNames DEF Reserve, Release, Capture
<1>7. ASSUME NEW r \in Requests, Apply(r) PROVE OneRecord'
  BY <1>2, <1>5, <1>7, ClaimNames DEF Apply
<1>8. CASE \/ \E t \in Tasks : CreateTask(t)
           \/ \E t \in Tasks : \E p \in {"settling", "refunding"} : Decide(t, p)
           \/ KeyStep \/ (\E u \in Users : ResetWindow(u)) \/ NextDay \/ UNCHANGED vars
  BY <1>4, <1>8 DEF CreateTask, Decide, KeyStep, DisableTeamKey, EnableTeamKey,
     ReadKey, UpdateKey, ResetWindow, NextDay, vars
<1>9. QED BY <1>3, <1>6, <1>7, <1>8 DEF Next, TaskStep

\* Claims stay claimed, so what is charged to a request without one stays nothing.
LEMMA ChargedOnceStep == FundsInv /\ ChargedOnce /\ [Next]_vars => ChargedOnce'
<1> SUFFICES ASSUME FundsInv, ChargedOnce, [Next]_vars PROVE ChargedOnce'
  OBVIOUS
<1>1. TypeOK /\ charged \in [Requests -> ShareRecords]
  BY DEF FundsInv, TypeOK
<1>2. ASSUME UNCHANGED charged, \A d \in Claims : Claimed(d) => Claimed(d)'
      PROVE  ChargedOnce'
  BY <1>2, ClaimNames DEF ChargedOnce
<1>3. ASSUME NEW c \in Claims, NEW fp \in Nat \cup {Plain}, Take(c, fp)
      PROVE  \A d \in Claims : Claimed(d) => Claimed(d)'
  BY <1>1, <1>3, ClaimedAfterTake
<1>4. ASSUME NEW t \in Tasks,
             Reserve(t) \/ Release(t) \/ \E a \in Actuals : Capture(t, a)
      PROVE  ChargedOnce'
  <2>1. PICK c \in Claims, fp \in Nat \cup {Plain} : Take(c, fp)
    <3>1. Actuals \subseteq Nat
      OBVIOUS
    <3>2. QED BY <1>4, <3>1, ClaimNames DEF Reserve, Release, Capture
  <2>2. \A d \in Claims : Claimed(d) => Claimed(d)'
    BY <1>3, <2>1
  <2>3. UNCHANGED charged
    BY <1>4 DEF Reserve, Release, Capture
  <2>4. QED BY <1>2, <2>2, <2>3
<1>5. ASSUME NEW r \in Requests, Apply(r) PROVE ChargedOnce'
  <2>1. \A d \in Claims : Claimed(d)' <=> d = UsageClaim(r) \/ Claimed(d)
    BY <1>1, <1>5, ClaimNames, ClaimedAfterTake DEF Apply
  <2>2. \A q \in Requests \ {r} : charged'[q] = charged[q]
    BY <1>1, <1>5 DEF Apply, ApplyEffects
  <2>3. QED BY <2>1, <2>2, ClaimNames DEF ChargedOnce
<1>6. ASSUME NEW C \in SUBSET {c \in Claims : live[c] # Absent}, Archive(C)
      PROVE  ChargedOnce'
  <2>1. \A d \in Claims : Claimed(d) => Claimed(d)'
    BY <1>1, <1>6, ClaimedAfterArchive
  <2>2. QED BY <1>2, <1>6, <2>1 DEF Archive
<1>7. CASE \/ \E t \in Tasks : CreateTask(t)
           \/ \E t \in Tasks : \E p \in {"settling", "refunding"} : Decide(t, p)
           \/ KeyStep \/ (\E u \in Users : ResetWindow(u)) \/ NextDay \/ UNCHANGED vars
  <2>1. UNCHANGED <<charged, live, archive>>
    BY <1>7 DEF CreateTask, Decide, KeyStep, DisableTeamKey, EnableTeamKey,
       ReadKey, UpdateKey, ResetWindow, NextDay, vars, claimVars
  <2>2. QED BY <1>2, <2>1 DEF Claimed
<1>8. QED BY <1>4, <1>5, <1>6, <1>7 DEF Next, TaskStep

-----------------------------------------------------------------------------
(* How money moves                                                           *)

LEMMA Paid ==
  ASSUME FundsInv
  PROVE  /\ \A t \in Tasks : PaidFromWallet[t] \in Nat
         /\ \A r \in Requests : ChargedToWallet[r] \in Nat
         /\ balance \in [Users -> Int] /\ frozen \in [Users -> Nat]
<1>1. ASSUME NEW t \in Tasks PROVE PaidFromWallet[t] \in Nat
  <2>1. row[t].sub \in Nat
    <3>1. row[t] \in FundsRows
      BY DEF FundsInv, TypeOK, TaskTypeOK
    <3>2. QED BY <3>1 DEF FundsRows
  <2>2. ActualOf(t) \in Int
    BY ClaimNames DEF FundsInv, TypeOK, ClaimTypeOK, Fingerprints, ActualOf, Recorded,
       Plain, Absent
  <2>3. QED BY <2>1, <2>2 DEF PaidFromWallet
<1>2. ASSUME NEW r \in Requests PROVE ChargedToWallet[r] \in Nat
  <2>1. charged[r] \in ShareRecords
    BY DEF FundsInv, TypeOK
  <2>2. QED BY <2>1 DEF ChargedToWallet, ShareRecords
<1>3. QED BY <1>1, <1>2 DEF FundsInv, TypeOK, WalletTypeOK

\* A step conserves money when what leaves a payer's wallet is what the charges of
\* one task or of one request grow by.
LEMMA MoneyFollows ==
  ASSUME MoneyInv, NEW a \in Tasks \cup Requests, NEW n \in Nat,
         \A u \in Users : balance'[u] + frozen'[u]
                          = balance[u] + frozen[u] - (IF PayerOf[a] = u THEN n ELSE 0),
         \A t \in Tasks : PaidFromWallet'[t] = PaidFromWallet[t] + (IF t = a THEN n ELSE 0),
         \A r \in Requests : ChargedToWallet'[r]
                             = ChargedToWallet[r] + (IF r = a THEN n ELSE 0)
  PROVE  MoneyConserved'
<1> DEFINE P == PaidFromWallet'
           C == ChargedToWallet'
           grows(u) == IF PayerOf[a] = u THEN n ELSE 0
<1>1. SUFFICES ASSUME NEW u \in Users
               PROVE  balance'[u] + frozen'[u] + Total(P, TasksOf(u))
                        + Total(C, RequestsOf(u))
                      = InitBalance[u] + Total(Estimate, TasksOf(u) \cap Legacy)
  BY DEF MoneyConserved
<1>2. /\ \A t \in Tasks : PaidFromWallet[t] \in Nat /\ P[t] \in Nat
      /\ \A r \in Requests : ChargedToWallet[r] \in Nat /\ C[r] \in Nat
      /\ balance[u] \in Int /\ frozen[u] \in Int
  <2>1. /\ \A t \in Tasks : PaidFromWallet[t] \in Nat
        /\ \A r \in Requests : ChargedToWallet[r] \in Nat
        /\ balance[u] \in Int /\ frozen[u] \in Int
    BY Paid DEF MoneyInv
  <2>2. QED BY <2>1
<1>3. /\ IsFiniteSet(TasksOf(u)) /\ TasksOf(u) \subseteq Tasks
      /\ IsFiniteSet(RequestsOf(u)) /\ RequestsOf(u) \subseteq Requests
  BY FS_Subset DEF TasksOf, RequestsOf
<1>4. /\ \A t \in Tasks : P[t] = PaidFromWallet[t] + (IF t = a THEN n ELSE 0)
      /\ \A r \in Requests : C[r] = ChargedToWallet[r] + (IF r = a THEN n ELSE 0)
  OBVIOUS
<1> HIDE DEF P, C
<1>5. Total(P, TasksOf(u)) + Total(C, RequestsOf(u))
      = Total(PaidFromWallet, TasksOf(u)) + Total(ChargedToWallet, RequestsOf(u))
        + grows(u)
  <2>1. /\ Total(PaidFromWallet, TasksOf(u)) \in Nat
        /\ Total(ChargedToWallet, RequestsOf(u)) \in Nat
    BY <1>2, <1>3, TotalNat
  <2>2. CASE a \in TasksOf(u)
    <3>1. a \notin RequestsOf(u) /\ PayerOf[a] = u
      BY <2>2 DEF TasksOf, RequestsOf
    <3>2. Total(P, TasksOf(u)) = Total(PaidFromWallet, TasksOf(u)) - PaidFromWallet[a] + P[a]
      <4>1. /\ \A x \in TasksOf(u) : PaidFromWallet[x] \in Nat /\ P[x] \in Nat
            /\ \A x \in TasksOf(u) \ {a} : P[x] = PaidFromWallet[x]
        BY <1>2, <1>3, <1>4
      <4>2. QED BY ONLY <1>3, <2>2, <4>1, TotalChange
    <3>3. Total(ChargedToWallet, RequestsOf(u)) = Total(C, RequestsOf(u))
      <4>1. \A x \in RequestsOf(u) : ChargedToWallet[x] = C[x]
        BY <1>2, <1>3, <1>4, <3>1
      <4>2. QED BY ONLY <4>1, TotalSame
    <3>4. P[a] = PaidFromWallet[a] + n /\ PaidFromWallet[a] \in Nat
      BY <1>2, <1>3, <1>4, <2>2
    <3>5. QED BY <2>1, <3>1, <3>2, <3>3, <3>4
  <2>3. CASE a \in RequestsOf(u)
    <3>1. a \notin TasksOf(u) /\ PayerOf[a] = u
      BY <2>3 DEF TasksOf, RequestsOf
    <3>2. Total(C, RequestsOf(u))
          = Total(ChargedToWallet, RequestsOf(u)) - ChargedToWallet[a] + C[a]
      <4>1. /\ \A x \in RequestsOf(u) : ChargedToWallet[x] \in Nat /\ C[x] \in Nat
            /\ \A x \in RequestsOf(u) \ {a} : C[x] = ChargedToWallet[x]
        BY <1>2, <1>3, <1>4
      <4>2. QED BY ONLY <1>3, <2>3, <4>1, TotalChange
    <3>3. Total(PaidFromWallet, TasksOf(u)) = Total(P, TasksOf(u))
      <4>1. \A x \in TasksOf(u) : PaidFromWallet[x] = P[x]
        BY <1>2, <1>3, <1>4, <3>1
      <4>2. QED BY ONLY <4>1, TotalSame
    <3>4. C[a] = ChargedToWallet[a] + n /\ ChargedToWallet[a] \in Nat
      BY <1>2, <1>3, <1>4, <2>3
    <3>5. QED BY <2>1, <3>1, <3>2, <3>3, <3>4
  <2>4. CASE a \notin TasksOf(u) /\ a \notin RequestsOf(u)
    <3>1. PayerOf[a] # u
      BY <2>4 DEF TasksOf, RequestsOf
    <3>2. Total(PaidFromWallet, TasksOf(u)) = Total(P, TasksOf(u))
      <4>1. \A x \in TasksOf(u) : PaidFromWallet[x] = P[x]
        BY <1>2, <1>3, <1>4, <2>4
      <4>2. QED BY ONLY <4>1, TotalSame
    <3>3. Total(ChargedToWallet, RequestsOf(u)) = Total(C, RequestsOf(u))
      <4>1. \A x \in RequestsOf(u) : ChargedToWallet[x] = C[x]
        BY <1>2, <1>3, <1>4, <2>4
      <4>2. QED BY ONLY <4>1, TotalSame
    <3>4. QED BY <2>1, <3>1, <3>2, <3>3
  <2>5. QED BY <2>2, <2>3, <2>4
<1>6. /\ Total(P, TasksOf(u)) \in Nat /\ Total(C, RequestsOf(u)) \in Nat
      /\ Total(PaidFromWallet, TasksOf(u)) \in Nat
      /\ Total(ChargedToWallet, RequestsOf(u)) \in Nat
  BY <1>2, <1>3, TotalNat
<1>7. balance'[u] + frozen'[u] = balance[u] + frozen[u] - grows(u) /\ grows(u) \in Int
  OBVIOUS
<1>8. balance[u] + frozen[u] + Total(PaidFromWallet, TasksOf(u))
        + Total(ChargedToWallet, RequestsOf(u))
      = InitBalance[u] + Total(Estimate, TasksOf(u) \cap Legacy)
  BY DEF MoneyInv, MoneyConserved
<1> DEFINE m == balance'[u] + frozen'[u]
<1>9. m = balance[u] + frozen[u] - grows(u)
  BY <1>7
<1> HIDE DEF m, grows
<1>10. m + Total(P, TasksOf(u)) + Total(C, RequestsOf(u))
       = balance[u] + frozen[u] + Total(PaidFromWallet, TasksOf(u))
           + Total(ChargedToWallet, RequestsOf(u))
  BY <1>2, <1>5, <1>6, <1>7, <1>9
<1>11. QED BY <1>8, <1>10 DEF m

\* A step conserves money when it neither takes from a wallet as a whole nor charges.
LEMMA MoneyStays ==
  ASSUME MoneyConserved,
         \A u \in Users : balance'[u] + frozen'[u] = balance[u] + frozen[u],
         \A t \in Tasks : PaidFromWallet'[t] = PaidFromWallet[t],
         UNCHANGED charged
  PROVE  MoneyConserved'
<1> DEFINE P == PaidFromWallet'
<1>1. ChargedToWallet' = ChargedToWallet
  BY DEF ChargedToWallet
<1>2. SUFFICES ASSUME NEW u \in Users
               PROVE  balance'[u] + frozen'[u] + Total(P, TasksOf(u))
                        + Total(ChargedToWallet, RequestsOf(u))
                      = InitBalance[u] + Total(Estimate, TasksOf(u) \cap Legacy)
  BY <1>1 DEF MoneyConserved
<1> HIDE DEF P
<1>3. Total(P, TasksOf(u)) = Total(PaidFromWallet, TasksOf(u))
  BY TotalSame DEF P, TasksOf
<1>4. QED BY <1>3 DEF MoneyConserved

\* What a task paid depends on its capture claim and on its row's subscription part.
LEMMA PaidSame ==
  ASSUME NEW x \in Tasks,
         Claimed(CaptureClaim(x))' <=> Claimed(CaptureClaim(x)),
         Claimed(CaptureClaim(x)) => /\ Recorded(CaptureClaim(x))' = Recorded(CaptureClaim(x))
                                     /\ row'[x].sub = row[x].sub
  PROVE  PaidFromWallet'[x] = PaidFromWallet[x]
BY DEF PaidFromWallet, Captured, ActualOf

LEMMA RecordedAfterTake ==
  ASSUME FundsInv, NEW c \in Claims, NEW fp \in Nat \cup {Plain}, Fresh(c), Take(c, fp)
  PROVE  /\ \A d \in Claims \ {c} : Recorded(d)' = Recorded(d)
         /\ Recorded(c)' = fp
<1>1. live \in [Claims -> Fingerprints] /\ fp # Absent
  BY DEF FundsInv, TypeOK, ClaimTypeOK, Plain, Absent
<1>2. QED BY <1>1 DEF Take, Recorded

\* Every claim keeps its record when it moves to the archive.
LEMMA RecordedAfterArchive ==
  ASSUME FundsInv, OneRecord,
         NEW C \in SUBSET {c \in Claims : live[c] # Absent}, Archive(C)
  PROVE  \A d \in Claims : Recorded(d)' = Recorded(d)
BY DEF FundsInv, TypeOK, ClaimTypeOK, OneRecord, Archive, Recorded

\* The row of a task that was captured says nothing new (only a task without claims
\* is created or reserved).
LEMMA PaidAfterTake ==
  ASSUME FundsInv, NEW c \in Claims, NEW fp \in Nat \cup {Plain}, Fresh(c), Take(c, fp),
         NEW x \in Tasks, c # CaptureClaim(x), row'[x].sub = row[x].sub
  PROVE  PaidFromWallet'[x] = PaidFromWallet[x]
<1>1. Claimed(CaptureClaim(x))' <=> Claimed(CaptureClaim(x))
  BY ClaimNames, ClaimedAfterTake DEF FundsInv
<1>2. Recorded(CaptureClaim(x))' = Recorded(CaptureClaim(x))
  BY ClaimNames, RecordedAfterTake
<1>3. QED BY <1>1, <1>2, PaidSame

-----------------------------------------------------------------------------
(* One lemma for each operation that moves money                             *)

LEMMA ReserveMoney ==
  ASSUME MoneyInv, NEW t \in Tasks, Reserve(t)
  PROVE  MoneyConserved'
<1> DEFINE sub == SubShare(t, Estimate[t])
           bal == Estimate[t] - sub
<1>1. FundsInv /\ TypeOK /\ Estimate[t] \in Nat
  BY DEF MoneyInv, FundsInv
<1>2. sub \in Nat /\ bal \in Nat
  BY <1>1, SubShareType
<1> HIDE DEF sub
<1>3. /\ balance' = [balance EXCEPT ![PayerOf[t]] = @ - bal]
      /\ frozen' = [frozen EXCEPT ![PayerOf[t]] = @ + bal]
  BY DEF Reserve, sub
<1> HIDE DEF bal
<1>4. \A u \in Users : balance'[u] + frozen'[u] = balance[u] + frozen[u]
  BY <1>1, <1>2, <1>3 DEF TypeOK, WalletTypeOK
<1>5. Fresh(HoldClaim(t)) /\ Take(HoldClaim(t), Plain) /\ UNCHANGED charged
  BY DEF Reserve
<1>6. ~Claimed(CaptureClaim(t))
  BY <1>1 DEF Reserve, FundsInv, OwnerDiscipline
<1>7. ASSUME NEW x \in Tasks PROVE PaidFromWallet'[x] = PaidFromWallet[x]
  <2>1. CASE x = t
    <3>1. ~Claimed(CaptureClaim(t))'
      BY <1>1, <1>5, <1>6, ClaimNames, ClaimsApart, ClaimedAfterTake
         DEF HoldClaim, CaptureClaim
    <3>2. QED BY <1>6, <2>1, <3>1, PaidSame
  <2>2. CASE x # t
    <3>1. row'[x] = row[x]
      BY <1>1, <2>2 DEF Reserve, TypeOK, TaskTypeOK
    <3>2. HoldClaim(t) # CaptureClaim(x)
      BY DEF HoldClaim, CaptureClaim
    <3>3. QED BY <1>1, <1>5, <3>1, <3>2, ClaimNames, PaidAfterTake
  <2>3. QED BY <2>1, <2>2
<1>8. QED BY <1>4, <1>5, <1>7, MoneyStays DEF MoneyInv

\* A capture charges what its subscription part does not cover, and gives the rest of
\* the hold back.
LEMMA CaptureMoney ==
  ASSUME MoneyInv, NEW t \in Tasks, NEW a \in Actuals, Capture(t, a)
  PROVE  MoneyConserved'
<1> DEFINE s == row[t]
           n == KeptBal(s, a)
           w == WalletHold(s)
<1>1. FundsInv /\ TypeOK /\ a \in Nat /\ s \in FundsRows
  BY DEF MoneyInv, FundsInv, TypeOK, TaskTypeOK
<1>2. n \in Nat /\ w \in Nat
  BY <1>1, KeptType, WalletHoldType
<1>3. n = IF a > s.sub THEN a - s.sub ELSE 0
  BY <1>1 DEF KeptBal, KeptSub, Least, FundsRows
<1>4. /\ balance' = [balance EXCEPT ![PayerOf[t]] = @ + w - n]
      /\ frozen' = [frozen EXCEPT ![PayerOf[t]] = @ - w]
      /\ row' = [row EXCEPT ![t].allow = FALSE]
  BY DEF Capture, CaptureFunds, CaptureBalance, CaptureAllowance
<1>5. \A x \in Tasks : row'[x].sub = row[x].sub
  BY <1>1, <1>4 DEF TypeOK, TaskTypeOK, FundsRows
<1>6. Fresh(CaptureClaim(t)) /\ Take(CaptureClaim(t), a) /\ UNCHANGED charged
  BY DEF Capture
<1>7. PaidFromWallet[t] = 0 /\ PaidFromWallet'[t] = n
  <2>1. ~Claimed(CaptureClaim(t)) /\ Claimed(CaptureClaim(t))'
    BY <1>1, <1>6, ClaimNames, ClaimedAfterTake DEF Fresh, Claimed
  <2>2. Recorded(CaptureClaim(t))' = a
    BY <1>1, <1>6, ClaimNames, RecordedAfterTake
  <2>3. QED BY <1>3, <1>5, <2>1, <2>2 DEF PaidFromWallet, Captured, ActualOf
<1>8. ASSUME NEW x \in Tasks \ {t} PROVE PaidFromWallet'[x] = PaidFromWallet[x]
  <2>1. CaptureClaim(t) # CaptureClaim(x)
    BY DEF CaptureClaim
  <2>2. QED BY <1>1, <1>5, <1>6, <2>1, ClaimNames, PaidAfterTake
<1>9. \A u \in Users : balance'[u] + frozen'[u]
                       = balance[u] + frozen[u] - (IF PayerOf[t] = u THEN n ELSE 0)
  <2> HIDE DEF n, w, s
  <2>1. QED BY <1>1, <1>2, <1>4 DEF TypeOK, WalletTypeOK
<1>10. \A x \in Tasks : PaidFromWallet'[x] = PaidFromWallet[x] + (IF x = t THEN n ELSE 0)
  <2>1. \A x \in Tasks : PaidFromWallet[x] \in Nat
    BY <1>1, Paid
  <2> HIDE DEF n
  <2>2. QED BY <1>2, <1>7, <1>8, <2>1
<1>11. \A r \in Requests : ChargedToWallet'[r]
                           = ChargedToWallet[r] + (IF r = t THEN n ELSE 0)
  <2>1. \A r \in Requests : ChargedToWallet[r] \in Nat /\ r # t
    BY <1>1, Paid
  <2>2. ChargedToWallet' = ChargedToWallet
    BY <1>6 DEF ChargedToWallet
  <2>3. QED BY <2>1, <2>2
<1> HIDE DEF n, w, s
<1>12. QED BY <1>2, <1>9, <1>10, <1>11, MoneyFollows

LEMMA ReleaseMoney ==
  ASSUME MoneyInv, NEW t \in Tasks, Release(t)
  PROVE  MoneyConserved'
<1> DEFINE w == WalletHold(row[t])
<1>1. FundsInv /\ TypeOK /\ row[t] \in FundsRows
  BY DEF MoneyInv, FundsInv, TypeOK, TaskTypeOK
<1>2. w \in Nat
  BY <1>1, WalletHoldType
<1>3. \/ UNCHANGED <<balance, frozen>>
      \/ /\ balance' = [balance EXCEPT ![PayerOf[t]] = @ + w]
         /\ frozen' = [frozen EXCEPT ![PayerOf[t]] = @ - w]
  BY DEF Release, ReleaseFunds, ReleaseBalance, wallet
<1>4. \A x \in Tasks : row'[x].sub = row[x].sub
  BY <1>1 DEF Release, ReleaseFunds, ReleaseBalance, TypeOK, TaskTypeOK, FundsRows
<1>5. Fresh(ReleaseClaim(t)) /\ Take(ReleaseClaim(t), Plain) /\ UNCHANGED charged
  BY DEF Release
<1>6. ASSUME NEW x \in Tasks PROVE PaidFromWallet'[x] = PaidFromWallet[x]
  <2>1. ReleaseClaim(t) # CaptureClaim(x)
    BY DEF ReleaseClaim, CaptureClaim
  <2>2. QED BY <1>1, <1>4, <1>5, <2>1, ClaimNames, PaidAfterTake
<1> HIDE DEF w
<1>7. \A u \in Users : balance'[u] + frozen'[u] = balance[u] + frozen[u]
  BY <1>1, <1>2, <1>3 DEF TypeOK, WalletTypeOK
<1>8. QED BY <1>5, <1>6, <1>7, MoneyStays DEF MoneyInv

\* A request takes from the balance what its subscription does not cover.
LEMMA ApplyMoney ==
  ASSUME MoneyInv, NEW r \in Requests, Apply(r)
  PROVE  MoneyConserved'
<1> DEFINE sub == SubShare(r, Cost[r])
           bal == Cost[r] - sub
<1>1. FundsInv /\ TypeOK /\ Cost[r] \in Nat
  BY Members DEF MoneyInv, FundsInv
<1>2. sub \in Nat /\ bal \in Nat
  BY <1>1, SubShareType
<1> HIDE DEF sub
<1>3. /\ balance' = [balance EXCEPT ![PayerOf[r]] = @ - bal]
      /\ charged' = [charged EXCEPT ![r] = [sub |-> sub, bal |-> bal]]
      /\ UNCHANGED <<frozen, row>>
  BY DEF Apply, ApplyEffects, Deduct, taskVars, sub
<1> HIDE DEF bal
<1>4. Fresh(UsageClaim(r)) /\ Take(UsageClaim(r), Plain)
  BY DEF Apply
<1>5. ASSUME NEW x \in Tasks PROVE PaidFromWallet'[x] = PaidFromWallet[x]
  <2>1. UsageClaim(r) # CaptureClaim(x)
    BY DEF UsageClaim, CaptureClaim
  <2>2. QED BY <1>1, <1>3, <1>4, <2>1, ClaimNames, PaidAfterTake
<1>6. \A u \in Users : balance'[u] + frozen'[u]
                       = balance[u] + frozen[u] - (IF PayerOf[r] = u THEN bal ELSE 0)
  BY <1>1, <1>2, <1>3 DEF TypeOK, WalletTypeOK
<1>7. \A x \in Tasks : PaidFromWallet'[x] = PaidFromWallet[x] + (IF x = r THEN bal ELSE 0)
  <2>1. \A x \in Tasks : PaidFromWallet[x] \in Nat /\ x # r
    BY <1>1, Paid
  <2>2. QED BY <1>5, <2>1
<1>8. \A q \in Requests : ChargedToWallet'[q]
                          = ChargedToWallet[q] + (IF q = r THEN bal ELSE 0)
  <2>1. charged[r] = NoShares
    BY <1>4 DEF Fresh, Claimed, MoneyInv, ChargedOnce
  <2>2. charged'[r].bal = bal /\ charged[r].bal = 0
    BY <1>1, <1>3, <2>1 DEF TypeOK, NoShares
  <2>3. \A q \in Requests \ {r} : charged'[q] = charged[q]
    BY <1>1, <1>3 DEF TypeOK
  <2>4. \A q \in Requests : charged[q].bal \in Nat
    BY <1>1, Paid DEF ChargedToWallet
  <2>5. QED BY <1>2, <2>2, <2>3, <2>4 DEF ChargedToWallet
<1>9. QED BY <1>2, <1>6, <1>7, <1>8, MoneyFollows

\* Everything else leaves wallets and charges alone.
LEMMA OtherMoney ==
  ASSUME MoneyInv,
         \/ \E t \in Tasks : CreateTask(t)
         \/ \E t \in Tasks : \E p \in {"settling", "refunding"} : Decide(t, p)
         \/ KeyStep
         \/ \E C \in SUBSET {c \in Claims : live[c] # Absent} : Archive(C)
         \/ \E u \in Users : ResetWindow(u)
         \/ NextDay
         \/ UNCHANGED vars
  PROVE  MoneyConserved'
<1>1. FundsInv /\ TypeOK /\ OneRecord /\ MoneyConserved /\ row \in [Tasks -> FundsRows]
  BY DEF MoneyInv, FundsInv, TypeOK, TaskTypeOK
<1>2. UNCHANGED <<balance, frozen, charged>>
  BY DEF CreateTask, Decide, KeyStep, DisableTeamKey, EnableTeamKey, ReadKey, UpdateKey,
     Archive, ResetWindow, NextDay, vars, wallet
<1>3. ASSUME UNCHANGED claimVars, \A x \in Tasks : row'[x].sub = row[x].sub
      PROVE  MoneyConserved'
  <2>1. \A x \in Tasks : PaidFromWallet'[x] = PaidFromWallet[x]
    BY <1>3, PaidSame DEF claimVars, Claimed, Recorded
  <2>2. QED BY <1>1, <1>2, <2>1, MoneyStays
<1>4. ASSUME NEW t \in Tasks, CreateTask(t) PROVE MoneyConserved'
  BY <1>1, <1>3, <1>4 DEF CreateTask, FundsRows
<1>5. ASSUME NEW C \in SUBSET {c \in Claims : live[c] # Absent}, Archive(C)
      PROVE  MoneyConserved'
  <2>1. \A d \in Claims : /\ Claimed(d)' <=> Claimed(d)
                          /\ Recorded(d)' = Recorded(d)
    BY <1>1, <1>5, ClaimedAfterArchive, RecordedAfterArchive
  <2>2. UNCHANGED row
    BY <1>5 DEF Archive, taskVars
  <2>3. \A x \in Tasks : PaidFromWallet'[x] = PaidFromWallet[x]
    BY <2>1, <2>2, ClaimNames, PaidSame
  <2>4. QED BY <1>1, <1>2, <2>3, MoneyStays
<1>6. CASE \/ \E t \in Tasks : \E p \in {"settling", "refunding"} : Decide(t, p)
           \/ KeyStep \/ (\E u \in Users : ResetWindow(u)) \/ NextDay \/ UNCHANGED vars
  <2>1. UNCHANGED <<claimVars, row>>
    BY <1>6 DEF Decide, KeyStep, DisableTeamKey, EnableTeamKey, ReadKey, UpdateKey,
       ResetWindow, NextDay, vars, claimVars, taskVars
  <2>2. QED BY <1>3, <2>1
<1>7. QED BY <1>4, <1>5, <1>6

LEMMA InitMoney == Init => MoneyInv
<1> SUFFICES ASSUME Init PROVE MoneyInv
  OBVIOUS
<1>1. FundsInv
  BY InitFunds
<1>2. OneRecord /\ ChargedOnce
  BY DEF Init, OneRecord, ChargedOnce
<1>3. \A t \in Tasks : PaidFromWallet[t] = 0
  <2>1. \A t \in Tasks : ~Captured(t)
    <3>1. ASSUME NEW t \in Tasks
          PROVE  CaptureClaim(t) \notin {HoldClaim(x) : x \in Legacy}
      BY DEF HoldClaim, CaptureClaim
    <3>2. QED BY <3>1, ClaimNames DEF Init, Captured, Claimed
  <2>2. QED BY <2>1 DEF PaidFromWallet
<1>4. \A r \in Requests : ChargedToWallet[r] = 0
  BY DEF Init, ChargedToWallet, NoShares
<1>5. ASSUME NEW S, NEW f, \A x \in S : f[x] = 0 PROVE Total(f, S) = 0
  <2>1. Total(f, S) = Total(f, {})
    BY <1>5, TotalOfPart
  <2>2. Units(f, {}) = {}
    BY DEF Units
  <2>3. QED BY <2>1, <2>2, FS_EmptySet DEF Total
<1>6. ASSUME NEW u \in Users
      PROVE  /\ Total(PaidFromWallet, TasksOf(u)) = 0
             /\ Total(ChargedToWallet, RequestsOf(u)) = 0
  <2>1. \A t \in TasksOf(u) : PaidFromWallet[t] = 0
    BY <1>3 DEF TasksOf
  <2>2. \A r \in RequestsOf(u) : ChargedToWallet[r] = 0
    BY <1>4 DEF RequestsOf
  <2>3. QED BY <1>5, <2>1, <2>2
<1>7. ASSUME NEW u \in Users
      PROVE  /\ balance[u] = InitBalance[u] /\ balance[u] \in Int
             /\ frozen[u] = Total(Estimate, TasksOf(u) \cap Legacy) /\ frozen[u] \in Int
  <2>1. /\ balance[u] = InitBalance[u]
        /\ frozen[u] = Total(Estimate, TasksOf(u) \cap Legacy)
    BY DEF Init
  <2>2. balance \in [Users -> Int] /\ frozen \in [Users -> Nat]
    BY <1>1 DEF FundsInv, TypeOK, WalletTypeOK
  <2>3. QED BY <2>1, <2>2
<1>8. MoneyConserved
  BY <1>6, <1>7 DEF MoneyConserved
<1>9. QED BY <1>1, <1>2, <1>8 DEF MoneyInv

LEMMA MoneyInvStep == MoneyInv /\ [Next]_vars => MoneyInv'
<1> SUFFICES ASSUME MoneyInv, [Next]_vars PROVE MoneyInv'
  OBVIOUS
<1>1. FundsInv' /\ OneRecord' /\ ChargedOnce'
  BY FundsInvStep, OneRecordStep, ChargedOnceStep DEF MoneyInv
<1>2. MoneyConserved'
  BY ReserveMoney, CaptureMoney, ReleaseMoney, ApplyMoney, OtherMoney DEF Next, TaskStep
<1>3. QED BY <1>1, <1>2 DEF MoneyInv

\* Money is neither lost nor made by any order of holds, captures, releases and
\* requests: a payer's balance, its frozen balance and what was charged to its wallet
\* add up to what it started with (settlement.go, every transaction of it).
THEOREM MoneyCorrect == Spec => []MoneyConserved
<1>1. MoneyInv => MoneyConserved
  BY DEF MoneyInv
<1>2. QED BY <1>1, InitMoney, MoneyInvStep, PTL DEF Spec

-----------------------------------------------------------------------------
(* The store implements the ledger                                           *)

\* What the ledger sees of a state.
Money == [u \in Users |-> balance[u] + frozen[u]]
Placed == {t \in Tasks : Claimed(HoldClaim(t))}
Closed == {t \in Tasks : Resolved(t)}

\* A wallet's available part is what the ledger calls free money.
LEMMA FreeMoney ==
  ASSUME FundsInv, NEW u \in Users
  PROVE  /\ Money[u] - Ledger!HeldOf(u) = balance[u]
         /\ balance[u] \in Int /\ frozen[u] \in Nat
<1>1. balance[u] \in Int /\ frozen[u] \in Nat
  BY DEF FundsInv, TypeOK, WalletTypeOK
<1>2. Ledger!HeldOf(u) = Total(Outstanding, TasksOf(u))
  BY DEF Ledger!HeldOf, Ledger!Total, Ledger!Units, Ledger!UnitsOf,
     Ledger!Cardinality, Total, Units, UnitsOf, Cardinality, TasksOf
<1>3. frozen[u] = Total(Outstanding, TasksOf(u))
  BY DEF FundsInv, FrozenIsOutstanding
<1>4. QED BY <1>1, <1>2, <1>3 DEF Money

\* One task's hold changes and the others do not.
LEMMA HoldChanges ==
  ASSUME NEW t \in Tasks, NEW n, Outstanding'[t] = n,
         \A x \in Tasks \ {t} : Outstanding'[x] = Outstanding[x]
  PROVE  Outstanding' = [Outstanding EXCEPT ![t] = n]
<1>1. Outstanding = [x \in Tasks |-> Outstanding[x]]
  BY DEF Outstanding
<1>2. Outstanding' = [x \in Tasks |-> Outstanding'[x]]
  BY DEF Outstanding
<1>3. QED BY <1>1, <1>2

\* Money moves between the two parts of a wallet, or n of it leaves.
LEMMA MoneyMoves ==
  ASSUME FundsInv, NEW u \in Users, NEW w \in Int, NEW n \in Int,
         balance' = [balance EXCEPT ![u] = @ + w - n],
         frozen' = [frozen EXCEPT ![u] = @ - w]
  PROVE  Money' = [Money EXCEPT ![u] = @ - n]
<1>1. balance \in [Users -> Int] /\ frozen \in [Users -> Int]
  BY DEF FundsInv, TypeOK, WalletTypeOK
<1>2. \A v \in Users : Money'[v] = IF v = u THEN Money[u] - n ELSE Money[v]
  BY <1>1 DEF Money
<1>3. Money' = [v \in Users |-> Money'[v]] /\ Money = [v \in Users |-> Money[v]]
  BY DEF Money
<1>4. QED BY <1>2, <1>3

\* Claims and holds stay, and so does what the ledger sees of them.
LEMMA SeenSame ==
  ASSUME \A x \in Tasks : ClaimsSame(x),
         \A x \in Tasks : Outstanding'[x] = Outstanding[x]
  PROVE  UNCHANGED <<Outstanding, Placed, Closed>>
<1>1. /\ Outstanding = [x \in Tasks |-> Outstanding[x]]
      /\ Outstanding' = [x \in Tasks |-> Outstanding'[x]]
  BY DEF Outstanding
<1>2. UNCHANGED <<Placed, Closed>>
  BY DEF Placed, Closed, Resolved, Captured, ClaimsSame
<1>3. QED BY <1>1, <1>2

-----------------------------------------------------------------------------
(* Each operation                                                            *)

\* Reserve places the wallet's part of the hold.
LEMMA ReserveIsPlace ==
  ASSUME FundsInv, NEW t \in Tasks, Reserve(t)
  PROVE  \E n \in 0..MaxAmount : Ledger!Place(t, n)
<1> DEFINE sub == SubShare(t, Estimate[t])
           bal == Estimate[t] - sub
<1>1. TypeOK /\ PayerOf[t] \in Users /\ row \in [Tasks -> FundsRows]
  BY DEF FundsInv, TypeOK, TaskTypeOK
<1>2. sub \in Nat /\ sub <= Estimate[t] /\ Estimate[t] \in 1..MaxAmount
  BY <1>1, SubShareType
<1>3. bal \in 0..MaxAmount
  BY <1>2
<1> HIDE DEF sub
<1>4. /\ balance' = [balance EXCEPT ![PayerOf[t]] = @ - bal]
      /\ frozen' = [frozen EXCEPT ![PayerOf[t]] = @ + bal]
      /\ bal > 0 => balance[PayerOf[t]] >= bal
      /\ row' = [row EXCEPT ![t] =
                   [hold |-> Estimate[t], bal |-> bal, sub |-> sub, allow |-> TRUE]]
      /\ Take(HoldClaim(t), Plain)
  BY DEF Reserve, CoversHold, sub
<1>5. ~Claimed(HoldClaim(t)) /\ ~Claimed(CaptureClaim(t)) /\ ~Claimed(ReleaseClaim(t))
  BY DEF Reserve, Fresh, FundsInv, OwnerDiscipline, Claimed
<1>6. /\ \A x \in Tasks \ {t} : ClaimsSame(x)
      /\ Claimed(HoldClaim(t))' /\ ~Claimed(CaptureClaim(t))' /\ ~Claimed(ReleaseClaim(t))'
  BY <1>1, <1>4, <1>5, TakeOfTask DEF HoldClaim, CaptureClaim, ReleaseClaim
<1>7. Placed' = Placed \cup {t} /\ Closed' = Closed /\ t \notin Placed \cup Closed
  BY <1>5, <1>6 DEF Placed, Closed, Resolved, Captured, ClaimsSame
<1>8. Outstanding' = [Outstanding EXCEPT ![t] = bal]
  <2>1. /\ row'[t].hold = Estimate[t] /\ row'[t].sub = sub
        /\ \A x \in Tasks \ {t} : row'[x] = row[x]
    BY <1>1, <1>4
  <2>2. Outstanding'[t] = bal
    BY <1>6, <2>1 DEF Outstanding, Held, Resolved, Captured
  <2>3. \A x \in Tasks \ {t} : Outstanding'[x] = Outstanding[x]
    BY <1>6, <2>1, OutstandingSame DEF ClaimsSame
  <2> HIDE DEF bal
  <2>4. QED BY <2>2, <2>3, HoldChanges
<1>9. Money' = Money
  <2>1. balance \in [Users -> Int] /\ frozen \in [Users -> Int]
    BY <1>1 DEF TypeOK, WalletTypeOK
  <2>2. \A u \in Users : balance'[u] + frozen'[u] = balance[u] + frozen[u]
    BY <1>1, <1>3, <1>4, <2>1
  <2>3. QED BY <2>2 DEF Money
<1> HIDE DEF bal
<1>10. bal > 0 => Money[PayerOf[t]] - Ledger!HeldOf(PayerOf[t]) >= bal
  BY <1>1, <1>4, FreeMoney
<1>11. Ledger!Place(t, bal)
  BY <1>7, <1>8, <1>9, <1>10 DEF Ledger!Place, Money, Placed, Closed
<1>12. QED BY <1>3, <1>11

\* Capture and Release close the hold: what the two have in common.
LEMMA ClosesOnce ==
  ASSUME FundsInv, NEW t \in Tasks, NEW fp \in Nat \cup {Plain},
         NEW c \in {CaptureClaim(t), ReleaseClaim(t)}, Take(c, fp),
         ~Resolved(t), row' = [row EXCEPT ![t].allow = FALSE],
         NEW kept \in 0..MaxAmount, kept <= Outstanding[t],
         Money' = [Money EXCEPT ![PayerOf[t]] = @ - kept]
  PROVE  Ledger!Close(t, kept)
<1>1. TypeOK /\ row \in [Tasks -> FundsRows]
  BY DEF FundsInv, TypeOK, TaskTypeOK
<1>2. /\ \A x \in Tasks \ {t} : ClaimsSame(x)
      /\ Claimed(HoldClaim(t))' <=> Claimed(HoldClaim(t))
      /\ Resolved(t)'
  BY <1>1, TakeOfTask DEF HoldClaim, CaptureClaim, ReleaseClaim, Resolved, Captured
<1>3. Placed' = Placed /\ Closed' = Closed \cup {t} /\ t \notin Closed
  BY <1>2 DEF Placed, Closed, Resolved, Captured, ClaimsSame
<1>4. Outstanding' = [Outstanding EXCEPT ![t] = 0]
  <2>1. Outstanding'[t] = 0
    BY <1>2 DEF Outstanding, Held
  <2>2. \A x \in Tasks \ {t} : row'[x] = row[x]
    BY <1>1
  <2>3. \A x \in Tasks \ {t} : Outstanding'[x] = Outstanding[x]
    BY <1>2, <2>2, OutstandingSame DEF ClaimsSame
  <2>4. QED BY <2>1, <2>3, HoldChanges
<1>5. QED BY <1>3, <1>4 DEF Ledger!Close, Money, Placed, Closed

\* Capture closes the hold and keeps the wallet's part of the actual amount.
LEMMA CaptureIsClose ==
  ASSUME FundsInv, NEW t \in Tasks, NEW a \in Actuals, Capture(t, a)
  PROVE  \E n \in 0..MaxAmount : Ledger!Close(t, n)
<1>1. /\ TypeOK /\ PayerOf[t] \in Users
      /\ row[t] \in FundsRows /\ a \in 0..MaxAmount
  BY DEF FundsInv, TypeOK, TaskTypeOK
<1>2. PICK w \in Nat : w = WalletHold(row[t])
  BY <1>1, WalletHoldType
<1>3. PICK n \in 0..MaxAmount : n = KeptBal(row[t], a)
  BY <1>1 DEF KeptBal, KeptSub, Least, FundsRows
<1>4. /\ n <= w
      /\ balance' = [balance EXCEPT ![PayerOf[t]] = @ + w - n]
      /\ frozen' = [frozen EXCEPT ![PayerOf[t]] = @ - w]
      /\ row' = [row EXCEPT ![t].allow = FALSE]
      /\ Take(CaptureClaim(t), a)
  BY <1>2, <1>3 DEF Capture, CaptureFunds, CaptureBalance, CaptureAllowance
<1>5. Claimed(HoldClaim(t)) /\ ~Resolved(t)
  BY DEF Capture, Fresh, FundsInv, OwnerDiscipline, Claimed, Resolved, Captured
<1>6. Outstanding[t] = w
  BY <1>2, <1>5 DEF FundsInv, RowsRecordHolds, Outstanding, Held
<1>7. Money' = [Money EXCEPT ![PayerOf[t]] = @ - n]
  <2>1. w \in Int /\ n \in Int
    OBVIOUS
  <2>2. QED BY <1>1, <1>4, <2>1, MoneyMoves
<1>8. Ledger!Close(t, n)
  <2>1. a \in Nat \cup {Plain}
    BY <1>1
  <2>2. QED BY <1>4, <1>5, <1>6, <1>7, <2>1, ClosesOnce
<1>9. QED BY <1>8

\* Release closes the hold, if there is one, and keeps nothing.
LEMMA ReleaseIsClose ==
  ASSUME FundsInv, NEW t \in Tasks, Release(t)
  PROVE  \E n \in 0..MaxAmount : Ledger!Close(t, n)
<1>1. /\ TypeOK /\ PayerOf[t] \in Users /\ row[t] \in FundsRows
      /\ balance \in [Users -> Int] /\ frozen \in [Users -> Int]
  BY DEF FundsInv, TypeOK, TaskTypeOK, WalletTypeOK
<1>2. ~Resolved(t)
  BY DEF Release, Fresh, FundsInv, OwnerDiscipline, Claimed, Resolved, Captured
<1>3. row' = [row EXCEPT ![t].allow = FALSE] /\ Take(ReleaseClaim(t), Plain)
  BY DEF Release, ReleaseFunds
<1>4. PICK z \in 0..MaxAmount : z = 0
  BY <1>1 DEF TypeOK
<1>5. Money' = [Money EXCEPT ![PayerOf[t]] = @ - z]
  <2>1. CASE Claimed(HoldClaim(t))
    <3>0. PICK w \in Nat : w = WalletHold(row[t])
      BY <1>1, WalletHoldType
    <3>1. /\ balance' = [balance EXCEPT ![PayerOf[t]] = @ + w]
          /\ frozen' = [frozen EXCEPT ![PayerOf[t]] = @ - w]
      BY <2>1, <3>0 DEF Release, ReleaseFunds, ReleaseBalance
    <3>2. /\ balance[PayerOf[t]] + w = balance[PayerOf[t]] + w - z
          /\ w \in Int /\ z \in Int
      BY <1>1, <1>4
    <3>3. balance' = [balance EXCEPT ![PayerOf[t]] = @ + w - z]
      BY <3>1, <3>2
    <3>4. frozen' = [frozen EXCEPT ![PayerOf[t]] = @ - w]
      BY <3>1
    <3>5. PayerOf[t] \in Users /\ w \in Int /\ z \in Int
      BY <1>1
    <3>6. QED BY <3>3, <3>4, <3>5, MoneyMoves
  <2>2. CASE ~Claimed(HoldClaim(t))
    <3>1. UNCHANGED <<balance, frozen>>
      BY <2>2 DEF Release, ReleaseFunds, wallet
    <3>2. \A u \in Users : Money[u] \in Int /\ Money[u] = Money[u] - z
      BY <1>1, <1>4 DEF Money
    <3>3. Money' = Money /\ Money = [u \in Users |-> Money[u]]
      BY <3>1 DEF Money
    <3>4. QED BY <1>1, <3>2, <3>3
  <2>3. QED BY <2>1, <2>2
<1>6. z <= Outstanding[t]
  <2>1. Outstanding[t] \in Nat
    BY OutstandingNat DEF FundsInv
  <2>2. QED BY <1>4, <2>1
<1>7. Ledger!Close(t, z)
  BY <1>2, <1>3, <1>5, <1>6, ClosesOnce
<1>8. QED BY <1>7

\* Apply spends the wallet's part of the cost.
LEMMA ApplyIsSpend ==
  ASSUME FundsInv, NEW r \in Requests, Apply(r)
  PROVE  \E u \in Users : \E n \in 0..MaxAmount : Ledger!Spend(u, n)
<1>1. /\ TypeOK /\ PayerOf[r] \in Users /\ Cost[r] \in 0..MaxAmount
      /\ balance \in [Users -> Int] /\ frozen \in [Users -> Int]
  BY DEF FundsInv, TypeOK, WalletTypeOK
<1>2. PICK n \in 0..MaxAmount : n = Cost[r] - SubShare(r, Cost[r])
  <2>1. SubShare(r, Cost[r]) \in Nat /\ SubShare(r, Cost[r]) <= Cost[r]
    BY <1>1, SubShareType
  <2>2. QED BY <1>1, <2>1
<1>3. balance' = [balance EXCEPT ![PayerOf[r]] = @ - n] /\ UNCHANGED <<frozen, row, phase>>
  BY <1>2 DEF Apply, ApplyEffects, Deduct, taskVars
<1>4. \A d \in Claims : Claimed(d)' <=> d = UsageClaim(r) \/ Claimed(d)
  <2>1. Take(UsageClaim(r), Plain)
    BY DEF Apply
  <2>2. QED BY <1>1, <2>1, ClaimNames, ClaimedAfterTake
<1>5. \A x \in Tasks : ClaimsSame(x)
  BY <1>4, ClaimNames, ClaimsApart DEF ClaimsSame
<1>6. Money' = [Money EXCEPT ![PayerOf[r]] = @ - n]
  <2>1. \A v \in Users : Money'[v] = IF v = PayerOf[r] THEN Money[v] - n ELSE Money[v]
    BY <1>1, <1>3 DEF Money
  <2>2. Money' = [v \in Users |-> Money'[v]] /\ Money = [v \in Users |-> Money[v]]
    BY DEF Money
  <2>3. QED BY <2>1, <2>2
<1>7. UNCHANGED <<Outstanding, Placed, Closed>>
  <2>1. \A x \in Tasks : Outstanding'[x] = Outstanding[x]
    BY <1>3, <1>5, OutstandingSame DEF ClaimsSame
  <2>2. QED BY <1>5, <2>1, SeenSame
<1>8. Ledger!Spend(PayerOf[r], n)
  BY <1>6, <1>7 DEF Ledger!Spend, Money, Placed, Closed
<1>9. QED BY <1>1, <1>8

\* Everything else is invisible to the ledger.
LEMMA OthersAreInvisible ==
  ASSUME FundsInv,
         \/ \E t \in Tasks : \/ CreateTask(t)
                              \/ \E p \in {"settling", "refunding"} : Decide(t, p)
         \/ \E C \in SUBSET {c \in Claims : live[c] # Absent} : Archive(C)
         \/ KeyStep \/ (\E u \in Users : ResetWindow(u)) \/ NextDay \/ UNCHANGED vars
  PROVE  UNCHANGED Ledger!ledgerVars
<1>1. UNCHANGED <<balance, frozen>>
  BY DEF CreateTask, Decide, Archive, KeyStep, DisableTeamKey, EnableTeamKey,
     ReadKey, UpdateKey, ResetWindow, NextDay, vars, wallet
<1>2. \A x \in Tasks : ClaimsSame(x)
  <2>1. ASSUME NEW C \in SUBSET {c \in Claims : live[c] # Absent}, Archive(C)
        PROVE  \A x \in Tasks : ClaimsSame(x)
    BY <2>1, ClaimNames, ClaimedAfterArchive DEF FundsInv, ClaimsSame
  <2>2. CASE UNCHANGED <<live, archive>>
    BY <2>2 DEF ClaimsSame, Claimed
  <2>3. QED BY <2>1, <2>2 DEF CreateTask, Decide, KeyStep, DisableTeamKey, EnableTeamKey,
           ReadKey, UpdateKey, ResetWindow, NextDay, vars, claimVars
<1>3. \A x \in Tasks : Outstanding'[x] = Outstanding[x]
  <2>1. ASSUME NEW t \in Tasks, CreateTask(t), NEW x \in Tasks
        PROVE  Outstanding'[x] = Outstanding[x]
    <3>1. ~Claimed(HoldClaim(t)) /\ row \in [Tasks -> FundsRows]
      BY <2>1 DEF CreateTask, FundsInv, OwnerDiscipline, TypeOK, TaskTypeOK
    <3>2. CASE x = t
      BY <1>2, <3>1, <3>2 DEF Outstanding, Held, ClaimsSame
    <3>3. CASE x # t
      <4>1. row'[x] = row[x]
        BY <2>1, <3>1, <3>3 DEF CreateTask
      <4>2. QED BY <1>2, <4>1, OutstandingSame DEF ClaimsSame
    <3>4. QED BY <3>2, <3>3
  <2>2. CASE UNCHANGED row
    BY <1>2, <2>2, OutstandingSame DEF ClaimsSame
  <2>3. QED BY <2>1, <2>2 DEF Decide, Archive, KeyStep, DisableTeamKey, EnableTeamKey,
           ReadKey, UpdateKey, ResetWindow, NextDay, vars, taskVars
<1>4. UNCHANGED <<Outstanding, Placed, Closed>>
  BY <1>2, <1>3, SeenSame
<1>5. QED BY <1>1, <1>4 DEF Ledger!ledgerVars, Money, Placed, Closed

-----------------------------------------------------------------------------
LEMMA LedgerStarts == Init => Ledger!Init
<1> SUFFICES ASSUME Init PROVE Ledger!Init
  OBVIOUS
<1>1. \A t \in Tasks : /\ Claimed(HoldClaim(t)) <=> t \in Legacy
                       /\ ~Claimed(CaptureClaim(t)) /\ ~Claimed(ReleaseClaim(t))
  BY InitClaims
<1>2. \A t \in Tasks : Outstanding[t] = IF t \in Legacy THEN Estimate[t] ELSE 0
  BY InitOutstanding
<1>3. Outstanding = [t \in Tasks |-> IF t \in Legacy THEN Estimate[t] ELSE 0]
  BY <1>2 DEF Outstanding
<1>4. Money = [u \in Users |-> InitBalance[u] + Total(Estimate, TasksOf(u) \cap Legacy)]
  BY DEF Init, Money
<1>5. Placed = {t \in Tasks : (IF t \in Legacy THEN Estimate[t] ELSE 0) > 0}
  BY <1>1 DEF Placed
<1>6. Closed = {}
  BY <1>1 DEF Closed, Resolved, Captured
<1>7. QED BY <1>3, <1>4, <1>5, <1>6 DEF Ledger!Init, Money, Placed, Closed

LEMMA LedgerSteps == FundsInv /\ [Next]_vars => [Ledger!Next]_(Ledger!ledgerVars)
<1> SUFFICES ASSUME FundsInv, [Next]_vars
             PROVE  Ledger!Next \/ UNCHANGED Ledger!ledgerVars
  OBVIOUS
<1>1. ASSUME NEW t \in Tasks, Reserve(t) PROVE Ledger!Next
  BY <1>1, ReserveIsPlace DEF Ledger!Next
<1>2. ASSUME NEW t \in Tasks, NEW a \in Actuals, Capture(t, a) PROVE Ledger!Next
  BY <1>2, CaptureIsClose DEF Ledger!Next
<1>3. ASSUME NEW t \in Tasks, Release(t) PROVE Ledger!Next
  BY <1>3, ReleaseIsClose DEF Ledger!Next
<1>4. ASSUME NEW r \in Requests, Apply(r) PROVE Ledger!Next
  BY <1>4, ApplyIsSpend DEF Ledger!Next
<1>5. QED BY <1>1, <1>2, <1>3, <1>4, OthersAreInvisible DEF Next, TaskStep

\* The settlement store implements the ledger (settlement.go: reserve, capture and
\* release keep each task's hold its own): a hold is placed at most once and only on
\* free money, and closed once, keeping no more than its own amount.
THEOREM LedgerCorrect == Spec => LedgerSpec
<1>1. QED BY InitFunds, FundsInvStep, LedgerStarts, LedgerSteps, PTL
          DEF Spec, LedgerSpec, Ledger!Spec

-----------------------------------------------------------------------------
(* The API key's quota                                                       *)

\* The inductive invariant behind ExhaustedKeyIsSpent: a step that leaves a key
\* exhausted, unlocked and on a current reading leaves it at its quota.
StatusInv == KeyTypeOK /\ ExhaustedKeyIsSpent

LEMMA StatusEffects ==
  ASSUME StatusInv, NEW k \in Keys, NEW a \in Nat,
         \/ ReserveKey(k, a) \/ RefundKeyBestEffort(k, a)
         \/ ChargeLegacyKey(k, a) \/ ChargeKey(k, a)
  PROVE  ExhaustedKeyIsSpent'
<1> USE DEF StatusInv, KeyTypeOK, KeyStatuses, ExhaustedKeyIsSpent
<1>1. quota[k] \in Nat /\ quotaUsed[k] \in Nat
  OBVIOUS
<1>2. CASE ReserveKey(k, a)
  BY <1>1, <1>2 DEF ReserveKey, Reaches, HasQuota, keyConfig
<1>3. CASE RefundKey(k, a)
  BY <1>3 DEF RefundKey, Reaches, HasQuota, AtLeastZero, keyConfig
<1>4. CASE UNCHANGED keyVars
  BY <1>4 DEF keyVars, keyConfig, Reaches, HasQuota
<1>5. CASE ChargeLegacyKey(k, a)
  BY <1>1, <1>5 DEF ChargeLegacyKey, Reaches, HasQuota, keyConfig
<1>6. CASE ChargeKey(k, a)
  BY <1>1, <1>6 DEF ChargeKey, Reaches, HasQuota, keyConfig
<1>7. QED BY <1>2, <1>3, <1>4, <1>5, <1>6 DEF RefundKeyBestEffort

\* An update that read the key as it still is decides its status rightly; one that
\* writes the status writes none that says the quota is reached.
LEMMA UpdateStatus ==
  ASSUME StatusInv, KeyTypeOK', NEW e \in Updates,
         NEW st \in {"keep", "active", "disabled"},
         NEW limit \in NewQuotas \cup {SameQuota}, NEW reset \in BOOLEAN,
         UpdateKey(e, st, limit, reset)
  PROVE  ExhaustedKeyIsSpent'
<1> DEFINE k == KeyOfUpdate[e]
           was == edit[e]
           final == StatusOfUpdate(was, st, limit, reset)
           writes == st # "keep" \/ final # was.status
<1>1. k \in Keys /\ KeyTypeOK /\ ExhaustedKeyIsSpent /\ limit \in Nat \cup {SameQuota}
  BY DEF StatusInv
<1>2. was \in EditRecords
  BY <1>1 DEF KeyTypeOK
<1>3. /\ keyStatus' = IF writes THEN [keyStatus EXCEPT ![k] = final] ELSE keyStatus
      /\ quota' = IF limit # SameQuota THEN [quota EXCEPT ![k] = limit] ELSE quota
      /\ quotaUsed' = IF reset THEN [quotaUsed EXCEPT ![k] = 0] ELSE quotaUsed
      /\ UNCHANGED ownerDisabled
  BY DEF UpdateKey
<1>4. outdated' = [outdated EXCEPT ![k] =
                     /\ ~writes
                     /\ IF limit # SameQuota \/ reset
                        THEN was.status # keyStatus[k] \/ was.used # quotaUsed[k]
                        ELSE @]
  BY DEF UpdateKey
<1>5. ASSUME NEW x \in Keys \ {k}, keyStatus'[x] = "quota_exhausted",
             ~ownerDisabled'[x], ~outdated'[x]
      PROVE  Reaches(x, quotaUsed[x])'
  <2>1. /\ keyStatus'[x] = keyStatus[x] /\ quota'[x] = quota[x]
        /\ quotaUsed'[x] = quotaUsed[x] /\ outdated'[x] = outdated[x]
    BY <1>1, <1>3, <1>4 DEF KeyTypeOK
  <2>2. QED BY <1>1, <1>3, <1>5, <2>1 DEF ExhaustedKeyIsSpent, Reaches, HasQuota
<1>6. ASSUME keyStatus'[k] = "quota_exhausted", ~ownerDisabled'[k], ~outdated'[k]
      PROVE  Reaches(k, quotaUsed[k])'
  <2>1. ~writes
    <3>1. ASSUME st # "keep" PROVE final # "quota_exhausted"
      BY <3>1 DEF StatusOfUpdate
    <3>2. ASSUME st = "keep", final # was.status PROVE final = "active"
      BY <3>2 DEF StatusOfUpdate
    <3>3. writes => keyStatus'[k] = final
      BY <1>1, <1>3 DEF KeyTypeOK
    <3>4. QED BY <1>6, <3>1, <3>2, <3>3
  <2>2. /\ keyStatus[k] = "quota_exhausted"
        /\ IF limit # SameQuota \/ reset
           THEN was.status = keyStatus[k] /\ was.used = quotaUsed[k]
           ELSE ~outdated[k]
    BY <1>1, <1>3, <1>4, <1>6, <2>1 DEF KeyTypeOK
  <2>3. CASE limit = SameQuota /\ ~reset
    BY <1>1, <1>3, <1>6, <2>2, <2>3 DEF ExhaustedKeyIsSpent, Reaches, HasQuota
  <2>4. CASE limit # SameQuota \/ reset
    <3>1. st = "keep" /\ final = "quota_exhausted"
      BY <2>1, <2>2, <2>4
    <3>2. ~reset /\ limit # SameQuota /\ limit # 0 /\ ~(limit > quotaUsed[k])
      BY <2>2, <2>4, <3>1 DEF StatusOfUpdate
    <3>3. quota'[k] = limit /\ quotaUsed'[k] = quotaUsed[k] /\ limit \in Nat
      BY <1>1, <1>3, <3>2 DEF KeyTypeOK
    <3>4. quotaUsed[k] \in Nat
      BY <1>1 DEF KeyTypeOK
    <3>5. quotaUsed'[k] >= quota'[k] /\ quota'[k] > 0
      BY <3>2, <3>3, <3>4
    <3>6. QED BY <3>5 DEF Reaches, HasQuota
  <2>5. QED BY <2>3, <2>4
<1>7. QED BY <1>5, <1>6 DEF ExhaustedKeyIsSpent

\* Which key effect each operation has.
LEMMA KeyEffectOfCapture ==
  ASSUME TypeOK, NEW t \in Tasks, NEW a \in Actuals, Capture(t, a)
  PROVE  \/ UNCHANGED keyVars
         \/ \E n \in Nat : \/ RefundKeyBestEffort(KeyOf[t], n)
                           \/ ChargeLegacyKey(KeyOf[t], n)
<1>1. row[t] \in FundsRows /\ a \in Nat
  BY DEF TypeOK, TaskTypeOK
<1>2. row[t].hold \in Nat
  BY <1>1 DEF FundsRows
<1>3. row[t].hold > a => row[t].hold - a \in Nat
  BY <1>1, <1>2
<1>4. CaptureAllowance(t, row[t], a)
  BY DEF Capture, CaptureFunds
<1>5. QED BY <1>1, <1>3, <1>4 DEF CaptureAllowance

LEMMA KeyEffectOfRelease ==
  ASSUME TypeOK, NEW t \in Tasks, Release(t)
  PROVE  \/ UNCHANGED keyVars
         \/ \E n \in Nat : RefundKeyBestEffort(KeyOf[t], n)
<1>1. row[t] \in FundsRows
  BY DEF TypeOK, TaskTypeOK
<1>2. row[t].hold \in Nat
  BY <1>1 DEF FundsRows
<1>3. QED BY <1>2 DEF Release, ReleaseFunds

LEMMA StatusInvStep == TypeOK /\ StatusInv /\ [Next]_vars => StatusInv'
<1> SUFFICES ASSUME TypeOK, StatusInv, [Next]_vars PROVE StatusInv'
  OBVIOUS
<1>1. KeyTypeOK'
  BY ReserveType, CaptureType, ReleaseType, ApplyType, OtherStepsType
     DEF Next, TaskStep, TypeOK
<1>2. \A x \in Tasks \cup Requests : KeyOf[x] \in Keys
  BY Members
<1>3. ASSUME UNCHANGED keyVars PROVE ExhaustedKeyIsSpent'
  BY <1>3 DEF keyVars, keyConfig, StatusInv, ExhaustedKeyIsSpent, Reaches, HasQuota
<1>4. ASSUME NEW t \in Tasks, Reserve(t) PROVE ExhaustedKeyIsSpent'
  BY <1>2, <1>4, Members, StatusEffects DEF Reserve
<1>5. ASSUME NEW t \in Tasks, NEW a \in Actuals, Capture(t, a)
      PROVE  ExhaustedKeyIsSpent'
  BY <1>2, <1>3, <1>5, KeyEffectOfCapture, StatusEffects
<1>6. ASSUME NEW t \in Tasks, Release(t) PROVE ExhaustedKeyIsSpent'
  BY <1>2, <1>3, <1>6, KeyEffectOfRelease, StatusEffects
<1>7. ASSUME NEW r \in Requests, Apply(r) PROVE ExhaustedKeyIsSpent'
  BY <1>2, <1>7, Members, StatusEffects DEF Apply, ApplyEffects
<1>8. ASSUME KeyStep PROVE ExhaustedKeyIsSpent'
  <2>1. ASSUME NEW k \in Keys, DisableTeamKey(k) \/ EnableTeamKey(k)
        PROVE  ExhaustedKeyIsSpent'
    <3>1. UNCHANGED <<quotaUsed, quota, outdated>> /\ keyStatus'[k] # "quota_exhausted"
      BY <2>1 DEF DisableTeamKey, EnableTeamKey, StatusInv, KeyTypeOK
    <3>2. \A x \in Keys \ {k} : UNCHANGED <<keyStatus[x], ownerDisabled[x]>>
      BY <2>1 DEF DisableTeamKey, EnableTeamKey, StatusInv, KeyTypeOK
    <3>3. QED BY <3>1, <3>2 DEF StatusInv, ExhaustedKeyIsSpent, Reaches, HasQuota
  <2>2. ASSUME NEW e \in Updates, ReadKey(e) PROVE ExhaustedKeyIsSpent'
    BY <2>2 DEF ReadKey, StatusInv, ExhaustedKeyIsSpent, Reaches, HasQuota
  <2>3. QED BY <1>1, <1>8, <2>1, <2>2, UpdateStatus DEF KeyStep
<1>9. ASSUME \/ \E t \in Tasks : CreateTask(t)
             \/ \E t \in Tasks : \E p \in {"settling", "refunding"} : Decide(t, p)
             \/ \E C \in SUBSET {c \in Claims : live[c] # Absent} : Archive(C)
             \/ (\E u \in Users : ResetWindow(u)) \/ NextDay \/ UNCHANGED vars
      PROVE  ExhaustedKeyIsSpent'
  <2>1. UNCHANGED keyVars
    BY <1>9 DEF CreateTask, Decide, Archive, ResetWindow, NextDay, vars, keyVars, keyConfig
  <2>2. QED BY <1>3, <2>1
<1>10. ExhaustedKeyIsSpent'
  BY <1>4, <1>5, <1>6, <1>7, <1>8, <1>9 DEF Next, TaskStep
<1>11. QED BY <1>1, <1>10 DEF StatusInv

\* A key marked quota_exhausted has reached its quota, in every order of charges,
\* refunds, owner locks and updates (settlement.go, releaseTaskAPIKeyAllowance;
\* apikey/service.go, Update), unless its owner has locked it or an update set its
\* quota or usage on a reading that no longer held.
THEOREM ExhaustedKeyCorrect == Spec => []ExhaustedKeyIsSpent
<1>1. Init => StatusInv
  <2>1. Init => KeyTypeOK
    BY InitType DEF TypeOK
  <2>2. QED BY <2>1 DEF Init, StatusInv, ExhaustedKeyIsSpent
<1>2. StatusInv => ExhaustedKeyIsSpent
  BY DEF StatusInv
<1>3. QED BY <1>1, <1>2, StatusInvStep, TypeCorrect, PTL DEF Spec

-----------------------------------------------------------------------------
(* What a key was charged                                                    *)

\* A capture's claim carries the amount it charged (Capture).
CapturesRecordAmounts == \A t \in Tasks : Captured(t) => ActualOf(t) \in Nat

\* A row says that its key's allowance is open only while the task's hold is
\* (applyTaskAllowance closes it with the claim that resolves the hold).
AllowanceIsHeld == \A t \in Tasks : row[t].allow => Held(t)

\* One function for all that a key may be charged for: its tasks and its requests.
KeyCharge ==
  [x \in Tasks \cup Requests |-> IF x \in Tasks THEN KeyShare[x]
                                 ELSE IF Claimed(UsageClaim(x)) THEN Cost[x] ELSE 0]
OnKey(k) == {x \in Tasks \cup Requests : KeyOf[x] = k}

LEMMA KeyShareNat ==
  ASSUME FundsInv, CapturesRecordAmounts
  PROVE  \A t \in Tasks : KeyShare[t] \in Nat
<1> SUFFICES ASSUME NEW t \in Tasks PROVE KeyShare[t] \in Nat
  OBVIOUS
<1>1. row[t] \in FundsRows
  BY DEF FundsInv, TypeOK, TaskTypeOK
<1>2. row[t].hold \in Nat
  BY <1>1 DEF FundsRows
<1>3. QED BY <1>2 DEF KeyShare, CapturesRecordAmounts

LEMMA KeyChargeNat ==
  ASSUME FundsInv, CapturesRecordAmounts
  PROVE  \A x \in Tasks \cup Requests : KeyCharge[x] \in Nat
BY KeyShareNat, Members DEF KeyCharge

\* The property, for that function.
Spent == [k \in Keys |-> quotaUsed[k] + forgiven[k]]
UsageCovers == \A k \in Keys : Spent[k] >= Total(KeyCharge, OnKey(k))

LEMMA SpentNat ==
  ASSUME KeyTypeOK
  PROVE  Spent \in [Keys -> Nat] /\ quotaUsed \in [Keys -> Nat] /\ forgiven \in [Keys -> Nat]
BY DEF Spent, KeyTypeOK

\* Where nothing is reset, what was spent follows the recorded usage.
LEMMA SpentFollows ==
  ASSUME KeyTypeOK, quotaUsed' \in [Keys -> Nat], UNCHANGED forgiven, NEW k \in Keys,
         NEW d \in Int, quotaUsed'[k] >= quotaUsed[k] + d
  PROVE  Spent'[k] >= Spent[k] + d /\ Spent'[k] \in Nat
BY DEF Spent, KeyTypeOK

\* Charges and refunds reset nothing.
LEMMA NothingForgiven ==
  ASSUME NEW k, NEW a, \/ ReserveKey(k, a) \/ RefundKeyBestEffort(k, a)
                      \/ ChargeLegacyKey(k, a) \/ ChargeKey(k, a) \/ UNCHANGED keyVars
  PROVE  UNCHANGED forgiven
BY DEF ReserveKey, RefundKeyBestEffort, RefundKey, ChargeLegacyKey, ChargeKey, keyVars,
   keyConfig

\* The inductive invariant behind KeyUsageCoversCharges.
UsageInv ==
  FundsInv /\ OneRecord /\ CapturesRecordAmounts /\ AllowanceIsHeld /\ UsageCovers

LEMMA FiniteOnKey == \A k \in Keys : IsFiniteSet(OnKey(k)) /\ OnKey(k) \subseteq Tasks \cup Requests
<1>1. IsFiniteSet(Tasks \cup Requests)
  BY FS_Union
<1>2. QED BY <1>1, FS_Subset DEF OnKey

LEMMA ChargesOnKey ==
  ASSUME FundsInv, CapturesRecordAmounts
  PROVE  KeyUsageCoversCharges <=> UsageCovers
<1>1. SUFFICES ASSUME NEW k \in Keys
               PROVE  Total(KeyCharge, OnKey(k))
                      = Total(KeyShare, {t \in Tasks : KeyOf[t] = k})
                        + Total(Cost, {r \in Requests : KeyOf[r] = k
                                                        /\ Claimed(UsageClaim(r))})
  BY DEF KeyUsageCoversCharges, UsageCovers, Spent
<1> DEFINE T == {t \in Tasks : KeyOf[t] = k}
           R == {r \in Requests : KeyOf[r] = k}
           A == {r \in Requests : KeyOf[r] = k /\ Claimed(UsageClaim(r))}
<1>2. OnKey(k) = T \cup R /\ T \cap R = {}
  BY DEF OnKey
<1>3. IsFiniteSet(T) /\ IsFiniteSet(R)
  BY FS_Subset
<1>4. \A x \in T \cup R : KeyCharge[x] \in Nat
  BY KeyChargeNat
<1>5. Total(KeyCharge, T) = Total(KeyShare, T)
  <2>1. \A x \in T : KeyCharge[x] = KeyShare[x]
    BY DEF KeyCharge
  <2>2. QED BY <2>1, TotalSame
<1>6. Total(KeyCharge, R) = Total(Cost, A)
  <2>1. A \subseteq R
    OBVIOUS
  <2>2. /\ \A x \in A : KeyCharge[x] = Cost[x]
        /\ \A x \in R \ A : KeyCharge[x] = 0
    BY DEF KeyCharge
  <2> HIDE DEF A, R
  <2>3. QED BY <2>1, <2>2, TotalOfPart
<1> HIDE DEF T, R, A
<1>7. Total(KeyCharge, T \cup R) = Total(KeyCharge, T) + Total(KeyCharge, R)
  BY <1>2, <1>3, <1>4, TotalOfBoth
<1>8. QED BY <1>2, <1>5, <1>6, <1>7 DEF T, A

\* A step keeps the usage of every key above its charges when one charge changes and
\* the usage of its key keeps up with it.
LEMMA UsageFollows ==
  ASSUME UsageInv, NEW a \in Tasks \cup Requests, NEW n \in Nat,
         KeyCharge'[a] = n,
         \A x \in (Tasks \cup Requests) \ {a} : KeyCharge'[x] = KeyCharge[x],
         \A k \in Keys \ {KeyOf[a]} : quotaUsed'[k] >= quotaUsed[k],
         quotaUsed'[KeyOf[a]] >= quotaUsed[KeyOf[a]] + n - KeyCharge[a],
         quotaUsed' \in [Keys -> Nat], UNCHANGED forgiven
  PROVE  UsageCovers'
<1> DEFINE g == KeyCharge'
           d == n - KeyCharge[a]
<1>1. SUFFICES ASSUME NEW k \in Keys PROVE Spent'[k] >= Total(g, OnKey(k))
  BY DEF UsageCovers, OnKey
<1>2. \A x \in Tasks \cup Requests : KeyCharge[x] \in Nat
  BY KeyChargeNat DEF UsageInv
<1>3. \A x \in Tasks \cup Requests : g[x] \in Nat
  BY <1>2
<1>4. \A x \in Tasks \cup Requests : g[x] = KeyCharge[x] + (IF x = a THEN d ELSE 0)
  BY <1>2
<1>5. d \in Int
  BY <1>2
<1>6. /\ Spent[k] >= Total(KeyCharge, OnKey(k)) /\ Spent[k] \in Nat
      /\ quotaUsed[k] \in Nat /\ KeyTypeOK
  BY SpentNat DEF UsageInv, FundsInv, TypeOK, UsageCovers
<1>7. /\ Spent'[k] >= Spent[k] + (IF a \in OnKey(k) THEN d ELSE 0)
      /\ Spent'[k] \in Nat
  <2>1. quotaUsed'[k] >= quotaUsed[k] + (IF a \in OnKey(k) THEN d ELSE 0)
    BY <1>2, <1>6 DEF OnKey
  <2>2. (IF a \in OnKey(k) THEN d ELSE 0) \in Int
    BY <1>5
  <2> HIDE DEF d
  <2>3. QED BY <1>6, <2>1, <2>2, SpentFollows
<1> HIDE DEF g, d
<1>8. Total(g, OnKey(k)) = Total(KeyCharge, OnKey(k)) + (IF a \in OnKey(k) THEN d ELSE 0)
  <2>1. IsFiniteSet(OnKey(k)) /\ OnKey(k) \subseteq Tasks \cup Requests
    BY FiniteOnKey
  <2>2. /\ \A x \in OnKey(k) : KeyCharge[x] \in Nat /\ g[x] \in Nat
        /\ \A x \in OnKey(k) : g[x] = KeyCharge[x] + (IF x = a THEN d ELSE 0)
    BY <1>2, <1>3, <1>4, <2>1
  <2>3. QED BY ONLY <1>5, <2>1, <2>2, TotalMoves
<1>9. Total(KeyCharge, OnKey(k)) \in Nat
  BY <1>2, FiniteOnKey, TotalNat
<1>10. QED BY <1>5, <1>6, <1>7, <1>8, <1>9

\* ... and when no charge changes and no usage falls.
LEMMA UsageStays ==
  ASSUME UsageInv, \A x \in Tasks \cup Requests : KeyCharge'[x] = KeyCharge[x],
         \A k \in Keys : Spent'[k] >= Spent[k], KeyTypeOK'
  PROVE  UsageCovers'
<1> DEFINE g == KeyCharge'
<1>1. SUFFICES ASSUME NEW k \in Keys PROVE Spent'[k] >= Total(g, OnKey(k))
  BY DEF UsageCovers, OnKey
<1>2. \A x \in OnKey(k) : KeyCharge[x] = g[x]
  BY FiniteOnKey
<1> HIDE DEF g
<1>3. Total(g, OnKey(k)) = Total(KeyCharge, OnKey(k))
  BY <1>2, TotalSame
<1>4. Total(KeyCharge, OnKey(k)) \in Nat
  BY KeyChargeNat, FiniteOnKey, TotalNat DEF UsageInv
<1>5. Spent[k] >= Total(KeyCharge, OnKey(k)) /\ Spent[k] \in Nat
  BY SpentNat DEF UsageInv, FundsInv, TypeOK, UsageCovers
<1>6. Spent'[k] \in Nat
  <2>1. quotaUsed'[k] \in Nat /\ forgiven'[k] \in Nat
    BY DEF KeyTypeOK
  <2>2. QED BY <2>1 DEF Spent
<1>7. QED BY <1>3, <1>4, <1>5, <1>6

\* What a step leaves of a task or a request, its key leaves too.
LEMMA TaskChargeSame ==
  ASSUME NEW x \in Tasks, ClaimsSame(x), row'[x] = row[x],
         Recorded(CaptureClaim(x))' = Recorded(CaptureClaim(x))
  PROVE  /\ KeyCharge'[x] = KeyCharge[x]
         /\ (Captured(x) => ActualOf(x) \in Nat) => (Captured(x) => ActualOf(x) \in Nat)'
         /\ (row[x].allow => Held(x)) => (row[x].allow => Held(x))'
BY DEF KeyCharge, KeyShare, Captured, ActualOf, Held, Resolved, ClaimsSame

LEMMA RequestChargeSame ==
  ASSUME NEW x \in Requests, Claimed(UsageClaim(x))' <=> Claimed(UsageClaim(x))
  PROVE  KeyCharge'[x] = KeyCharge[x]
BY DEF KeyCharge

\* Taking one of a task's claims changes only that task's charge.
LEMMA TakeForKey ==
  ASSUME UsageInv, NEW t \in Tasks, NEW fp \in Nat \cup {Plain},
         NEW c \in {HoldClaim(t), CaptureClaim(t), ReleaseClaim(t)}, Fresh(c), Take(c, fp),
         \A x \in Tasks \ {t} : row'[x] = row[x],
         (Captured(t) => ActualOf(t) \in Nat)', (row[t].allow => Held(t))'
  PROVE  /\ \A x \in (Tasks \cup Requests) \ {t} : KeyCharge'[x] = KeyCharge[x]
         /\ CapturesRecordAmounts' /\ AllowanceIsHeld'
<1>1. c \in Claims /\ FundsInv /\ TypeOK
  BY ClaimNames DEF UsageInv, FundsInv
<1>2. \A x \in Tasks \ {t} : ClaimsSame(x)
  BY <1>1, TakeOfTask
<1>3. ASSUME NEW x \in Tasks \ {t} PROVE Recorded(CaptureClaim(x))' = Recorded(CaptureClaim(x))
  <2>1. CaptureClaim(x) # c
    BY DEF HoldClaim, CaptureClaim, ReleaseClaim
  <2>2. QED BY <1>1, <2>1, ClaimNames, RecordedAfterTake
<1>4. ASSUME NEW x \in Requests PROVE Claimed(UsageClaim(x))' <=> Claimed(UsageClaim(x))
  <2>1. UsageClaim(x) # c
    BY DEF HoldClaim, CaptureClaim, ReleaseClaim, UsageClaim
  <2>2. QED BY <1>1, <2>1, ClaimNames, ClaimedAfterTake
<1>5. \A x \in Tasks \ {t} :
        /\ KeyCharge'[x] = KeyCharge[x]
        /\ (Captured(x) => ActualOf(x) \in Nat) => (Captured(x) => ActualOf(x) \in Nat)'
        /\ (row[x].allow => Held(x)) => (row[x].allow => Held(x))'
  BY <1>2, <1>3, TaskChargeSame
<1>6. \A x \in Requests : KeyCharge'[x] = KeyCharge[x]
  BY <1>4, RequestChargeSame
<1>7. CapturesRecordAmounts'
  BY <1>5 DEF UsageInv, CapturesRecordAmounts
<1>8. AllowanceIsHeld'
  BY <1>5 DEF UsageInv, AllowanceIsHeld
<1>9. QED BY <1>5, <1>6, <1>7, <1>8

\* A reservation charges the whole hold to the key.
LEMMA ReserveUsage ==
  ASSUME UsageInv, NEW t \in Tasks, Reserve(t)
  PROVE  CapturesRecordAmounts' /\ AllowanceIsHeld' /\ UsageCovers'
<1>1. TypeOK /\ FundsInv /\ row \in [Tasks -> FundsRows] /\ quotaUsed \in [Keys -> Nat]
  BY DEF UsageInv, FundsInv, TypeOK, TaskTypeOK, KeyTypeOK
<1>2. Fresh(HoldClaim(t)) /\ Take(HoldClaim(t), Plain)
  BY DEF Reserve
<1>3. row'[t].hold = Estimate[t] /\ \A x \in Tasks \ {t} : row'[x] = row[x]
  BY <1>1 DEF Reserve
<1>4. ~Claimed(HoldClaim(t)) /\ ~Claimed(CaptureClaim(t)) /\ ~Claimed(ReleaseClaim(t))
  BY <1>1, <1>2 DEF Reserve, Fresh, FundsInv, OwnerDiscipline, Claimed
<1>5. Claimed(HoldClaim(t))' /\ ~Claimed(CaptureClaim(t))' /\ ~Claimed(ReleaseClaim(t))'
  BY <1>1, <1>2, <1>4, TakeOfTask DEF HoldClaim, CaptureClaim, ReleaseClaim
<1>6. /\ \A x \in (Tasks \cup Requests) \ {t} : KeyCharge'[x] = KeyCharge[x]
      /\ CapturesRecordAmounts' /\ AllowanceIsHeld'
  <2>1. (Captured(t) => ActualOf(t) \in Nat)' /\ (row[t].allow => Held(t))'
    BY <1>5 DEF Captured, Held, Resolved
  <2>2. QED BY <1>2, <1>3, <2>1, TakeForKey
<1>7. KeyCharge[t] = 0 /\ KeyCharge'[t] = Estimate[t]
  <2>1. row'[t].allow
    BY <1>1 DEF Reserve
  <2>2. QED BY <1>3, <1>4, <1>5, <2>1 DEF KeyCharge, KeyShare, Captured, Held, Resolved
<1>8. quotaUsed' = [quotaUsed EXCEPT ![KeyOf[t]] = @ + Estimate[t]]
  BY DEF Reserve, ReserveKey
<1>9. KeyOf[t] \in Keys /\ Estimate[t] \in Nat
  BY Members
<1>10. UsageCovers'
  <2>1. /\ quotaUsed' \in [Keys -> Nat]
        /\ \A k \in Keys \ {KeyOf[t]} : quotaUsed'[k] >= quotaUsed[k]
        /\ quotaUsed'[KeyOf[t]] >= quotaUsed[KeyOf[t]] + Estimate[t] - KeyCharge[t]
    BY <1>1, <1>7, <1>8, <1>9
  <2>2. UNCHANGED forgiven
    BY NothingForgiven DEF Reserve
  <2>3. QED BY <1>6, <1>7, <1>9, <2>1, <2>2, UsageFollows
<1>11. QED BY <1>6, <1>10

\* A refund never lowers the usage by more than it gives back.
LEMMA RefundLowers ==
  ASSUME TypeOK, NEW k \in Keys, NEW n \in Nat, RefundKeyBestEffort(k, n)
  PROVE  /\ quotaUsed' \in [Keys -> Nat]
         /\ quotaUsed'[k] >= quotaUsed[k] - n
         /\ \A j \in Keys \ {k} : quotaUsed'[j] >= quotaUsed[j]
<1>1. quotaUsed \in [Keys -> Nat]
  BY DEF TypeOK, KeyTypeOK
<1>2. CASE RefundKey(k, n)
  BY <1>1, <1>2 DEF RefundKey, AtLeastZero
<1>3. CASE UNCHANGED keyVars
  BY <1>1, <1>3 DEF keyVars, keyConfig
<1>4. QED BY <1>2, <1>3 DEF RefundKeyBestEffort

\* A capture charges the actual amount: it gives back the rest of an open allowance
\* or charges a key that reserved none.
LEMMA CaptureUsage ==
  ASSUME UsageInv, NEW t \in Tasks, NEW a \in Actuals, Capture(t, a)
  PROVE  CapturesRecordAmounts' /\ AllowanceIsHeld' /\ UsageCovers'
<1>1. /\ TypeOK /\ FundsInv /\ row \in [Tasks -> FundsRows] /\ quotaUsed \in [Keys -> Nat]
      /\ row[t] \in FundsRows
  BY DEF UsageInv, FundsInv, TypeOK, TaskTypeOK, KeyTypeOK
<1>2. row[t].hold \in Nat /\ row[t].sub \in Nat /\ a \in Nat /\ KeyOf[t] \in Keys
  BY <1>1, Members DEF FundsRows
<1>3. Fresh(CaptureClaim(t)) /\ Take(CaptureClaim(t), a)
  BY DEF Capture
<1>4. row' = [row EXCEPT ![t].allow = FALSE]
  BY DEF Capture, CaptureFunds, CaptureAllowance
<1>5. ~row'[t].allow /\ \A x \in Tasks \ {t} : row'[x] = row[x]
  BY <1>1, <1>4 DEF FundsRows
<1>6. Claimed(HoldClaim(t)) /\ ~Claimed(CaptureClaim(t)) /\ ~Claimed(ReleaseClaim(t))
  BY <1>1, <1>3 DEF Capture, Fresh, FundsInv, OwnerDiscipline, Claimed
<1>7. Captured(t)' /\ ActualOf(t)' = a
  BY <1>1, <1>2, <1>3, ClaimNames, ClaimedAfterTake, RecordedAfterTake DEF Captured, ActualOf
<1>8. /\ \A x \in (Tasks \cup Requests) \ {t} : KeyCharge'[x] = KeyCharge[x]
      /\ CapturesRecordAmounts' /\ AllowanceIsHeld'
  BY <1>2, <1>3, <1>5, <1>7, TakeForKey
<1>9. /\ KeyCharge[t] = IF row[t].allow THEN row[t].hold ELSE 0
      /\ KeyCharge'[t] = a
  BY <1>6, <1>7 DEF KeyCharge, KeyShare, Captured, Held, Resolved
<1>10. a <= row[t].hold
  <2>1. WalletHold(row[t]) = row[t].hold - row[t].sub /\ row[t].sub <= row[t].hold
    BY <1>1, <1>6 DEF FundsInv, RowsRecordHolds
  <2>2. KeptBal(row[t], a) <= WalletHold(row[t])
    BY DEF Capture, CaptureFunds, CaptureBalance
  <2>3. QED BY <1>2, <2>1, <2>2 DEF KeptBal, KeptSub, Least
<1>11. CaptureAllowance(t, row[t], a)
  BY DEF Capture, CaptureFunds
<1>12. /\ quotaUsed' \in [Keys -> Nat]
       /\ quotaUsed'[KeyOf[t]] >= quotaUsed[KeyOf[t]] + a - KeyCharge[t]
       /\ \A k \in Keys \ {KeyOf[t]} : quotaUsed'[k] >= quotaUsed[k]
  <2>1. CASE row[t].allow /\ row[t].hold > a
    <3>1. row[t].hold - a \in Nat
      BY <1>2, <2>1
    <3>2. RefundKeyBestEffort(KeyOf[t], row[t].hold - a)
      BY <1>11, <2>1 DEF CaptureAllowance
    <3>3. /\ quotaUsed' \in [Keys -> Nat]
          /\ quotaUsed'[KeyOf[t]] >= quotaUsed[KeyOf[t]] - (row[t].hold - a)
          /\ \A j \in Keys \ {KeyOf[t]} : quotaUsed'[j] >= quotaUsed[j]
      BY <1>1, <1>2, <3>1, <3>2, RefundLowers
    <3>4. QED BY <1>1, <1>2, <1>9, <2>1, <3>3
  <2>2. CASE ~row[t].allow /\ a > 0
    <3>1. quotaUsed' = [quotaUsed EXCEPT ![KeyOf[t]] = @ + a]
      BY <1>11, <2>2 DEF CaptureAllowance, ChargeLegacyKey
    <3>2. QED BY <1>1, <1>2, <1>9, <2>2, <3>1
  <2>3. CASE ~(row[t].allow /\ row[t].hold > a) /\ ~(~row[t].allow /\ a > 0)
    <3>1. UNCHANGED quotaUsed
      BY <1>11, <2>3 DEF CaptureAllowance, keyVars, keyConfig
    <3>2. a <= KeyCharge[t]
      BY <1>2, <1>9, <1>10, <2>3
    <3>3. KeyCharge[t] \in Nat
      BY <1>2, <1>9
    <3>4. QED BY <1>1, <1>2, <3>1, <3>2, <3>3
  <2>4. QED BY <2>1, <2>2, <2>3
<1>13. UNCHANGED forgiven
  BY <1>11, NothingForgiven DEF CaptureAllowance
<1>14. UsageCovers'
  BY <1>2, <1>8, <1>9, <1>12, <1>13, UsageFollows
<1>15. QED BY <1>8, <1>14

\* A release gives an open allowance back.
LEMMA ReleaseUsage ==
  ASSUME UsageInv, NEW t \in Tasks, Release(t)
  PROVE  CapturesRecordAmounts' /\ AllowanceIsHeld' /\ UsageCovers'
<1>1. /\ TypeOK /\ FundsInv /\ row \in [Tasks -> FundsRows] /\ quotaUsed \in [Keys -> Nat]
      /\ row[t] \in FundsRows
  BY DEF UsageInv, FundsInv, TypeOK, TaskTypeOK, KeyTypeOK
<1>2. row[t].hold \in Nat /\ KeyOf[t] \in Keys /\ Plain \in Nat \cup {Plain}
  BY <1>1, Members DEF FundsRows
<1>3. Fresh(ReleaseClaim(t)) /\ Take(ReleaseClaim(t), Plain)
  BY DEF Release
<1>4. row' = [row EXCEPT ![t].allow = FALSE]
  BY DEF Release, ReleaseFunds
<1>5. ~row'[t].allow /\ \A x \in Tasks \ {t} : row'[x] = row[x]
  BY <1>1, <1>4 DEF FundsRows
<1>6. ~Claimed(CaptureClaim(t)) /\ ~Claimed(ReleaseClaim(t))
  BY <1>1, <1>3 DEF Release, Fresh, FundsInv, OwnerDiscipline, Claimed
<1>7. ~Captured(t)' /\ Resolved(t)'
  BY <1>1, <1>2, <1>3, <1>6, TakeOfTask DEF Captured, Resolved, CaptureClaim, ReleaseClaim
<1>8. /\ \A x \in (Tasks \cup Requests) \ {t} : KeyCharge'[x] = KeyCharge[x]
      /\ CapturesRecordAmounts' /\ AllowanceIsHeld'
  BY <1>2, <1>3, <1>5, <1>7, TakeForKey
<1>9. /\ KeyCharge[t] = IF row[t].allow THEN row[t].hold ELSE 0
      /\ KeyCharge'[t] = 0
  BY <1>6, <1>7 DEF KeyCharge, KeyShare, Captured, Held, Resolved, UsageInv, AllowanceIsHeld
<1>10. /\ quotaUsed' \in [Keys -> Nat]
       /\ quotaUsed'[KeyOf[t]] >= quotaUsed[KeyOf[t]] + 0 - KeyCharge[t]
       /\ \A k \in Keys \ {KeyOf[t]} : quotaUsed'[k] >= quotaUsed[k]
  <2>1. CASE row[t].allow
    <3>1. RefundKeyBestEffort(KeyOf[t], row[t].hold)
      BY <2>1 DEF Release, ReleaseFunds
    <3>2. /\ quotaUsed' \in [Keys -> Nat]
          /\ quotaUsed'[KeyOf[t]] >= quotaUsed[KeyOf[t]] - row[t].hold
          /\ \A j \in Keys \ {KeyOf[t]} : quotaUsed'[j] >= quotaUsed[j]
      BY <1>1, <1>2, <3>1, RefundLowers
    <3>3. QED BY <1>1, <1>2, <1>9, <2>1, <3>2
  <2>2. CASE ~row[t].allow
    <3>1. UNCHANGED quotaUsed
      BY <2>2 DEF Release, ReleaseFunds, keyVars, keyConfig
    <3>2. QED BY <1>1, <1>2, <1>9, <2>2, <3>1
  <2>3. QED BY <2>1, <2>2
<1>11. UsageCovers'
  <2>1. 0 \in Nat
    OBVIOUS
  <2>2. UNCHANGED forgiven
    BY NothingForgiven DEF Release, ReleaseFunds
  <2>3. QED BY <1>8, <1>9, <1>10, <2>1, <2>2, UsageFollows
<1>12. QED BY <1>8, <1>11

\* A request charges its cost to the key with its claim.
LEMMA ApplyUsage ==
  ASSUME UsageInv, NEW r \in Requests, Apply(r)
  PROVE  CapturesRecordAmounts' /\ AllowanceIsHeld' /\ UsageCovers'
<1>1. TypeOK /\ FundsInv /\ quotaUsed \in [Keys -> Nat]
  BY DEF UsageInv, FundsInv, TypeOK, KeyTypeOK
<1>2. Fresh(UsageClaim(r)) /\ Take(UsageClaim(r), Plain) /\ UNCHANGED row
  BY DEF Apply, taskVars
<1>3. \A d \in Claims : Claimed(d)' <=> d = UsageClaim(r) \/ Claimed(d)
  BY <1>1, <1>2, ClaimNames, ClaimedAfterTake
<1>4. \A d \in Claims \ {UsageClaim(r)} : Recorded(d)' = Recorded(d)
  BY <1>1, <1>2, ClaimNames, RecordedAfterTake
<1>5. \A x \in Tasks :
        /\ KeyCharge'[x] = KeyCharge[x]
        /\ (Captured(x) => ActualOf(x) \in Nat) => (Captured(x) => ActualOf(x) \in Nat)'
        /\ (row[x].allow => Held(x)) => (row[x].allow => Held(x))'
  <2>1. ASSUME NEW x \in Tasks
        PROVE  ClaimsSame(x) /\ Recorded(CaptureClaim(x))' = Recorded(CaptureClaim(x))
    BY <1>3, <1>4, ClaimNames, ClaimsApart DEF ClaimsSame
  <2>2. QED BY <1>2, <2>1, TaskChargeSame
<1>6. ASSUME NEW x \in Requests \ {r} PROVE KeyCharge'[x] = KeyCharge[x]
  <2>1. UsageClaim(x) # UsageClaim(r)
    BY DEF UsageClaim
  <2>2. QED BY <1>3, <2>1, ClaimNames, RequestChargeSame
<1>7. KeyCharge[r] = 0 /\ KeyCharge'[r] = Cost[r]
  <2>1. ~Claimed(UsageClaim(r)) /\ Claimed(UsageClaim(r))' /\ r \notin Tasks
    BY <1>2, <1>3, ClaimNames DEF Fresh, Claimed
  <2>2. QED BY <2>1 DEF KeyCharge
<1>8. quotaUsed' = [quotaUsed EXCEPT ![KeyOf[r]] = @ + Cost[r]]
  BY DEF Apply, ApplyEffects, ChargeKey
<1>9. KeyOf[r] \in Keys /\ Cost[r] \in Nat
  BY Members
<1>10. UsageCovers'
  <2>1. /\ quotaUsed' \in [Keys -> Nat]
        /\ \A k \in Keys \ {KeyOf[r]} : quotaUsed'[k] >= quotaUsed[k]
        /\ quotaUsed'[KeyOf[r]] >= quotaUsed[KeyOf[r]] + Cost[r] - KeyCharge[r]
    BY <1>1, <1>7, <1>8, <1>9
  <2>2. \A x \in (Tasks \cup Requests) \ {r} : KeyCharge'[x] = KeyCharge[x]
    BY <1>5, <1>6
  <2>3. UNCHANGED forgiven
    BY NothingForgiven DEF Apply, ApplyEffects
  <2>4. QED BY <1>7, <1>9, <2>1, <2>2, <2>3, UsageFollows
<1>11. CapturesRecordAmounts' /\ AllowanceIsHeld'
  BY <1>5 DEF UsageInv, CapturesRecordAmounts, AllowanceIsHeld
<1>12. QED BY <1>10, <1>11

\* Everything else leaves charges and usage alone.
LEMMA OtherUsage ==
  ASSUME UsageInv,
         \/ \E t \in Tasks : CreateTask(t)
         \/ \E t \in Tasks : \E p \in {"settling", "refunding"} : Decide(t, p)
         \/ KeyStep
         \/ \E C \in SUBSET {c \in Claims : live[c] # Absent} : Archive(C)
         \/ \E u \in Users : ResetWindow(u)
         \/ NextDay
         \/ UNCHANGED vars
  PROVE  CapturesRecordAmounts' /\ AllowanceIsHeld' /\ UsageCovers'
<1>1. /\ TypeOK /\ FundsInv /\ OneRecord /\ row \in [Tasks -> FundsRows]
      /\ quotaUsed \in [Keys -> Nat]
  BY DEF UsageInv, FundsInv, TypeOK, TaskTypeOK, KeyTypeOK
<1>2. KeyTypeOK' /\ \A k \in Keys : Spent'[k] >= Spent[k]
  <2>1. KeyTypeOK'
    BY <1>1, OtherStepsType DEF TypeOK
  <2>2. ASSUME UNCHANGED <<quotaUsed, forgiven>>, NEW k \in Keys PROVE Spent'[k] >= Spent[k]
    <3>1. Spent[k] \in Nat /\ Spent'[k] = Spent[k]
      BY <1>1, <2>2, SpentNat DEF TypeOK, Spent
    <3>2. QED BY <3>1
  <2>3. ASSUME NEW e \in Updates, NEW st \in {"keep", "active", "disabled"},
               NEW limit \in NewQuotas \cup {SameQuota}, NEW reset \in BOOLEAN,
               UpdateKey(e, st, limit, reset), NEW k \in Keys
        PROVE  Spent'[k] >= Spent[k]
    <3>1. CASE reset /\ k = KeyOfUpdate[e]
      <4>1. quotaUsed[k] \in Nat /\ forgiven[k] \in Nat
        BY <1>1 DEF TypeOK, KeyTypeOK
      <4>2. quotaUsed'[k] = 0 /\ forgiven'[k] = forgiven[k] + quotaUsed[k]
        BY <1>1, <2>3, <3>1 DEF UpdateKey, TypeOK, KeyTypeOK
      <4>3. QED BY <4>1, <4>2 DEF Spent
    <3>2. CASE ~(reset /\ k = KeyOfUpdate[e])
      <4>1. quotaUsed'[k] = quotaUsed[k] /\ forgiven'[k] = forgiven[k]
        BY <1>1, <2>3, <3>2 DEF UpdateKey, TypeOK, KeyTypeOK
      <4>2. Spent[k] \in Nat /\ Spent'[k] = Spent[k]
        BY <1>1, <4>1, SpentNat DEF TypeOK, Spent
      <4>3. QED BY <4>2
    <3>3. QED BY <3>1, <3>2
  <2>4. \/ UNCHANGED <<quotaUsed, forgiven>>
        \/ \E e \in Updates : \E st \in {"keep", "active", "disabled"},
             limit \in NewQuotas \cup {SameQuota}, reset \in BOOLEAN :
               UpdateKey(e, st, limit, reset)
    BY DEF CreateTask, Decide, KeyStep, DisableTeamKey, EnableTeamKey, ReadKey, Archive,
       ResetWindow, NextDay, vars, keyVars, keyConfig
  <2>5. QED BY <2>1, <2>2, <2>3, <2>4
<1>3. \A d \in Claims : Claimed(d)' <=> Claimed(d)
  <2>1. ASSUME NEW C \in SUBSET {c \in Claims : live[c] # Absent}, Archive(C)
        PROVE  \A d \in Claims : Claimed(d)' <=> Claimed(d)
    BY <1>1, <2>1, ClaimedAfterArchive
  <2>2. CASE UNCHANGED claimVars
    BY <2>2 DEF claimVars, Claimed
  <2>3. QED BY <2>1, <2>2 DEF CreateTask, Decide, KeyStep, DisableTeamKey, EnableTeamKey,
           ReadKey, UpdateKey, ResetWindow, NextDay, vars
<1>4. \A d \in Claims : Recorded(d)' = Recorded(d)
  <2>1. ASSUME NEW C \in SUBSET {c \in Claims : live[c] # Absent}, Archive(C)
        PROVE  \A d \in Claims : Recorded(d)' = Recorded(d)
    BY <1>1, <2>1, RecordedAfterArchive
  <2>2. CASE UNCHANGED claimVars
    BY <2>2 DEF claimVars, Recorded
  <2>3. QED BY <2>1, <2>2 DEF CreateTask, Decide, KeyStep, DisableTeamKey, EnableTeamKey,
           ReadKey, UpdateKey, ResetWindow, NextDay, vars
<1>5. ASSUME NEW x \in Tasks
      PROVE  /\ KeyCharge'[x] = KeyCharge[x]
             /\ (Captured(x) => ActualOf(x) \in Nat) => (Captured(x) => ActualOf(x) \in Nat)'
             /\ (row[x].allow => Held(x)) => (row[x].allow => Held(x))'
  <2>1. ClaimsSame(x) /\ Recorded(CaptureClaim(x))' = Recorded(CaptureClaim(x))
    BY <1>3, <1>4, ClaimNames DEF ClaimsSame
  <2>2. CASE row'[x] = row[x]
    BY <2>1, <2>2, TaskChargeSame
  <2>3. CASE CreateTask(x)
    <3>1. ~Claimed(HoldClaim(x)) /\ ~Claimed(CaptureClaim(x))
      BY <1>1, <2>3 DEF CreateTask, FundsInv, OwnerDiscipline
    <3>2. row'[x].allow = row[x].allow
      BY <1>1, <2>3 DEF CreateTask, FundsRows
    <3>3. QED BY <2>1, <3>1, <3>2
             DEF KeyCharge, KeyShare, Captured, ActualOf, Held, Resolved, ClaimsSame
  <2>4. CreateTask(x) \/ row'[x] = row[x]
    <3>1. ASSUME NEW t \in Tasks \ {x}, CreateTask(t) PROVE row'[x] = row[x]
      BY <1>1, <3>1 DEF CreateTask
    <3>2. CASE UNCHANGED row
      BY <3>2
    <3>3. QED BY <3>1, <3>2 DEF Decide, KeyStep, DisableTeamKey, EnableTeamKey,
             ReadKey, UpdateKey, Archive, ResetWindow, NextDay, vars, taskVars
  <2>5. QED BY <2>2, <2>3, <2>4
<1>6. \A x \in Requests : KeyCharge'[x] = KeyCharge[x]
  BY <1>3, ClaimNames, RequestChargeSame
<1>7. UsageCovers'
  BY <1>2, <1>5, <1>6, UsageStays
<1>8. CapturesRecordAmounts' /\ AllowanceIsHeld'
  BY <1>5 DEF UsageInv, CapturesRecordAmounts, AllowanceIsHeld
<1>9. QED BY <1>7, <1>8

LEMMA UsageInvStep == UsageInv /\ [Next]_vars => UsageInv'
<1> SUFFICES ASSUME UsageInv, [Next]_vars PROVE UsageInv'
  OBVIOUS
<1>1. FundsInv' /\ OneRecord'
  BY FundsInvStep, OneRecordStep DEF UsageInv
<1>2. CapturesRecordAmounts' /\ AllowanceIsHeld' /\ UsageCovers'
  BY ReserveUsage, CaptureUsage, ReleaseUsage, ApplyUsage, OtherUsage DEF Next, TaskStep
<1>3. QED BY <1>1, <1>2 DEF UsageInv

\* Nothing is charged at the start.
LEMMA InitUsage == Init => UsageInv
<1> SUFFICES ASSUME Init PROVE UsageInv
  OBVIOUS
<1>1. FundsInv /\ OneRecord
  BY InitFunds DEF Init, OneRecord
<1>2. \A t \in Tasks : ~Captured(t)
  BY InitClaims DEF Captured
<1>3. \A t \in Tasks : ~row[t].allow
  BY DEF Init, OldRow, NoFunds
<1>4. ASSUME NEW x \in Tasks \cup Requests PROVE KeyCharge[x] = 0
  <2>1. CASE x \in Tasks
    BY <1>2, <1>3, <2>1 DEF KeyCharge, KeyShare
  <2>2. CASE x \notin Tasks
    <3>1. UsageClaim(x) \notin {HoldClaim(t) : t \in Legacy} /\ UsageClaim(x) \in Claims
      BY <2>2, ClaimNames DEF UsageClaim, HoldClaim
    <3>2. ~Claimed(UsageClaim(x))
      BY <3>1 DEF Init, Claimed
    <3>3. QED BY <2>2, <3>2 DEF KeyCharge
  <2>3. QED BY <2>1, <2>2
<1>5. ASSUME NEW k \in Keys PROVE Spent[k] >= Total(KeyCharge, OnKey(k))
  <2>1. Total(KeyCharge, OnKey(k)) = 0
    BY <1>4, FiniteOnKey, TotalOfNone
  <2>2. QED BY <2>1 DEF Init, Spent
<1>6. QED BY <1>1, <1>2, <1>3, <1>5 DEF UsageInv, CapturesRecordAmounts, AllowanceIsHeld,
             UsageCovers

\* The recorded usage of a key covers its open allowances and all that was charged to
\* it, for any keys, tasks and requests (settlement.go: reserveTaskAPIKeyAllowance,
\* releaseTaskAPIKeyAllowance, chargeLegacyTaskAPIKey, incrementUsageBillingAPIKeyQuota).
THEOREM KeyUsageCorrect == Spec => []KeyUsageCoversCharges
<1>1. UsageInv => KeyUsageCoversCharges
  BY ChargesOnKey DEF UsageInv
<1>2. QED BY <1>1, InitUsage, UsageInvStep, PTL DEF Spec

-----------------------------------------------------------------------------
(* The subscription window                                                   *)

\* What the claims say a task or a request has of a window, whichever window that
\* is, and what a resolved task gave back of its own.
Kept(t) == IF Captured(t) THEN Least(row[t].sub, ActualOf(t)) ELSE 0
Part == [x \in Tasks \cup Requests |-> IF x \in Tasks
                                       THEN IF Held(x) THEN row[x].sub ELSE Kept(x)
                                       ELSE charged[x].sub]
Back == [t \in Tasks |-> IF Resolved(t) THEN row[t].sub - Kept(t) ELSE 0]

\* The part that counts for the payer's current window, and what came back to it of
\* an earlier one of the same day.
Current(x) == issueOf[x] = issue[PayerOf[x]]
WindowShare == [x \in Tasks \cup Requests |-> IF Current(x) THEN Part[x] ELSE 0]
LateReturn == [t \in Tasks |-> IF createdDay[t] = subStart[PayerOf[t]] /\ ~Current(t)
                               THEN Back[t] ELSE 0]
Payees(u) == {x \in Tasks \cup Requests : PayerOf[x] = u}
Covers(u) == subUsed[u] + Total(LateReturn, TasksOf(u)) >= Total(WindowShare, Payees(u))

\* Nobody has a share of a window that was not issued yet (UseWindow).
IssuesPast == \A x \in Tasks \cup Requests : issueOf[x] <= issue[PayerOf[x]]

\* The inductive invariant behind WindowCoversShares.
WindowInv == UsageInv /\ ChargedOnce /\ IssuesPast /\ \A u \in Users : Covers(u)

SharesAreNat ==
  /\ \A x \in Tasks \cup Requests : Part[x] \in Nat /\ WindowShare[x] \in Nat
  /\ \A t \in Tasks : Back[t] \in Nat /\ LateReturn[t] \in Nat

LEMMA SharesNat == UsageInv => SharesAreNat
<1> SUFFICES ASSUME UsageInv PROVE SharesAreNat
  OBVIOUS
<1>1. ASSUME NEW t \in Tasks
      PROVE  row[t].sub \in Nat /\ Kept(t) \in Nat /\ Kept(t) <= row[t].sub
  <2>1. row[t] \in FundsRows
    BY DEF UsageInv, FundsInv, TypeOK, TaskTypeOK
  <2>2. row[t].sub \in Nat
    BY <2>1 DEF FundsRows
  <2>3. Captured(t) => ActualOf(t) \in Nat
    BY DEF UsageInv, CapturesRecordAmounts
  <2>4. QED BY <2>2, <2>3 DEF Kept, Least
<1>2. ASSUME NEW r \in Requests PROVE charged[r].sub \in Nat
  <2>1. charged[r] \in ShareRecords
    BY DEF UsageInv, FundsInv, TypeOK
  <2>2. QED BY <2>1 DEF ShareRecords
<1>3. \A x \in Tasks \cup Requests : Part[x] \in Nat
  BY <1>1, <1>2 DEF Part
<1>4. \A t \in Tasks : Back[t] \in Nat
  BY <1>1 DEF Back
<1>5. QED BY <1>3, <1>4 DEF WindowShare, LateReturn, SharesAreNat

\* The same, after a step.
LEMMA SharesStayNat == UsageInv' => SharesAreNat'
BY SharesNat, PTL

LEMMA FinitePayees ==
  \A u \in Users : /\ IsFiniteSet(Payees(u)) /\ Payees(u) \subseteq Tasks \cup Requests
                   /\ IsFiniteSet(TasksOf(u)) /\ TasksOf(u) \subseteq Tasks
                   /\ TasksOf(u) \subseteq Payees(u)
<1>1. IsFiniteSet(Tasks \cup Requests)
  BY FS_Union
<1>2. QED BY <1>1, FS_Subset DEF Payees, TasksOf

\* The invariant is about the property: both count the same units.
LEMMA CoversIsProperty == WindowInv => WindowCoversShares
<1> SUFFICES ASSUME WindowInv, NEW u \in Users
             PROVE  subUsed[u] + Total(GivenBackAfterReset(u), TasksOf(u))
                      >= Total(SubShareOf(u), TasksOf(u)) + Total(SubCharged(u), RequestsOf(u))
  BY DEF WindowCoversShares
<1>1. /\ \A x \in Tasks \cup Requests : WindowShare[x] \in Nat
      /\ Covers(u)
  BY SharesNat DEF WindowInv, SharesAreNat
<1>2. Payees(u) = TasksOf(u) \cup RequestsOf(u) /\ TasksOf(u) \cap RequestsOf(u) = {}
  BY DEF Payees, TasksOf, RequestsOf
<1>3. IsFiniteSet(TasksOf(u)) /\ IsFiniteSet(RequestsOf(u))
  BY FS_Subset DEF TasksOf, RequestsOf
<1>4. Total(WindowShare, Payees(u))
      = Total(WindowShare, TasksOf(u)) + Total(WindowShare, RequestsOf(u))
  <2>1. \A x \in TasksOf(u) \cup RequestsOf(u) : WindowShare[x] \in Nat
    BY <1>1, <1>2 DEF Payees
  <2>2. QED BY ONLY <1>2, <1>3, <2>1, TotalOfBoth
<1>5. Total(WindowShare, TasksOf(u)) = Total(SubShareOf(u), TasksOf(u))
  <2>1. \A t \in TasksOf(u) : WindowShare[t] = SubShareOf(u)[t]
    BY DEF WindowShare, SubShareOf, Part, Kept, Current, TasksOf, Held, Resolved
  <2>2. QED BY <2>1, TotalSame
<1>6. Total(WindowShare, RequestsOf(u)) = Total(SubCharged(u), RequestsOf(u))
  <2>1. \A r \in RequestsOf(u) : WindowShare[r] = SubCharged(u)[r]
    BY DEF WindowShare, SubCharged, Part, Current, RequestsOf
  <2>2. QED BY <2>1, TotalSame
<1>7. Total(LateReturn, TasksOf(u)) = Total(GivenBackAfterReset(u), TasksOf(u))
  <2>1. \A t \in TasksOf(u) : LateReturn[t] = GivenBackAfterReset(u)[t]
    BY DEF LateReturn, GivenBackAfterReset, Back, Kept, Current, TasksOf
  <2>2. QED BY <2>1, TotalSame
<1>8. QED BY <1>1, <1>4, <1>5, <1>6, <1>7 DEF Covers

-----------------------------------------------------------------------------
(* How a payer's window stays covered                                        *)

\* Nothing of the payer's changes.
LEMMA CoversSame ==
  ASSUME WindowInv, NEW u \in Users, subUsed'[u] = subUsed[u],
         \A x \in Payees(u) : WindowShare'[x] = WindowShare[x],
         \A t \in TasksOf(u) : LateReturn'[t] = LateReturn[t]
  PROVE  Covers(u)'
<1> DEFINE g == WindowShare'
           h == LateReturn'
<1>1. SUFFICES subUsed'[u] + Total(h, TasksOf(u)) >= Total(g, Payees(u))
  BY DEF Covers, TasksOf, Payees
<1> HIDE DEF g, h
<1>2. Total(g, Payees(u)) = Total(WindowShare, Payees(u))
  BY TotalSame DEF g
<1>3. Total(h, TasksOf(u)) = Total(LateReturn, TasksOf(u))
  BY TotalSame DEF h
<1>4. QED BY <1>2, <1>3 DEF WindowInv, Covers

\* One share moves by d and one return by e, and the usage keeps up.
LEMMA CoversFollows ==
  ASSUME WindowInv, UsageInv', NEW a \in Tasks \cup Requests, NEW u \in Users,
         PayerOf[a] = u, NEW d \in Int, NEW e \in Int, a \in Tasks \/ e = 0,
         subUsed'[u] \in Nat, subUsed'[u] + e >= subUsed[u] + d,
         \A x \in Payees(u) : WindowShare'[x] = WindowShare[x] + (IF x = a THEN d ELSE 0),
         \A t \in TasksOf(u) : LateReturn'[t] = LateReturn[t] + (IF t = a THEN e ELSE 0)
  PROVE  Covers(u)'
<1> DEFINE g == WindowShare'
           h == LateReturn'
<1>1. SUFFICES subUsed'[u] + Total(h, TasksOf(u)) >= Total(g, Payees(u))
  BY DEF Covers, TasksOf, Payees
<1>2. /\ \A x \in Payees(u) : WindowShare[x] \in Nat /\ g[x] \in Nat
      /\ \A t \in TasksOf(u) : LateReturn[t] \in Nat /\ h[t] \in Nat
  BY SharesNat, SharesStayNat, FinitePayees DEF WindowInv, SharesAreNat
<1>3. /\ \A x \in Payees(u) : g[x] = WindowShare[x] + (IF x = a THEN d ELSE 0)
      /\ \A t \in TasksOf(u) : h[t] = LateReturn[t] + (IF t = a THEN e ELSE 0)
  OBVIOUS
<1> HIDE DEF g, h
<1>4. IsFiniteSet(Payees(u)) /\ IsFiniteSet(TasksOf(u))
  BY FinitePayees
<1>5. Total(g, Payees(u)) = Total(WindowShare, Payees(u)) + (IF a \in Payees(u) THEN d ELSE 0)
  BY ONLY d \in Int, <1>2, <1>3, <1>4, TotalMoves
<1>6. Total(h, TasksOf(u)) = Total(LateReturn, TasksOf(u))
                              + (IF a \in TasksOf(u) THEN e ELSE 0)
  BY ONLY e \in Int, <1>2, <1>3, <1>4, TotalMoves
<1>7. a \in Payees(u) /\ (a \in TasksOf(u) <=> a \in Tasks)
  BY DEF Payees, TasksOf
<1>8. /\ Total(WindowShare, Payees(u)) \in Nat /\ Total(LateReturn, TasksOf(u)) \in Nat
      /\ subUsed[u] \in Nat
  BY <1>2, <1>4, TotalNat DEF WindowInv, UsageInv, FundsInv, TypeOK, WindowTypeOK
<1>9. subUsed[u] + Total(LateReturn, TasksOf(u)) >= Total(WindowShare, Payees(u))
  BY DEF WindowInv, Covers
<1>10. QED BY <1>5, <1>6, <1>7, <1>8, <1>9

\* A new window: only a has a share of it.
LEMMA CoversRestart ==
  ASSUME UsageInv', NEW u \in Users, NEW a \in Payees(u), subUsed'[u] \in Nat,
         \A x \in Payees(u) \ {a} : WindowShare'[x] = 0,
         WindowShare'[a] <= subUsed'[u]
  PROVE  Covers(u)'
<1> DEFINE g == WindowShare'
           h == LateReturn'
<1>1. SUFFICES subUsed'[u] + Total(h, TasksOf(u)) >= Total(g, Payees(u))
  BY DEF Covers, TasksOf, Payees
<1>2. g[a] \in Nat /\ \A t \in TasksOf(u) : h[t] \in Nat
  BY SharesStayNat, FinitePayees DEF SharesAreNat
<1>3. (\A x \in Payees(u) \ {a} : g[x] = 0) /\ g[a] <= subUsed'[u]
  OBVIOUS
<1> HIDE DEF g, h
<1>4. Total(g, Payees(u)) = g[a]
  BY <1>2, <1>3, TotalOfOne
<1>5. Total(h, TasksOf(u)) \in Nat
  BY <1>2, FinitePayees, TotalNat
<1>6. QED BY <1>2, <1>3, <1>4, <1>5

\* ... or nobody has one.
LEMMA CoversEmpty ==
  ASSUME UsageInv', NEW u \in Users, subUsed'[u] \in Nat,
         \A x \in Payees(u) : WindowShare'[x] = 0
  PROVE  Covers(u)'
<1> DEFINE g == WindowShare'
           h == LateReturn'
<1>1. SUFFICES subUsed'[u] + Total(h, TasksOf(u)) >= Total(g, Payees(u))
  BY DEF Covers, TasksOf, Payees
<1>2. \A t \in TasksOf(u) : h[t] \in Nat
  BY SharesStayNat, FinitePayees DEF SharesAreNat
<1>3. \A x \in Payees(u) : g[x] = 0
  OBVIOUS
<1> HIDE DEF g, h
<1>4. Total(g, Payees(u)) = 0
  BY <1>3, TotalOfNone
<1>5. Total(h, TasksOf(u)) \in Nat
  BY <1>2, FinitePayees, TotalNat
<1>6. QED BY <1>4, <1>5

-----------------------------------------------------------------------------
(* What the operations do to windows                                         *)

\* A step that keeps a task's claims, their record and its row keeps its parts.
LEMMA TaskPartSame ==
  ASSUME NEW x \in Tasks, ClaimsSame(x), row'[x].sub = row[x].sub,
         Recorded(CaptureClaim(x))' = Recorded(CaptureClaim(x))
  PROVE  Part'[x] = Part[x] /\ Back'[x] = Back[x]
BY DEF Part, Back, Kept, Captured, ActualOf, Held, Resolved, ClaimsSame

\* Taking one of a task's claims changes only that task's parts.
LEMMA TakeForParts ==
  ASSUME FundsInv, NEW t \in Tasks, NEW fp \in Nat \cup {Plain},
         NEW c \in {HoldClaim(t), CaptureClaim(t), ReleaseClaim(t)}, Fresh(c), Take(c, fp),
         \A x \in Tasks \ {t} : row'[x] = row[x], UNCHANGED charged
  PROVE  /\ \A x \in (Tasks \cup Requests) \ {t} : Part'[x] = Part[x]
         /\ \A x \in Tasks \ {t} : Back'[x] = Back[x]
<1>1. c \in Claims /\ TypeOK
  BY ClaimNames DEF FundsInv
<1>2. \A x \in Tasks \ {t} : ClaimsSame(x)
  BY <1>1, TakeOfTask
<1>3. ASSUME NEW x \in Tasks \ {t}
      PROVE  Recorded(CaptureClaim(x))' = Recorded(CaptureClaim(x))
  <2>1. CaptureClaim(x) # c
    BY DEF HoldClaim, CaptureClaim, ReleaseClaim
  <2>2. QED BY <1>1, <2>1, ClaimNames, RecordedAfterTake
<1>4. \A x \in Tasks \ {t} : Part'[x] = Part[x] /\ Back'[x] = Back[x]
  BY <1>2, <1>3, TaskPartSame
<1>5. \A x \in Requests : Part'[x] = Part[x]
  BY DEF Part
<1>6. QED BY <1>4, <1>5

\* x takes n from its payer's window: a part of the one that runs, or the first of a
\* new one.
LEMMA UseCovers ==
  ASSUME WindowInv, UsageInv', NEW x \in Tasks \cup Requests, NEW n \in Nat,
         UseWindow(x, n), Part[x] = 0, Part'[x] = n,
         \A y \in (Tasks \cup Requests) \ {x} : Part'[y] = Part[y],
         \A t \in Tasks : Back'[t] = Back[t], x \in Tasks => Back[x] = 0,
         UNCHANGED createdDay
  PROVE  IssuesPast' /\ \A v \in Users : Covers(v)'
<1> DEFINE u == PayerOf[x]
<1>1. /\ u \in Users /\ subUsed \in [Users -> Nat] /\ subStart \in [Users -> Nat]
      /\ issue \in [Users -> Nat] /\ issueOf \in [Tasks \cup Requests -> Nat]
      /\ \A y \in Tasks \cup Requests : PayerOf[y] \in Users
  BY Members DEF WindowInv, UsageInv, FundsInv, TypeOK, WindowTypeOK
<1>2. \A y \in Tasks \cup Requests : issueOf[y] <= issue[PayerOf[y]]
  BY DEF WindowInv, IssuesPast
<1>3. /\ \A v \in Users \ {u} : UNCHANGED <<subUsed[v], subStart[v], issue[v]>>
      /\ \A y \in (Tasks \cup Requests) \ {x} : issueOf'[y] = issueOf[y]
  BY <1>1 DEF UseWindow, window
<1> HIDE DEF u
<1>4. ASSUME NEW v \in Users \ {u} PROVE Covers(v)'
  <2>1. \A y \in Payees(v) : y \in (Tasks \cup Requests) \ {x} /\ PayerOf[y] = v
    BY DEF Payees, u
  <2>2. \A y \in Payees(v) : WindowShare'[y] = WindowShare[y]
    BY <1>3, <2>1 DEF WindowShare, Current
  <2>3. \A t \in TasksOf(v) : LateReturn'[t] = LateReturn[t]
    BY <1>3, <2>1 DEF LateReturn, Current, Payees, TasksOf
  <2>4. QED BY <1>3, <2>2, <2>3, CoversSame
<1>5. CASE n = 0
  <2>1. UNCHANGED <<subUsed, subStart, issue, issueOf>>
    BY <1>5 DEF UseWindow, window
  <2>2. \A y \in Payees(u) : WindowShare'[y] = WindowShare[y]
    BY <1>5, <2>1 DEF WindowShare, Current, Payees
  <2>3. \A t \in TasksOf(u) : LateReturn'[t] = LateReturn[t]
    BY <2>1 DEF LateReturn, Current, TasksOf
  <2>4. Covers(u)'
    BY <1>1, <2>1, <2>2, <2>3, CoversSame
  <2>5. IssuesPast'
    BY <1>2, <2>1 DEF IssuesPast
  <2>6. QED BY <1>4, <2>4, <2>5
<1>6. CASE n > 0 /\ ~NewWindow(u)
  <2>1. /\ subUsed'[u] = subUsed[u] + n /\ UNCHANGED <<subStart, issue>>
        /\ issueOf'[x] = issue[u]
    <3>1. UsedNow(u) = subUsed[u] /\ IssueNow(u) = issue[u] /\ subStart[u] = day
      BY <1>6 DEF NewWindow, UsedNow, IssueNow
    <3>2. /\ subUsed' = [subUsed EXCEPT ![u] = UsedNow(u) + n]
          /\ subStart' = [subStart EXCEPT ![u] = day]
          /\ issue' = [issue EXCEPT ![u] = IssueNow(u)]
          /\ issueOf' = [issueOf EXCEPT ![x] = IssueNow(u)]
      BY <1>6 DEF UseWindow, u
    <3>3. QED BY <1>1, <3>1, <3>2
  <2>2. \A y \in Payees(u) : WindowShare'[y] = WindowShare[y] + (IF y = x THEN n ELSE 0)
    <3>1. ASSUME NEW y \in Payees(u), y # x
          PROVE  WindowShare'[y] = WindowShare[y] /\ WindowShare[y] \in Nat
      <4>1. WindowShare[y] \in Nat
        BY SharesNat DEF WindowInv, SharesAreNat, Payees
      <4>2. QED BY <1>3, <2>1, <3>1, <4>1 DEF WindowShare, Current, Payees
    <3>2. WindowShare'[x] = n /\ WindowShare[x] = 0
      BY <2>1 DEF WindowShare, Current, u
    <3>3. QED BY <3>1, <3>2
  <2>3. \A t \in TasksOf(u) : LateReturn'[t] = LateReturn[t] + (IF t = x THEN 0 ELSE 0)
    <3>1. \A t \in TasksOf(u) \ {x} : LateReturn'[t] = LateReturn[t]
      BY <1>3, <2>1 DEF LateReturn, Current, TasksOf
    <3>2. x \in Tasks => LateReturn'[x] = LateReturn[x]
      BY DEF LateReturn
    <3>3. \A t \in TasksOf(u) : LateReturn[t] \in Nat
      BY SharesNat DEF WindowInv, SharesAreNat, TasksOf
    <3>4. QED BY <3>1, <3>2, <3>3 DEF TasksOf
  <2>4. subUsed'[u] \in Nat /\ subUsed'[u] + 0 >= subUsed[u] + n /\ 0 \in Int /\ n \in Int
    BY <1>1, <2>1
  <2>5. Covers(u)'
    <3>1. PayerOf[x] = u /\ (x \in Tasks \/ 0 = 0)
      BY DEF u
    <3>2. QED BY ONLY WindowInv, UsageInv', x \in Tasks \cup Requests, <1>1, <2>2, <2>3, <2>4,
                 <3>1, CoversFollows
  <2>6. IssuesPast'
    <3>1. \A y \in (Tasks \cup Requests) \ {x} : issueOf'[y] <= issue'[PayerOf[y]]
      <4>1. \A v \in Users : issue'[v] \in Nat /\ issue'[v] >= issue[v]
        BY <1>1, <1>3, <2>1
      <4>2. QED BY <1>1, <1>2, <1>3, <4>1
    <3>2. issueOf'[x] <= issue'[PayerOf[x]]
      BY <1>1, <2>1 DEF u
    <3>3. QED BY <3>1, <3>2 DEF IssuesPast
  <2>7. QED BY <1>4, <2>5, <2>6
<1>7. CASE n > 0 /\ NewWindow(u)
  <2>1. subUsed'[u] = n /\ issue'[u] = issue[u] + 1 /\ issueOf'[x] = issue'[u]
    BY <1>1, <1>7 DEF UseWindow, UsedNow, IssueNow, u
  <2>2. x \in Payees(u)
    BY DEF Payees, u
  <2>3. ASSUME NEW y \in Payees(u) \ {x} PROVE WindowShare'[y] = 0
    <3>1. y \in Tasks \cup Requests /\ PayerOf[y] = u
      BY DEF Payees
    <3>2. issueOf'[y] # issue'[PayerOf[y]]
      BY <1>1, <1>2, <1>3, <2>1, <3>1
    <3>3. QED BY <3>1, <3>2 DEF WindowShare, Current
  <2>4. WindowShare'[x] <= subUsed'[u] /\ subUsed'[u] \in Nat
    BY <2>1 DEF WindowShare, Current, u
  <2>5. Covers(u)'
    BY <1>1, <2>2, <2>3, <2>4, CoversRestart
  <2>6. IssuesPast'
    <3>1. \A y \in (Tasks \cup Requests) \ {x} : issueOf'[y] <= issue'[PayerOf[y]]
      <4>1. \A v \in Users : issue'[v] \in Nat /\ issue'[v] >= issue[v]
        BY <1>1, <1>3, <2>1
      <4>2. QED BY <1>1, <1>2, <1>3, <4>1
    <3>2. issueOf'[x] <= issue'[PayerOf[x]]
      BY <1>1, <2>1 DEF u
    <3>3. QED BY <3>1, <3>2 DEF IssuesPast
  <2>7. QED BY <1>4, <2>5, <2>6
<1>8. QED BY <1>5, <1>6, <1>7

\* t gives n of its part back, to the window if that still holds the day of t's row.
LEMMA RefundCovers ==
  ASSUME WindowInv, UsageInv', NEW t \in Tasks, NEW n \in Nat, RefundWindow(t, n),
         NEW p \in Nat, Part[t] = p + n, Part'[t] = p, Back[t] = 0, Back'[t] = n,
         \A y \in (Tasks \cup Requests) \ {t} : Part'[y] = Part[y],
         \A y \in Tasks \ {t} : Back'[y] = Back[y],
         UNCHANGED createdDay
  PROVE  IssuesPast' /\ \A v \in Users : Covers(v)'
<1> DEFINE u == PayerOf[t]
           d == IF Current(t) THEN 0 - n ELSE 0
           e == IF createdDay[t] = subStart[u] /\ ~Current(t) THEN n ELSE 0
<1>1. u \in Users /\ subUsed \in [Users -> Nat]
  BY Members DEF WindowInv, UsageInv, FundsInv, TypeOK, WindowTypeOK
<1>2. UNCHANGED <<subStart, issue, issueOf>>
  BY DEF RefundWindow
<1>3. \A y \in Tasks \cup Requests : Current(y)' <=> Current(y)
  BY <1>2 DEF Current
<1>4. subUsed' \in [Users -> Nat] /\ \A v \in Users \ {u} : subUsed'[v] = subUsed[v]
  BY <1>1 DEF RefundWindow, AtLeastZero
<1>5. /\ subUsed'[u] >= subUsed[u] - n
      /\ createdDay[t] # subStart[u] => subUsed'[u] = subUsed[u]
  BY <1>1 DEF RefundWindow, AtLeastZero
<1>6. d \in Int /\ e \in Int /\ subUsed'[u] + e >= subUsed[u] + d
  BY <1>1, <1>4, <1>5
<1>7. SharesAreNat
  BY SharesNat DEF WindowInv
<1>8. /\ WindowShare'[t] = WindowShare[t] + d
      /\ LateReturn'[t] = LateReturn[t] + e
  BY <1>2, <1>3 DEF WindowShare, LateReturn
<1>9. /\ \A y \in (Tasks \cup Requests) \ {t} : WindowShare'[y] = WindowShare[y]
      /\ \A y \in Tasks \ {t} : LateReturn'[y] = LateReturn[y]
  BY <1>2, <1>3 DEF WindowShare, LateReturn
<1> HIDE DEF u, d, e
<1>10. ASSUME NEW v \in Users \ {u} PROVE Covers(v)'
  <2>1. /\ \A y \in Payees(v) : y \in (Tasks \cup Requests) \ {t}
        /\ \A y \in TasksOf(v) : y \in Tasks \ {t}
    BY DEF Payees, TasksOf, u
  <2>2. QED BY <1>4, <1>9, <2>1, CoversSame
<1>11. Covers(u)'
  <2>1. \A y \in Payees(u) : WindowShare'[y] = WindowShare[y] + (IF y = t THEN d ELSE 0)
    BY <1>7, <1>8, <1>9 DEF SharesAreNat, Payees
  <2>2. \A y \in TasksOf(u) : LateReturn'[y] = LateReturn[y] + (IF y = t THEN e ELSE 0)
    BY <1>7, <1>8, <1>9 DEF SharesAreNat, TasksOf
  <2>3. /\ PayerOf[t] = u /\ u \in Users /\ subUsed'[u] \in Nat
        /\ t \in Tasks \cup Requests /\ (t \in Tasks \/ e = 0)
    BY <1>1, <1>4 DEF u
  <2>4. QED BY ONLY WindowInv, UsageInv', <1>6, <2>1, <2>2, <2>3, CoversFollows
<1>12. IssuesPast'
  BY <1>2 DEF WindowInv, IssuesPast
<1>13. QED BY <1>10, <1>11, <1>12

\* t resolves without a hold: nothing moves, and what its row says counts as returned.
LEMMA ReturnCovers ==
  ASSUME WindowInv, UsageInv', NEW t \in Tasks, NEW n \in Nat,
         UNCHANGED <<window, issueOf, createdDay>>,
         Part'[t] = Part[t], Back[t] = 0, Back'[t] = n,
         \A y \in (Tasks \cup Requests) \ {t} : Part'[y] = Part[y],
         \A y \in Tasks \ {t} : Back'[y] = Back[y]
  PROVE  IssuesPast' /\ \A v \in Users : Covers(v)'
<1> DEFINE e == IF createdDay[t] = subStart[PayerOf[t]] /\ ~Current(t) THEN n ELSE 0
<1>1. UNCHANGED <<subUsed, subStart, issue, issueOf>>
  BY DEF window
<1>2. \A y \in Tasks \cup Requests : Current(y)' <=> Current(y)
  BY <1>1 DEF Current
<1>3. \A y \in Tasks \cup Requests : WindowShare'[y] = WindowShare[y]
  BY <1>2 DEF WindowShare
<1>4. /\ LateReturn'[t] = LateReturn[t] + e
      /\ \A y \in Tasks \ {t} : LateReturn'[y] = LateReturn[y]
  BY <1>1, <1>2 DEF LateReturn
<1>5. SharesAreNat /\ subUsed \in [Users -> Nat] /\ e \in Int /\ e >= 0
  BY SharesNat DEF WindowInv, UsageInv, FundsInv, TypeOK, WindowTypeOK
<1> HIDE DEF e
<1>6. ASSUME NEW v \in Users PROVE Covers(v)'
  <2>1. CASE v = PayerOf[t]
    <3>1. \A y \in Payees(v) : WindowShare'[y] = WindowShare[y] + (IF y = t THEN 0 ELSE 0)
      BY <1>3, <1>5 DEF SharesAreNat, Payees
    <3>2. \A y \in TasksOf(v) : LateReturn'[y] = LateReturn[y] + (IF y = t THEN e ELSE 0)
      BY <1>4, <1>5 DEF SharesAreNat, TasksOf
    <3>3. /\ PayerOf[t] = v /\ 0 \in Int /\ t \in Tasks \cup Requests
          /\ (t \in Tasks \/ e = 0)
          /\ subUsed'[v] \in Nat /\ subUsed'[v] + e >= subUsed[v] + 0
      BY <1>1, <1>5, <2>1
    <3>4. QED BY ONLY WindowInv, UsageInv', <1>5, <1>6, <3>1, <3>2, <3>3, CoversFollows
  <2>2. CASE v # PayerOf[t]
    BY <1>1, <1>3, <1>4, <2>2, CoversSame DEF Payees, TasksOf
  <2>3. QED BY <2>1, <2>2
<1>7. IssuesPast'
  BY <1>1 DEF WindowInv, IssuesPast
<1>8. QED BY <1>6, <1>7

\* Windows and parts stay, or what changed was nothing's.
LEMMA QuietCovers ==
  ASSUME WindowInv, UNCHANGED <<window, issueOf>>,
         \A y \in Tasks \cup Requests : Part'[y] = Part[y],
         \A t \in Tasks : Back'[t] = Back[t] /\ (createdDay'[t] = createdDay[t] \/ Back[t] = 0)
  PROVE  IssuesPast' /\ \A v \in Users : Covers(v)'
<1>1. UNCHANGED <<subUsed, subStart, issue, issueOf>>
  BY DEF window
<1>2. \A y \in Tasks \cup Requests : WindowShare'[y] = WindowShare[y]
  BY <1>1 DEF WindowShare, Current
<1>3. \A t \in Tasks : LateReturn'[t] = LateReturn[t]
  BY <1>1 DEF LateReturn, Current
<1>4. ASSUME NEW v \in Users PROVE Covers(v)'
  BY <1>1, <1>2, <1>3, CoversSame DEF Payees, TasksOf
<1>5. IssuesPast'
  BY <1>1 DEF WindowInv, IssuesPast
<1>6. QED BY <1>4, <1>5

-----------------------------------------------------------------------------
(* Each operation                                                            *)

LEMMA ReserveWindow ==
  ASSUME WindowInv, UsageInv', NEW t \in Tasks, Reserve(t)
  PROVE  IssuesPast' /\ \A v \in Users : Covers(v)'
<1> DEFINE sub == SubShare(t, Estimate[t])
<1>1. TypeOK /\ FundsInv /\ row \in [Tasks -> FundsRows] /\ Estimate[t] \in Nat
  BY Members DEF WindowInv, UsageInv, FundsInv, TypeOK, TaskTypeOK
<1>2. sub \in Nat
  BY <1>1, SubShareType
<1>3. UseWindow(t, sub)
  BY DEF Reserve
<1>4. row'[t].sub = sub /\ \A x \in Tasks \ {t} : row'[x] = row[x]
  BY <1>1 DEF Reserve
<1> HIDE DEF sub
<1>5. Fresh(HoldClaim(t)) /\ Take(HoldClaim(t), Plain) /\ UNCHANGED <<createdDay, charged>>
  BY DEF Reserve
<1>6. ~Claimed(HoldClaim(t)) /\ ~Claimed(CaptureClaim(t)) /\ ~Claimed(ReleaseClaim(t))
  BY <1>1, <1>5 DEF Reserve, Fresh, FundsInv, OwnerDiscipline, Claimed
<1>7. Claimed(HoldClaim(t))' /\ ~Claimed(CaptureClaim(t))' /\ ~Claimed(ReleaseClaim(t))'
  BY <1>1, <1>5, <1>6, TakeOfTask DEF HoldClaim, CaptureClaim, ReleaseClaim
<1>8. Part[t] = 0 /\ Part'[t] = sub /\ Back[t] = 0 /\ Back'[t] = 0
  BY <1>4, <1>6, <1>7 DEF Part, Back, Kept, Held, Resolved, Captured
<1>9. /\ \A x \in (Tasks \cup Requests) \ {t} : Part'[x] = Part[x]
      /\ \A x \in Tasks \ {t} : Back'[x] = Back[x]
  BY <1>1, <1>4, <1>5, TakeForParts
<1>10. \A x \in Tasks : Back'[x] = Back[x]
  BY <1>8, <1>9
<1>11. QED BY <1>2, <1>3, <1>5, <1>8, <1>9, <1>10, UseCovers

LEMMA CaptureWindow ==
  ASSUME WindowInv, UsageInv', NEW t \in Tasks, NEW a \in Actuals, Capture(t, a)
  PROVE  IssuesPast' /\ \A v \in Users : Covers(v)'
<1> DEFINE p == KeptSub(row[t], a)
           n == row[t].sub - p
<1>1. /\ TypeOK /\ FundsInv /\ row \in [Tasks -> FundsRows] /\ row[t] \in FundsRows
      /\ a \in Nat
  BY DEF WindowInv, UsageInv, FundsInv, TypeOK, TaskTypeOK
<1>2. p \in Nat /\ n \in Nat /\ row[t].sub = p + n
  BY <1>1, KeptType DEF FundsRows
<1>3. RefundWindow(t, n) /\ row' = [row EXCEPT ![t].allow = FALSE]
  BY DEF Capture, CaptureFunds, CaptureAllowance
<1>4. row'[t].sub = row[t].sub /\ \A x \in Tasks \ {t} : row'[x] = row[x]
  BY <1>1, <1>3 DEF FundsRows
<1>5. Fresh(CaptureClaim(t)) /\ Take(CaptureClaim(t), a) /\ UNCHANGED <<createdDay, charged>>
  BY DEF Capture
<1>6. Claimed(HoldClaim(t)) /\ ~Claimed(CaptureClaim(t)) /\ ~Claimed(ReleaseClaim(t))
  BY <1>1, <1>5 DEF Capture, Fresh, FundsInv, OwnerDiscipline, Claimed
<1>7. Captured(t)' /\ ActualOf(t)' = a
  BY <1>1, <1>5, ClaimNames, ClaimedAfterTake, RecordedAfterTake DEF Captured, ActualOf
<1>8. Part[t] = p + n /\ Back[t] = 0
  BY <1>2, <1>6 DEF Part, Back, Held, Resolved, Captured
<1>9. Part'[t] = p /\ Back'[t] = n
  <2>1. Kept(t)' = p
    BY <1>4, <1>7 DEF Kept, KeptSub
  <2>2. Resolved(t)' /\ ~Held(t)'
    BY <1>7 DEF Resolved, Held
  <2> HIDE DEF p
  <2>3. QED BY <1>4, <2>1, <2>2 DEF Part, Back
<1>10. /\ \A x \in (Tasks \cup Requests) \ {t} : Part'[x] = Part[x]
       /\ \A x \in Tasks \ {t} : Back'[x] = Back[x]
  BY <1>1, <1>4, <1>5, TakeForParts
<1> HIDE DEF p, n
<1>11. QED BY <1>2, <1>3, <1>5, <1>8, <1>9, <1>10, RefundCovers

LEMMA ReleaseWindow ==
  ASSUME WindowInv, UsageInv', NEW t \in Tasks, Release(t)
  PROVE  IssuesPast' /\ \A v \in Users : Covers(v)'
<1> DEFINE n == row[t].sub
<1>1. TypeOK /\ FundsInv /\ row \in [Tasks -> FundsRows] /\ row[t] \in FundsRows
  BY DEF WindowInv, UsageInv, FundsInv, TypeOK, TaskTypeOK
<1>2. n \in Nat /\ n = 0 + n /\ 0 \in Nat /\ Plain \in Nat \cup {Plain}
  BY <1>1 DEF FundsRows
<1>3. row' = [row EXCEPT ![t].allow = FALSE]
  BY DEF Release, ReleaseFunds
<1>4. row'[t].sub = row[t].sub /\ \A x \in Tasks \ {t} : row'[x] = row[x]
  BY <1>1, <1>3 DEF FundsRows
<1>5. Fresh(ReleaseClaim(t)) /\ Take(ReleaseClaim(t), Plain) /\ UNCHANGED <<createdDay, charged>>
  BY DEF Release
<1>6. ~Claimed(CaptureClaim(t)) /\ ~Claimed(ReleaseClaim(t))
  BY <1>1, <1>5 DEF Release, Fresh, FundsInv, OwnerDiscipline, Claimed
<1>7. Claimed(ReleaseClaim(t))' /\ ~Captured(t)'
  BY <1>1, <1>2, <1>5, <1>6, TakeOfTask DEF Captured, CaptureClaim, ReleaseClaim
<1>8. /\ Back[t] = 0 /\ Back'[t] = n - 0 /\ Part'[t] = 0
      /\ Part[t] = IF Claimed(HoldClaim(t)) THEN n ELSE 0
  BY <1>4, <1>6, <1>7 DEF Part, Back, Kept, Held, Resolved, Captured
<1>9. Back'[t] = n
  BY <1>2, <1>8
<1>10. /\ \A x \in (Tasks \cup Requests) \ {t} : Part'[x] = Part[x]
       /\ \A x \in Tasks \ {t} : Back'[x] = Back[x]
  BY <1>1, <1>2, <1>4, <1>5, TakeForParts
<1> HIDE DEF n
<1>11. CASE Claimed(HoldClaim(t))
  <2>1. RefundWindow(t, n)
    BY <1>11 DEF Release, ReleaseFunds, n
  <2>2. Part[t] = 0 + n
    BY <1>2, <1>8, <1>11
  <2>3. QED BY <1>2, <1>5, <1>8, <1>9, <1>10, <2>1, <2>2, RefundCovers
<1>12. CASE ~Claimed(HoldClaim(t))
  <2>1. UNCHANGED <<window, issueOf>>
    BY <1>12 DEF Release, ReleaseFunds
  <2>2. QED BY <1>2, <1>5, <1>8, <1>9, <1>10, <1>12, <2>1, ReturnCovers
<1>13. QED BY <1>11, <1>12

LEMMA ApplyWindow ==
  ASSUME WindowInv, UsageInv', NEW r \in Requests, Apply(r)
  PROVE  IssuesPast' /\ \A v \in Users : Covers(v)'
<1> DEFINE sub == SubShare(r, Cost[r])
<1>1. /\ TypeOK /\ FundsInv /\ charged \in [Requests -> ShareRecords]
      /\ Cost[r] \in Nat /\ r \in Tasks \cup Requests /\ r \notin Tasks
  BY Members DEF WindowInv, UsageInv, FundsInv, TypeOK
<1>2. sub \in Nat
  BY <1>1, SubShareType
<1>3. UseWindow(r, sub) /\ UNCHANGED <<row, createdDay>>
  BY DEF Apply, ApplyEffects, taskVars
<1>4. charged'[r].sub = sub /\ \A q \in Requests \ {r} : charged'[q] = charged[q]
  BY <1>1 DEF Apply, ApplyEffects
<1> HIDE DEF sub
<1>5. Fresh(UsageClaim(r)) /\ Take(UsageClaim(r), Plain)
  BY DEF Apply
<1>6. \A d \in Claims : Claimed(d)' <=> d = UsageClaim(r) \/ Claimed(d)
  BY <1>1, <1>5, ClaimNames, ClaimedAfterTake
<1>7. \A d \in Claims \ {UsageClaim(r)} : Recorded(d)' = Recorded(d)
  BY <1>1, <1>5, ClaimNames, RecordedAfterTake
<1>8. \A x \in Tasks : Part'[x] = Part[x] /\ Back'[x] = Back[x]
  <2>1. ASSUME NEW x \in Tasks
        PROVE  ClaimsSame(x) /\ Recorded(CaptureClaim(x))' = Recorded(CaptureClaim(x))
    BY <1>6, <1>7, ClaimNames, ClaimsApart DEF ClaimsSame
  <2>2. QED BY <1>3, <2>1, TaskPartSame
<1>9. Part[r] = 0 /\ Part'[r] = sub
  <2>1. charged[r] = NoShares
    BY <1>5 DEF Fresh, Claimed, WindowInv, ChargedOnce
  <2>2. QED BY <1>1, <1>4, <2>1 DEF Part, NoShares
<1>10. \A y \in (Tasks \cup Requests) \ {r} : Part'[y] = Part[y]
  BY <1>4, <1>8 DEF Part
<1>11. QED BY <1>1, <1>2, <1>3, <1>8, <1>9, <1>10, UseCovers

\* An administrator's reset starts a window nobody has a share of.
LEMMA ResetCovers ==
  ASSUME WindowInv, UsageInv', NEW u \in Users, ResetWindow(u)
  PROVE  IssuesPast' /\ \A v \in Users : Covers(v)'
<1>1. /\ subUsed \in [Users -> Nat] /\ subStart \in [Users -> Nat]
      /\ issue \in [Users -> Nat] /\ issueOf \in [Tasks \cup Requests -> Nat]
      /\ \A y \in Tasks \cup Requests : PayerOf[y] \in Users
  BY Members DEF WindowInv, UsageInv, FundsInv, TypeOK, WindowTypeOK
<1>2. \A y \in Tasks \cup Requests : issueOf[y] <= issue[PayerOf[y]]
  BY DEF WindowInv, IssuesPast
<1>3. /\ subUsed'[u] = 0 /\ issue'[u] = issue[u] + 1
      /\ \A v \in Users \ {u} : UNCHANGED <<subUsed[v], subStart[v], issue[v]>>
      /\ UNCHANGED <<live, archive, row, createdDay, charged, issueOf>>
  BY <1>1 DEF ResetWindow, claimVars, taskVars
<1>4. /\ \A y \in Tasks \cup Requests : Part'[y] = Part[y]
      /\ \A t \in Tasks : Back'[t] = Back[t]
  BY <1>3 DEF Part, Back, Kept, Captured, ActualOf, Held, Resolved, Claimed, Recorded
<1>5. ASSUME NEW v \in Users \ {u} PROVE Covers(v)'
  <2>1. \A y \in Payees(v) : WindowShare'[y] = WindowShare[y]
    BY <1>3, <1>4 DEF WindowShare, Current, Payees
  <2>2. \A t \in TasksOf(v) : LateReturn'[t] = LateReturn[t]
    BY <1>3, <1>4 DEF LateReturn, Current, TasksOf
  <2>3. QED BY <1>3, <2>1, <2>2, CoversSame
<1>6. Covers(u)'
  <2>1. ASSUME NEW y \in Payees(u) PROVE WindowShare'[y] = 0
    <3>1. y \in Tasks \cup Requests /\ PayerOf[y] = u
      BY DEF Payees
    <3>2. issueOf'[y] # issue'[PayerOf[y]]
      BY <1>1, <1>2, <1>3, <3>1
    <3>3. QED BY <3>1, <3>2 DEF WindowShare, Current
  <2>2. subUsed'[u] \in Nat
    BY <1>3
  <2>3. QED BY <2>1, <2>2, CoversEmpty
<1>7. IssuesPast'
  <2>1. \A v \in Users : issue'[v] \in Nat /\ issue'[v] >= issue[v]
    BY <1>1, <1>3
  <2>2. QED BY <1>1, <1>2, <1>3, <2>1 DEF IssuesPast
<1>8. QED BY <1>5, <1>6, <1>7

\* Everything else leaves windows, shares and returns alone.
LEMMA OtherWindow ==
  ASSUME WindowInv,
         \/ \E t \in Tasks : CreateTask(t)
         \/ \E t \in Tasks : \E p \in {"settling", "refunding"} : Decide(t, p)
         \/ KeyStep
         \/ \E C \in SUBSET {c \in Claims : live[c] # Absent} : Archive(C)
         \/ NextDay
         \/ UNCHANGED vars
  PROVE  IssuesPast' /\ \A v \in Users : Covers(v)'
<1>1. /\ TypeOK /\ FundsInv /\ OneRecord /\ row \in [Tasks -> FundsRows]
      /\ createdDay \in [Tasks -> Nat]
  BY DEF WindowInv, UsageInv, FundsInv, TypeOK, TaskTypeOK
<1>2. UNCHANGED <<window, issueOf, charged>>
  BY DEF CreateTask, Decide, KeyStep, DisableTeamKey, EnableTeamKey, ReadKey, UpdateKey,
     Archive, NextDay, vars, window
<1>3. ASSUME UNCHANGED <<claimVars, row, createdDay>>
      PROVE  IssuesPast' /\ \A v \in Users : Covers(v)'
  <2>1. UNCHANGED <<live, archive, row, createdDay, charged>>
    BY <1>2, <1>3 DEF claimVars
  <2>2. /\ \A y \in Tasks \cup Requests : Part'[y] = Part[y]
        /\ \A t \in Tasks : Back'[t] = Back[t]
    BY <2>1 DEF Part, Back, Kept, Captured, ActualOf, Held, Resolved, Claimed, Recorded
  <2>3. QED BY <1>2, <2>1, <2>2, QuietCovers
<1>4. ASSUME NEW t \in Tasks, CreateTask(t)
      PROVE  IssuesPast' /\ \A v \in Users : Covers(v)'
  <2>1. /\ \A x \in Tasks : row'[x].sub = row[x].sub
        /\ \A x \in Tasks \ {t} : createdDay'[x] = createdDay[x]
    BY <1>1, <1>4 DEF CreateTask, FundsRows
  <2>2. \A x \in Tasks : /\ ClaimsSame(x)
                         /\ Recorded(CaptureClaim(x))' = Recorded(CaptureClaim(x))
    BY <1>4 DEF CreateTask, claimVars, ClaimsSame, Claimed, Recorded
  <2>3. \A x \in Tasks : Part'[x] = Part[x] /\ Back'[x] = Back[x]
    BY <2>1, <2>2, TaskPartSame
  <2>4. \A x \in Requests : Part'[x] = Part[x]
    BY <1>2 DEF Part
  <2>5. Back[t] = 0
    BY <1>1, <1>4 DEF CreateTask, FundsInv, OwnerDiscipline, Back, Resolved, Captured
  <2>6. QED BY <1>2, <2>1, <2>3, <2>4, <2>5, QuietCovers
<1>5. ASSUME NEW C \in SUBSET {c \in Claims : live[c] # Absent}, Archive(C)
      PROVE  IssuesPast' /\ \A v \in Users : Covers(v)'
  <2>1. \A d \in Claims : (Claimed(d)' <=> Claimed(d)) /\ Recorded(d)' = Recorded(d)
    BY <1>1, <1>5, ClaimedAfterArchive, RecordedAfterArchive
  <2>2. UNCHANGED <<row, createdDay>>
    BY <1>5 DEF Archive, taskVars
  <2>3. \A x \in Tasks : Part'[x] = Part[x] /\ Back'[x] = Back[x]
    BY <2>1, <2>2, ClaimNames, TaskPartSame DEF ClaimsSame
  <2>4. \A x \in Requests : Part'[x] = Part[x]
    BY <1>2 DEF Part
  <2>5. QED BY <1>2, <2>2, <2>3, <2>4, QuietCovers
<1>6. CASE \/ \E t \in Tasks : \E p \in {"settling", "refunding"} : Decide(t, p)
           \/ KeyStep \/ NextDay \/ UNCHANGED vars
  <2>1. UNCHANGED <<claimVars, row, createdDay>>
    BY <1>6 DEF Decide, KeyStep, DisableTeamKey, EnableTeamKey, ReadKey, UpdateKey,
       NextDay, vars, claimVars, taskVars
  <2>2. QED BY <1>3, <2>1
<1>7. QED BY <1>4, <1>5, <1>6

LEMMA WindowInvStep == WindowInv /\ [Next]_vars => WindowInv'
<1> SUFFICES ASSUME WindowInv, [Next]_vars PROVE WindowInv'
  OBVIOUS
<1>1. UsageInv' /\ ChargedOnce'
  BY UsageInvStep, ChargedOnceStep DEF WindowInv, UsageInv
<1>2. IssuesPast' /\ \A v \in Users : Covers(v)'
  BY <1>1, ReserveWindow, CaptureWindow, ReleaseWindow, ApplyWindow, ResetCovers, OtherWindow
     DEF Next, TaskStep
<1>3. QED BY <1>1, <1>2 DEF WindowInv

LEMMA InitWindow == Init => WindowInv
<1> SUFFICES ASSUME Init PROVE WindowInv
  OBVIOUS
<1>1. UsageInv /\ ChargedOnce
  BY InitUsage DEF Init, ChargedOnce
<1>2. IssuesPast
  BY Members DEF Init, IssuesPast
<1>3. ASSUME NEW u \in Users PROVE Covers(u)
  <2>1. ASSUME NEW x \in Payees(u) PROVE WindowShare[x] = 0
    <3>1. ~Current(x)
      BY Members DEF Init, Current, Payees
    <3>2. QED BY <3>1 DEF WindowShare, Payees
  <2>2. Total(WindowShare, Payees(u)) = 0
    BY <2>1, TotalOfNone
  <2>3. Total(LateReturn, TasksOf(u)) \in Nat
    BY <1>1, SharesNat, FinitePayees, TotalNat DEF SharesAreNat
  <2>4. subUsed[u] = 0
    BY DEF Init
  <2>5. QED BY <2>2, <2>3, <2>4 DEF Covers
<1>4. QED BY <1>1, <1>2, <1>3 DEF WindowInv

\* The usage of a payer's current window covers every share of it that is held or was
\* charged, whatever resets, new days and late refunds come between (settlement.go,
\* AllocateSubscriptions and releaseTaskSubscriptionAllocations).
THEOREM WindowCorrect == Spec => []WindowCoversShares
<1>1. QED BY InitWindow, WindowInvStep, CoversIsProperty, PTL DEF Spec

-----------------------------------------------------------------------------
(* The jobs of BatchImage, for any number of jobs, faults and retries: the   *)
(* request, the cancelling requests, the worker and the recovery of a job     *)
(* against each other.                                                       *)

Released(t) == Claimed(ReleaseClaim(t))
Delivering == {"settling", "completed", "output_deleted"}
Refunding == {"failed", "cancelled"}
Unbound == {"created", "uploading"}

\* What the variables of the jobs hold.
JobTypes ==
  /\ status \in [Jobs -> Statuses]
  /\ bound \in [Jobs -> BOOLEAN]
  /\ upstream \in [Jobs -> UpstreamStates]
  /\ queued \in [Jobs -> BOOLEAN]
  /\ hidden \in [Jobs -> BOOLEAN]
  /\ left \in [Jobs -> BOOLEAN]
  /\ retries \in [Jobs -> Nat]
  /\ pc \in [Jobs -> [Actors -> Calls]]
  /\ seen \in [Jobs -> FundsRows]
  /\ faults \in 0..MaxFaults

\* Before the request writes the row nobody works on the job.
Unstarted(t) ==
  /\ status[t] = "none" <=> phase[t] = "none"
  /\ status[t] = "none" =>
       /\ \A a \in Actors : pc[t][a] = "idle"
       /\ ~hidden[t]
       /\ ~Claimed(HoldClaim(t))

\* Once the platform's name is saved the request only enqueues.
Binding(t) ==
  /\ bound[t] => /\ pc[t]["submit"] \in {"enqueue", "idle"}
                 /\ status[t] \notin Unbound \cup {"none"}
                 /\ upstream[t] # "none"
  /\ status[t] \in {"submitted", "running", "indexing"} \cup Delivering => bound[t]
  /\ pc[t]["submit"] = "save" => upstream[t] # "none"
  /\ pc[t]["worker"] \in {"poll", "index"} => bound[t] /\ status[t] \notin Delivering

\* A job that is settled is settled by its worker alone, and a release without a
\* failed settlement is asked for a job that can no longer deliver.
Stages(t) ==
  /\ pc[t]["worker"] \in {"capture", "mark", "exhaust", "exhaustFail"} =>
       status[t] = "settling"
  /\ pc[t]["worker"] \in {"capture", "mark"} => retries[t] < MaxRetries
  /\ pc[t]["worker"] \in {"exhaust", "exhaustFail"} => retries[t] >= MaxRetries
  /\ pc[t]["worker"] = "mark" => Captured(t)
  /\ pc[t]["worker"] = "terminalRelease" => status[t] \in Refunding
  /\ pc[t]["cancel"] = "cancelRelease" => status[t] \in Refunding
  /\ pc[t]["recovery"] = "staleRelease" => status[t] \in Refunding

\* Which claims go with which status.
Closing(t) ==
  /\ Captured(t) => status[t] \in Delivering \/ retries[t] >= MaxRetries
  /\ Released(t) =>
       \/ status[t] \in Refunding
       \/ /\ status[t] \in Unbound
          /\ pc[t]["submit"] \in {"record", "hide", "recordRetry", "retry", "idle"}
       \/ status[t] = "settling" /\ retries[t] >= MaxRetries
  /\ status[t] \in {"completed", "output_deleted"} => Captured(t) /\ ~Released(t)

\* Which of the request's calls come after the hold.
Holding(t) ==
  /\ bound[t] => Claimed(HoldClaim(t))
  /\ pc[t]["submit"] \in {"items", "upload", "platform", "save", "enqueue",
                          "compensate", "giveBack"} => Claimed(HoldClaim(t))
  /\ pc[t]["submit"] = "reserve" => ~Claimed(HoldClaim(t))

Controlled(t) == Unstarted(t) /\ Binding(t) /\ Stages(t) /\ Closing(t) /\ Holding(t)
ControlInv == TypeOK /\ JobTypes /\ \A t \in Jobs : Controlled(t)

-----------------------------------------------------------------------------
USE JobAssumption

LEMMA JobsAreTasks == \A t \in Jobs : t \in Tasks
BY DEF Jobs

\* The edges of the job's status graph.
LEMMA Edges ==
  ASSUME NEW s \in Statuses
  PROVE  /\ CanTransition(s, "uploading") <=> s = "created"
         /\ CanTransition(s, "submitted") <=> s \in Unbound
         /\ CanTransition(s, "cancelled") <=> s \in Unbound \cup {"submitted", "running"}
         /\ CanTransition(s, "running") <=> s \in {"submitted", "running"}
         /\ CanTransition(s, "indexing") <=> s \in {"submitted", "running"}
         /\ CanTransition(s, "settling") <=> s = "indexing"
         /\ CanTransition(s, "failed") <=>
              s \in Unbound \cup {"submitted", "running", "indexing", "settling"}
<1>1. DOMAIN NonterminalEdges =
        {"created", "uploading", "submitted", "running", "indexing", "settling"}
  BY DEF NonterminalEdges
<1>2. /\ NonterminalEdges["created"] = {"uploading", "submitted", "cancelled"}
      /\ NonterminalEdges["uploading"] = {"submitted", "cancelled"}
      /\ NonterminalEdges["submitted"] = {"running", "indexing", "cancelled"}
      /\ NonterminalEdges["running"] = {"running", "indexing", "cancelled"}
      /\ NonterminalEdges["indexing"] = {"settling"}
      /\ NonterminalEdges["settling"] = {"completed"}
  BY DEF NonterminalEdges
<1> HIDE DEF NonterminalEdges
<1>3. QED BY <1>1, <1>2 DEF CanTransition, Unbound, Statuses, Terminal

\* An actor that goes on moves no other actor, and no other job.
LEMMA Going ==
  ASSUME JobTypes, NEW t \in Jobs, NEW a \in Actors, NEW c \in Calls, Goto(t, a, c)
  PROVE  /\ pc' \in [Jobs -> [Actors -> Calls]]
         /\ pc'[t][a] = c
         /\ \A b \in Actors \ {a} : pc'[t][b] = pc[t][b]
         /\ \A x \in Jobs \ {t} : pc'[x] = pc[x]
BY DEF JobTypes, Goto

-----------------------------------------------------------------------------
(* What a call does to the money of the jobs.                                *)

ClaimsMove(t, hold, capture, release) ==
  /\ Claimed(HoldClaim(t))' <=> hold \/ Claimed(HoldClaim(t))
  /\ Captured(t)' <=> capture \/ Captured(t)
  /\ Released(t)' <=> release \/ Released(t)

OtherTasks(t) ==
  \A x \in Tasks \ {t} : ClaimsSame(x) /\ row'[x] = row[x] /\ phase'[x] = phase[x]

LEMMA NoMoney ==
  ASSUME TypeOK, NEW t \in Jobs, UNCHANGED vars
  PROVE  /\ TypeOK' /\ OtherTasks(t) /\ ClaimsMove(t, FALSE, FALSE, FALSE)
         /\ phase' = phase /\ row' = row
<1>1. UNCHANGED <<live, archive, phase, row>>
  BY DEF vars, claimVars, taskVars
<1>2. TypeOK'
  BY OtherStepsType
<1>3. QED BY <1>1, <1>2 DEF OtherTasks, ClaimsMove, ClaimsSame, Claimed, Captured, Released

LEMMA CreateMoney ==
  ASSUME TypeOK, NEW t \in Jobs, CreateTask(t)
  PROVE  /\ TypeOK' /\ OtherTasks(t) /\ ClaimsMove(t, FALSE, FALSE, FALSE)
         /\ phase[t] = "none" /\ phase'[t] = "created"
<1>1. UNCHANGED <<live, archive>>
  BY DEF CreateTask, claimVars
<1>2. TypeOK'
  BY JobsAreTasks, OtherStepsType
<1>3. t \in Tasks /\ row \in [Tasks -> FundsRows] /\ phase \in [Tasks -> Phases]
  BY JobsAreTasks DEF TypeOK, TaskTypeOK
<1>4. /\ phase[t] = "none" /\ phase'[t] = "created"
      /\ \A x \in Tasks \ {t} : row'[x] = row[x] /\ phase'[x] = phase[x]
  BY <1>3 DEF CreateTask
<1>5. QED BY <1>1, <1>2, <1>4
         DEF OtherTasks, ClaimsMove, ClaimsSame, Claimed, Captured, Released

LEMMA ReserveMoneyOf ==
  ASSUME TypeOK, NEW t \in Jobs, Reserve(t)
  PROVE  /\ TypeOK' /\ OtherTasks(t) /\ ClaimsMove(t, TRUE, FALSE, FALSE)
         /\ phase' = phase
<1>1. t \in Tasks /\ row \in [Tasks -> FundsRows]
  BY JobsAreTasks DEF TypeOK, TaskTypeOK
<1>2. TypeOK'
  BY <1>1, ReserveType
<1>3. Take(HoldClaim(t), Plain) /\ phase' = phase
      /\ \A x \in Tasks \ {t} : row'[x] = row[x]
  BY <1>1 DEF Reserve
<1>4. /\ \A x \in Tasks \ {t} : ClaimsSame(x)
      /\ Claimed(HoldClaim(t))'
      /\ Claimed(CaptureClaim(t))' <=> Claimed(CaptureClaim(t))
      /\ Claimed(ReleaseClaim(t))' <=> Claimed(ReleaseClaim(t))
  BY <1>1, <1>3, TakeOfTask DEF HoldClaim, CaptureClaim, ReleaseClaim
<1>5. QED BY <1>2, <1>3, <1>4 DEF OtherTasks, ClaimsMove, Captured, Released

\* The parts of a row that say what is held.
SameHold(r, s) == r.hold = s.hold /\ r.bal = s.bal /\ r.sub = s.sub

LEMMA AllowanceDropped ==
  ASSUME TypeOK, NEW t \in Tasks, row' = [row EXCEPT ![t].allow = FALSE]
  PROVE  /\ SameHold(row'[t], row[t])
         /\ \A x \in Tasks \ {t} : row'[x] = row[x]
         /\ row' \in [Tasks -> FundsRows]
<1>1. row \in [Tasks -> FundsRows]
  BY DEF TypeOK, TaskTypeOK
<1>2. row' \in [Tasks -> FundsRows]
  BY FieldUpdateType
<1>3. QED BY <1>1, <1>2 DEF SameHold, FundsRows

\* A first release takes the release's claim, a later one does nothing.
LEMMA ReleaseOnceMoney ==
  ASSUME TypeOK, NEW t \in Jobs, NEW s \in FundsRows, ReleaseOnce(t, s)
  PROVE  /\ TypeOK' /\ OtherTasks(t) /\ ClaimsMove(t, FALSE, FALSE, TRUE)
         /\ phase' = phase /\ SameHold(row'[t], row[t])
<1>1. t \in Tasks
  BY JobsAreTasks
<1>2. CASE ~Fresh(ReleaseClaim(t))
  <2>1. UNCHANGED vars /\ Released(t)
    BY <1>2 DEF ReleaseOnce, Released, Claimed, Fresh
  <2>2. QED BY <2>1, NoMoney DEF ClaimsMove, SameHold
<1>3. CASE Fresh(ReleaseClaim(t))
  <2>1. /\ ReleaseFunds(t, s) /\ Take(ReleaseClaim(t), Plain)
        /\ UNCHANGED <<createdDay, phase, day, charged>>
    BY <1>3 DEF ReleaseOnce
  <2>2. TypeOK'
    BY <1>1, <2>1, ReleaseFundsType
  <2>3. row' = [row EXCEPT ![t].allow = FALSE]
    BY <2>1 DEF ReleaseFunds
  <2>4. /\ \A x \in Tasks \ {t} : ClaimsSame(x)
        /\ Claimed(HoldClaim(t))' <=> Claimed(HoldClaim(t))
        /\ Claimed(CaptureClaim(t))' <=> Claimed(CaptureClaim(t))
        /\ Claimed(ReleaseClaim(t))'
    BY <1>1, <2>1, TakeOfTask DEF HoldClaim, CaptureClaim, ReleaseClaim
  <2>5. QED BY <1>1, <2>1, <2>2, <2>3, <2>4, AllowanceDropped
           DEF OtherTasks, ClaimsMove, Captured, Released
<1>4. QED BY <1>2, <1>3

LEMMA CaptureOnceMoney ==
  ASSUME TypeOK, NEW t \in Jobs, CaptureOnce(t)
  PROVE  /\ TypeOK' /\ OtherTasks(t) /\ ClaimsMove(t, FALSE, TRUE, FALSE)
         /\ phase' = phase /\ SameHold(row'[t], row[t])
<1>1. t \in Tasks /\ row[t] \in FundsRows /\ ActualOfJob[t] \in Nat
  BY JobsAreTasks DEF TypeOK, TaskTypeOK
<1>2. CASE ~Fresh(CaptureClaim(t))
  <2>1. UNCHANGED vars /\ Captured(t)
    BY <1>2 DEF CaptureOnce, Captured, Claimed, Fresh
  <2>2. QED BY <2>1, NoMoney DEF ClaimsMove, SameHold
<1>3. CASE Fresh(CaptureClaim(t))
  <2>1. /\ CaptureFunds(t, row[t], ActualOfJob[t])
        /\ Take(CaptureClaim(t), ActualOfJob[t])
        /\ UNCHANGED <<createdDay, phase, day, charged>>
    BY <1>3 DEF CaptureOnce
  <2>2. TypeOK'
    BY <1>1, <2>1, CaptureFundsType
  <2>3. row' = [row EXCEPT ![t].allow = FALSE]
    BY <2>1 DEF CaptureFunds, CaptureAllowance
  <2>4. /\ \A x \in Tasks \ {t} : ClaimsSame(x)
        /\ Claimed(HoldClaim(t))' <=> Claimed(HoldClaim(t))
        /\ Claimed(CaptureClaim(t))'
        /\ Claimed(ReleaseClaim(t))' <=> Claimed(ReleaseClaim(t))
    BY <1>1, <2>1, TakeOfTask DEF HoldClaim, CaptureClaim, ReleaseClaim
  <2>5. QED BY <1>1, <2>1, <2>2, <2>3, <2>4, AllowanceDropped
           DEF OtherTasks, ClaimsMove, Captured, Released
<1>4. QED BY <1>2, <1>3

\* Every call of a job's actors moves the money in one of these ways.
MoneyStep(t) ==
  \/ UNCHANGED vars
  \/ CreateTask(t)
  \/ Reserve(t)
  \/ \E s \in {row[t], seen[t]} : ReleaseOnce(t, s)
  \/ CaptureOnce(t)

LEMMA MoneyStepKeeps ==
  ASSUME TypeOK, JobTypes, NEW t \in Jobs, MoneyStep(t)
  PROVE  TypeOK' /\ OtherTasks(t)
<1>1. row[t] \in FundsRows /\ seen[t] \in FundsRows
  BY JobsAreTasks DEF TypeOK, TaskTypeOK, JobTypes
<1>2. QED BY <1>1, NoMoney, CreateMoney, ReserveMoneyOf, ReleaseOnceMoney, CaptureOnceMoney
         DEF MoneyStep

-----------------------------------------------------------------------------
(* What a call does to the variables of the jobs: it keeps their types and   *)
(* touches its own job only.                                                 *)

OtherJobs(t) ==
  \A x \in Jobs \ {t} :
    /\ status'[x] = status[x] /\ bound'[x] = bound[x] /\ upstream'[x] = upstream[x]
    /\ queued'[x] = queued[x] /\ hidden'[x] = hidden[x] /\ left'[x] = left[x]
    /\ retries'[x] = retries[x] /\ pc'[x] = pc[x] /\ seen'[x] = seen[x]

\* g is f with another value in S for job t at most.
ChangesAt(f, g, t, S) == \E v \in S : g = [f EXCEPT ![t] = v]

Moves(t) ==
  /\ ChangesAt(status, status', t, Statuses)
  /\ ChangesAt(bound, bound', t, BOOLEAN)
  /\ ChangesAt(upstream, upstream', t, UpstreamStates)
  /\ ChangesAt(queued, queued', t, BOOLEAN)
  /\ ChangesAt(hidden, hidden', t, BOOLEAN)
  /\ ChangesAt(left, left', t, BOOLEAN)
  /\ ChangesAt(retries, retries', t, Nat)
  /\ ChangesAt(seen, seen', t, FundsRows)
  /\ (\E a \in Actors : \E c \in Calls : Goto(t, a, c)) \/ UNCHANGED pc
  /\ faults' \in 0..MaxFaults

LEMMA MovesFrame ==
  ASSUME JobTypes, NEW t \in Jobs, Moves(t)
  PROVE  JobTypes' /\ OtherJobs(t)
<1>1. /\ status' \in [Jobs -> Statuses]
      /\ \A x \in Jobs \ {t} : status'[x] = status[x]
  BY DEF Moves, JobTypes, ChangesAt
<1>2. /\ bound' \in [Jobs -> BOOLEAN]
      /\ \A x \in Jobs \ {t} : bound'[x] = bound[x]
  BY DEF Moves, JobTypes, ChangesAt
<1>3. /\ upstream' \in [Jobs -> UpstreamStates]
      /\ \A x \in Jobs \ {t} : upstream'[x] = upstream[x]
  BY DEF Moves, JobTypes, ChangesAt
<1>4. /\ hidden' \in [Jobs -> BOOLEAN]
      /\ \A x \in Jobs \ {t} : hidden'[x] = hidden[x]
  BY DEF Moves, JobTypes, ChangesAt
<1>5. /\ retries' \in [Jobs -> Nat]
      /\ \A x \in Jobs \ {t} : retries'[x] = retries[x]
  BY DEF Moves, JobTypes, ChangesAt
<1>6. /\ seen' \in [Jobs -> FundsRows]
      /\ \A x \in Jobs \ {t} : seen'[x] = seen[x]
  BY DEF Moves, JobTypes, ChangesAt
<1>7. /\ pc' \in [Jobs -> [Actors -> Calls]]
      /\ \A x \in Jobs \ {t} : pc'[x] = pc[x]
  <2>1. CASE UNCHANGED pc
    BY <2>1 DEF JobTypes
  <2>2. ASSUME NEW a \in Actors, NEW c \in Calls, Goto(t, a, c)
        PROVE  /\ pc' \in [Jobs -> [Actors -> Calls]]
               /\ \A x \in Jobs \ {t} : pc'[x] = pc[x]
    BY <2>2, Going
  <2>3. QED BY <2>1, <2>2 DEF Moves
<1>8. /\ queued' \in [Jobs -> BOOLEAN]
      /\ \A x \in Jobs \ {t} : queued'[x] = queued[x]
  BY DEF Moves, JobTypes, ChangesAt
<1>9. /\ left' \in [Jobs -> BOOLEAN]
      /\ \A x \in Jobs \ {t} : left'[x] = left[x]
  BY DEF Moves, JobTypes, ChangesAt
<1>10. QED BY <1>1, <1>2, <1>3, <1>4, <1>5, <1>6, <1>7, <1>8, <1>9
          DEF JobTypes, OtherJobs, Moves

LEMMA StatusFollows ==
  ASSUME NEW u \in UpstreamStates \ {"none"}
  PROVE  /\ StatusFor(u) \in {"running", "indexing", "failed", "cancelled"}
         /\ AfterPoll(u) \in {"idle", "index", "terminalRelease"}
         /\ AfterPoll(u) = "terminalRelease" <=> StatusFor(u) \in Refunding
         /\ AfterPoll(u) = "index" <=> u = "succeeded"
         /\ StatusFor(u) = "running" <=> u = "running"
BY DEF StatusFor, AfterPoll, UpstreamStates, Refunding

LEMMA StatusMoves ==
  ASSUME JobTypes, NEW t \in Jobs, Binding(t), JobStep(t)
  PROVE  ChangesAt(status, status', t, Statuses)
<1>1. CASE UNCHANGED status
  BY <1>1 DEF ChangesAt, JobTypes
<1>2. ASSUME NEW s \in Statuses, Becomes(t, s)
      PROVE  ChangesAt(status, status', t, Statuses)
  BY <1>2 DEF ChangesAt, Becomes
<1>3. UNCHANGED status \/ \E s \in Statuses : Becomes(t, s)
  <2>1. CASE Submit(t) \/ SubmitCreate(t) \/ Resubmit(t) \/ Retry(t)
    BY <2>1 DEF Submit, SubmitReserve, SubmitItems, SubmitUpload, SubmitPlatform,
       SubmitSave, Save, SubmitEnqueue, SubmitRelease, SubmitRecord, SubmitHide,
       SubmitCreate, Resubmit, Retry, Statuses
  <2>2. CASE Cancel(t) \/ Recovery(t)
    BY <2>2 DEF Cancel, CancelRead, CancelTransition, CancelRelease, CancelProvider,
       Recovery, FailStale, StaleRelease, Statuses
  <2>3. CASE WorkerPoll(t)
    <3>1. upstream[t] \in UpstreamStates \ {"none"}
      BY <2>3 DEF WorkerPoll, At, Binding, JobTypes
    <3>2. StatusFor(upstream[t]) \in Statuses
      BY <3>1, StatusFollows DEF Statuses
    <3>3. QED BY <2>3, <3>2 DEF WorkerPoll
  <2>4. CASE Worker(t) /\ ~WorkerPoll(t)
    BY <2>4 DEF Worker, WorkerTake, WorkerIndex, WorkerRelease, WorkerCapture, WorkerMark,
       WorkerExhaust, WorkerExhaustFail, Statuses
  <2>5. CASE UpstreamEnds(t) \/ CleanOutput(t) \/ DeleteRecord(t) \/ Crash(t)
    BY <2>5 DEF UpstreamEnds, CleanOutput, DeleteRecord, Crash, Statuses
  <2>6. QED BY <2>1, <2>2, <2>3, <2>4, <2>5 DEF JobStep
<1>4. QED BY <1>1, <1>2, <1>3

LEMMA PcMoves ==
  ASSUME JobTypes, NEW t \in Jobs, Binding(t), JobStep(t)
  PROVE  (\E a \in Actors : \E c \in Calls : Goto(t, a, c)) \/ UNCHANGED pc
<1>1. CASE Submit(t) \/ SubmitCreate(t) \/ Resubmit(t) \/ Retry(t)
  BY <1>1 DEF Submit, SubmitReserve, SubmitItems, SubmitUpload, SubmitPlatform,
       SubmitSave, Save, SubmitEnqueue, SubmitRelease, SubmitRecord, SubmitHide,
       SubmitCreate, Resubmit, Retry,
       Ack, Requeue, Actors, Calls, actorVars
<1>2. CASE Cancel(t) \/ Recovery(t)
  BY <1>2 DEF Cancel, CancelRead, CancelTransition, CancelRelease, CancelProvider,
       Recovery, FailStale, StaleRelease,
       Ack, Requeue, Actors, Calls, actorVars
<1>3. CASE Worker(t) /\ ~WorkerPoll(t)
  BY <1>3 DEF Worker, WorkerTake, WorkerIndex, WorkerRelease, WorkerCapture,
       WorkerMark, WorkerExhaust, WorkerExhaustFail,
       Ack, Requeue, Actors, Calls, actorVars
<1>4. CASE UpstreamEnds(t) \/ CleanOutput(t) \/ DeleteRecord(t) \/ Crash(t)
  BY <1>4 DEF UpstreamEnds, CleanOutput, DeleteRecord, Crash,
       Ack, Requeue, Actors, Calls, actorVars
<1>5. CASE WorkerPoll(t)
  <2>1. upstream[t] \in UpstreamStates \ {"none"}
    BY <1>5 DEF WorkerPoll, At, Binding, JobTypes
  <2>2. AfterPoll(upstream[t]) \in Calls
    BY <2>1, StatusFollows DEF Calls
  <2>3. QED BY <1>5, <2>2 DEF WorkerPoll, Actors, Calls
<1>6. QED BY <1>1, <1>2, <1>3, <1>4, <1>5 DEF JobStep

LEMMA BoundMoves ==
  ASSUME JobTypes, NEW t \in Jobs, JobStep(t)
  PROVE  ChangesAt(bound, bound', t, BOOLEAN)
<1>1. CASE UNCHANGED bound
  BY <1>1 DEF ChangesAt, JobTypes
<1>2. UNCHANGED bound \/ \E v \in BOOLEAN : bound' = [bound EXCEPT ![t] = v]
  <2>1. CASE Submit(t) \/ SubmitCreate(t) \/ Resubmit(t) \/ Retry(t)
    BY <2>1 DEF Submit, SubmitReserve, SubmitItems, SubmitUpload, SubmitPlatform,
         SubmitSave, Save, SubmitEnqueue, SubmitRelease, SubmitRecord, SubmitHide,
         SubmitCreate, Resubmit, Retry,
         upVars
  <2>2. CASE Cancel(t) \/ Recovery(t)
    BY <2>2 DEF Cancel, CancelRead, CancelTransition, CancelRelease, CancelProvider,
         Recovery, FailStale, StaleRelease,
         upVars
  <2>3. CASE Worker(t)
    BY <2>3 DEF Worker, WorkerTake, WorkerPoll, WorkerIndex, WorkerRelease, WorkerCapture,
         WorkerMark, WorkerExhaust, WorkerExhaustFail,
         upVars
  <2>4. CASE UpstreamEnds(t) \/ CleanOutput(t) \/ DeleteRecord(t) \/ Crash(t)
    BY <2>4 DEF UpstreamEnds, CleanOutput, DeleteRecord, Crash,
         upVars
  <2>5. QED BY <2>1, <2>2, <2>3, <2>4 DEF JobStep
<1>3. QED BY <1>1, <1>2 DEF ChangesAt

LEMMA HiddenMoves ==
  ASSUME JobTypes, NEW t \in Jobs, JobStep(t)
  PROVE  ChangesAt(hidden, hidden', t, BOOLEAN)
<1>1. CASE UNCHANGED hidden
  BY <1>1 DEF ChangesAt, JobTypes
<1>2. UNCHANGED hidden \/ \E v \in BOOLEAN : hidden' = [hidden EXCEPT ![t] = v]
  <2>1. CASE Submit(t) \/ SubmitCreate(t) \/ Resubmit(t) \/ Retry(t)
    BY <2>1 DEF Submit, SubmitReserve, SubmitItems, SubmitUpload, SubmitPlatform,
         SubmitSave, Save, SubmitEnqueue, SubmitRelease, SubmitRecord, SubmitHide,
         SubmitCreate, Resubmit, Retry,
         ownerVars, JobTypes, Terminal
  <2>2. CASE Cancel(t) \/ Recovery(t)
    BY <2>2 DEF Cancel, CancelRead, CancelTransition, CancelRelease, CancelProvider,
         Recovery, FailStale, StaleRelease,
         ownerVars, JobTypes, Terminal
  <2>3. CASE Worker(t)
    BY <2>3 DEF Worker, WorkerTake, WorkerPoll, WorkerIndex, WorkerRelease, WorkerCapture,
         WorkerMark, WorkerExhaust, WorkerExhaustFail,
         ownerVars, JobTypes, Terminal
  <2>4. CASE UpstreamEnds(t) \/ CleanOutput(t) \/ DeleteRecord(t) \/ Crash(t)
    BY <2>4 DEF UpstreamEnds, CleanOutput, DeleteRecord, Crash,
         ownerVars, JobTypes, Terminal
  <2>5. QED BY <2>1, <2>2, <2>3, <2>4 DEF JobStep
<1>3. QED BY <1>1, <1>2 DEF ChangesAt

LEMMA QueuedMoves ==
  ASSUME JobTypes, NEW t \in Jobs, JobStep(t)
  PROVE  ChangesAt(queued, queued', t, BOOLEAN)
<1>1. CASE UNCHANGED queued
  BY <1>1 DEF ChangesAt, JobTypes
<1>2. UNCHANGED queued \/ \E v \in BOOLEAN : queued' = [queued EXCEPT ![t] = v]
  <2>1. CASE Submit(t) \/ SubmitCreate(t) \/ Resubmit(t) \/ Retry(t)
    BY <2>1 DEF Submit, SubmitReserve, SubmitItems, SubmitUpload, SubmitPlatform,
         SubmitSave, SubmitEnqueue, SubmitRelease, SubmitRecord, SubmitHide,
         SubmitCreate, Resubmit, Retry, Enqueue
  <2>2. CASE Cancel(t) \/ Recovery(t)
    BY <2>2 DEF Cancel, CancelRead, CancelTransition, CancelRelease, CancelProvider,
         Recovery, FailStale, StaleRelease
  <2>3. CASE Worker(t)
    BY <2>3 DEF Worker, WorkerTake, WorkerPoll, WorkerIndex, WorkerRelease, WorkerCapture,
         WorkerMark, WorkerExhaust, WorkerExhaustFail, Ack, Requeue
  <2>4. CASE UpstreamEnds(t) \/ CleanOutput(t) \/ DeleteRecord(t) \/ Crash(t)
    BY <2>4 DEF UpstreamEnds, CleanOutput, DeleteRecord, Crash
  <2>5. QED BY <2>1, <2>2, <2>3, <2>4 DEF JobStep
<1>3. QED BY <1>1, <1>2 DEF ChangesAt

LEMMA LeftMoves ==
  ASSUME JobTypes, NEW t \in Jobs, JobStep(t)
  PROVE  ChangesAt(left, left', t, BOOLEAN)
<1>1. CASE UNCHANGED left
  BY <1>1 DEF ChangesAt, JobTypes
<1>2. CASE Leave(t)
  <2>1. (left[t] \/ ~queued[t]) \in BOOLEAN
    OBVIOUS
  <2>2. QED BY <1>2, <2>1 DEF ChangesAt, Leave
<1>3. CASE left' = [left EXCEPT ![t] = FALSE]
  BY <1>3 DEF ChangesAt
<1>4. UNCHANGED left \/ Leave(t) \/ left' = [left EXCEPT ![t] = FALSE]
  <2>1. CASE Submit(t) \/ SubmitCreate(t) \/ Resubmit(t) \/ Retry(t)
    BY <2>1 DEF Submit, SubmitReserve, SubmitItems, SubmitUpload, SubmitPlatform,
         SubmitSave, SubmitEnqueue, SubmitRelease, SubmitRecord, SubmitHide,
         SubmitCreate, Resubmit, Retry, Enqueue, ownerVars
  <2>2. CASE Cancel(t) \/ Recovery(t)
    BY <2>2 DEF Cancel, CancelRead, CancelTransition, CancelRelease, CancelProvider,
         Recovery, FailStale, StaleRelease, ownerVars
  <2>3. CASE Worker(t)
    BY <2>3 DEF Worker, WorkerTake, WorkerPoll, WorkerIndex, WorkerRelease, WorkerCapture,
         WorkerMark, WorkerExhaust, WorkerExhaustFail, ownerVars
  <2>4. CASE UpstreamEnds(t) \/ CleanOutput(t) \/ DeleteRecord(t) \/ Crash(t)
    BY <2>4 DEF UpstreamEnds, CleanOutput, DeleteRecord, Crash, ownerVars
  <2>5. QED BY <2>1, <2>2, <2>3, <2>4 DEF JobStep
<1>5. QED BY <1>1, <1>2, <1>3, <1>4

LEMMA UpstreamMoves ==
  ASSUME JobTypes, NEW t \in Jobs, JobStep(t)
  PROVE  ChangesAt(upstream, upstream', t, UpstreamStates)
<1>1. CASE UNCHANGED upstream
  BY <1>1 DEF ChangesAt, JobTypes
<1>2. UNCHANGED upstream \/ \E v \in UpstreamStates : upstream' = [upstream EXCEPT ![t] = v]
  <2>1. CASE Submit(t) \/ SubmitCreate(t) \/ Resubmit(t) \/ Retry(t)
    BY <2>1 DEF Submit, SubmitReserve, SubmitItems, SubmitUpload, SubmitPlatform,
         SubmitSave, Save, SubmitEnqueue, SubmitRelease, SubmitRecord, SubmitHide,
         SubmitCreate, Resubmit, Retry,
         AbortOrphan, upVars, UpstreamStates, JobTypes
  <2>2. CASE Cancel(t) \/ Recovery(t)
    BY <2>2 DEF Cancel, CancelRead, CancelTransition, CancelRelease, CancelProvider,
         Recovery, FailStale, StaleRelease,
         AbortOrphan, upVars, UpstreamStates, JobTypes
  <2>3. CASE Worker(t)
    BY <2>3 DEF Worker, WorkerTake, WorkerPoll, WorkerIndex, WorkerRelease, WorkerCapture,
         WorkerMark, WorkerExhaust, WorkerExhaustFail,
         AbortOrphan, upVars, UpstreamStates, JobTypes
  <2>4. CASE UpstreamEnds(t) \/ CleanOutput(t) \/ DeleteRecord(t) \/ Crash(t)
    BY <2>4 DEF UpstreamEnds, CleanOutput, DeleteRecord, Crash,
         AbortOrphan, upVars, UpstreamStates, JobTypes
  <2>5. QED BY <2>1, <2>2, <2>3, <2>4 DEF JobStep
<1>3. QED BY <1>1, <1>2 DEF ChangesAt

LEMMA RetriesMoves ==
  ASSUME JobTypes, NEW t \in Jobs, JobStep(t)
  PROVE  ChangesAt(retries, retries', t, Nat)
<1>1. CASE UNCHANGED retries
  BY <1>1 DEF ChangesAt, JobTypes
<1>2. UNCHANGED retries \/ \E v \in Nat : retries' = [retries EXCEPT ![t] = v]
  <2>1. CASE Submit(t) \/ SubmitCreate(t) \/ Resubmit(t) \/ Retry(t)
    BY <2>1 DEF Submit, SubmitReserve, SubmitItems, SubmitUpload, SubmitPlatform,
         SubmitSave, Save, SubmitEnqueue, SubmitRelease, SubmitRecord, SubmitHide,
         SubmitCreate, Resubmit, Retry,
         Count, JobTypes
  <2>2. CASE Cancel(t) \/ Recovery(t)
    BY <2>2 DEF Cancel, CancelRead, CancelTransition, CancelRelease, CancelProvider,
         Recovery, FailStale, StaleRelease,
         Count, JobTypes
  <2>3. CASE Worker(t)
    BY <2>3 DEF Worker, WorkerTake, WorkerPoll, WorkerIndex, WorkerRelease, WorkerCapture,
         WorkerMark, WorkerExhaust, WorkerExhaustFail,
         Count, JobTypes
  <2>4. CASE UpstreamEnds(t) \/ CleanOutput(t) \/ DeleteRecord(t) \/ Crash(t)
    BY <2>4 DEF UpstreamEnds, CleanOutput, DeleteRecord, Crash,
         Count, JobTypes
  <2>5. QED BY <2>1, <2>2, <2>3, <2>4 DEF JobStep
<1>3. QED BY <1>1, <1>2 DEF ChangesAt

LEMMA SeenMoves ==
  ASSUME JobTypes, NEW t \in Jobs, row[t] \in FundsRows, JobStep(t)
  PROVE  ChangesAt(seen, seen', t, FundsRows)
<1>1. CASE UNCHANGED seen
  BY <1>1 DEF ChangesAt, JobTypes
<1>2. UNCHANGED seen \/ \E v \in FundsRows : seen' = [seen EXCEPT ![t] = v]
  <2>1. CASE Submit(t) \/ SubmitCreate(t) \/ Resubmit(t) \/ Retry(t)
    BY <2>1 DEF Submit, SubmitReserve, SubmitItems, SubmitUpload, SubmitPlatform,
         SubmitSave, Save, SubmitEnqueue, SubmitRelease, SubmitRecord, SubmitHide,
         SubmitCreate, Resubmit, Retry,
         actorVars, JobTypes
  <2>2. CASE Cancel(t) \/ Recovery(t)
    BY <2>2 DEF Cancel, CancelRead, CancelTransition, CancelRelease, CancelProvider,
         Recovery, FailStale, StaleRelease,
         actorVars, JobTypes
  <2>3. CASE Worker(t)
    BY <2>3 DEF Worker, WorkerTake, WorkerPoll, WorkerIndex, WorkerRelease, WorkerCapture,
         WorkerMark, WorkerExhaust, WorkerExhaustFail,
         actorVars, JobTypes
  <2>4. CASE UpstreamEnds(t) \/ CleanOutput(t) \/ DeleteRecord(t) \/ Crash(t)
    BY <2>4 DEF UpstreamEnds, CleanOutput, DeleteRecord, Crash,
         actorVars, JobTypes
  <2>5. QED BY <2>1, <2>2, <2>3, <2>4 DEF JobStep
<1>3. QED BY <1>1, <1>2 DEF ChangesAt

LEMMA FaultsMove ==
  ASSUME JobTypes, NEW t \in Jobs, JobStep(t)
  PROVE  faults' \in 0..MaxFaults /\ faults' >= faults
<1>1. UNCHANGED faults \/ (faults < MaxFaults /\ faults' = faults + 1)
  <2>1. CASE Submit(t) \/ SubmitCreate(t) \/ Resubmit(t) \/ Retry(t)
    BY <2>1 DEF Submit, SubmitReserve, SubmitItems, SubmitUpload, SubmitPlatform,
       SubmitSave, Save, SubmitEnqueue, SubmitRelease, SubmitRecord, SubmitHide,
       SubmitCreate, Resubmit, Retry,
       Fault, NoFault, ReleaseSucceeds, ReleaseFails, CaptureFails
  <2>2. CASE Cancel(t) \/ Recovery(t)
    BY <2>2 DEF Cancel, CancelRead, CancelTransition, CancelRelease, CancelProvider,
       Recovery, FailStale, StaleRelease,
       Fault, NoFault, ReleaseSucceeds, ReleaseFails, CaptureFails
  <2>3. CASE Worker(t)
    BY <2>3 DEF Worker, WorkerTake, WorkerPoll, WorkerIndex, WorkerRelease, WorkerCapture,
       WorkerMark, WorkerExhaust, WorkerExhaustFail,
       Fault, NoFault, ReleaseSucceeds, ReleaseFails, CaptureFails
  <2>4. CASE UpstreamEnds(t) \/ CleanOutput(t) \/ DeleteRecord(t) \/ Crash(t)
    BY <2>4 DEF UpstreamEnds, CleanOutput, DeleteRecord, Crash,
       Fault, NoFault, ReleaseSucceeds, ReleaseFails, CaptureFails
  <2>5. QED BY <2>1, <2>2, <2>3, <2>4 DEF JobStep
<1>2. QED BY <1>1 DEF JobTypes

LEMMA MoneyMoves1 ==
  ASSUME NEW t \in Jobs, JobStep(t)
  PROVE  MoneyStep(t)
<1>1. CASE Submit(t) \/ SubmitCreate(t) \/ Resubmit(t) \/ Retry(t)
  BY <1>1 DEF Submit, SubmitReserve, SubmitItems, SubmitUpload, SubmitPlatform,
     SubmitSave, Save, SubmitEnqueue, SubmitRelease, SubmitRecord, SubmitHide,
     SubmitCreate, Resubmit, Retry,
     MoneyStep, ReleaseSucceeds, ReleaseFails, CaptureFails
<1>2. CASE Cancel(t) \/ Recovery(t)
  BY <1>2 DEF Cancel, CancelRead, CancelTransition, CancelRelease, CancelProvider,
     Recovery, FailStale, StaleRelease,
     MoneyStep, ReleaseSucceeds, ReleaseFails, CaptureFails
<1>3. CASE Worker(t)
  BY <1>3 DEF Worker, WorkerTake, WorkerPoll, WorkerIndex, WorkerRelease, WorkerCapture,
     WorkerMark, WorkerExhaust, WorkerExhaustFail,
     MoneyStep, ReleaseSucceeds, ReleaseFails, CaptureFails
<1>4. CASE UpstreamEnds(t) \/ CleanOutput(t) \/ DeleteRecord(t) \/ Crash(t)
  BY <1>4 DEF UpstreamEnds, CleanOutput, DeleteRecord, Crash,
     MoneyStep, ReleaseSucceeds, ReleaseFails, CaptureFails
<1>5. QED BY <1>1, <1>2, <1>3, <1>4 DEF JobStep

LEMMA StepFrame ==
  ASSUME TypeOK, JobTypes, NEW t \in Jobs, Binding(t), JobStep(t)
  PROVE  TypeOK' /\ JobTypes' /\ OtherJobs(t) /\ OtherTasks(t)
<1>1. row[t] \in FundsRows
  BY JobsAreTasks DEF TypeOK, TaskTypeOK
<1>2. Moves(t)
  BY <1>1, StatusMoves, PcMoves, BoundMoves, QueuedMoves, HiddenMoves, LeftMoves,
     UpstreamMoves, RetriesMoves, SeenMoves, FaultsMove DEF Moves
<1>3. JobTypes' /\ OtherJobs(t)
  BY <1>2, MovesFrame
<1>4. TypeOK' /\ OtherTasks(t)
  BY MoneyMoves1, MoneyStepKeeps
<1>5. QED BY <1>3, <1>4

\* The calls one actor moves between.
LEMMA SubmitGoes ==
  ASSUME JobTypes, NEW t \in Jobs, NEW c, Goto(t, "submit", c)
  PROVE  /\ pc'[t]["submit"] = c
         /\ pc'[t]["cancel"] = pc[t]["cancel"]
         /\ pc'[t]["worker"] = pc[t]["worker"]
         /\ pc'[t]["recovery"] = pc[t]["recovery"]
BY DEF JobTypes, Goto, Actors

LEMMA CancelGoes ==
  ASSUME JobTypes, NEW t \in Jobs, NEW c, Goto(t, "cancel", c)
  PROVE  /\ pc'[t]["cancel"] = c
         /\ pc'[t]["submit"] = pc[t]["submit"]
         /\ pc'[t]["worker"] = pc[t]["worker"]
         /\ pc'[t]["recovery"] = pc[t]["recovery"]
BY DEF JobTypes, Goto, Actors

LEMMA WorkerGoes ==
  ASSUME JobTypes, NEW t \in Jobs, NEW c, Goto(t, "worker", c)
  PROVE  /\ pc'[t]["worker"] = c
         /\ pc'[t]["submit"] = pc[t]["submit"]
         /\ pc'[t]["cancel"] = pc[t]["cancel"]
         /\ pc'[t]["recovery"] = pc[t]["recovery"]
BY DEF JobTypes, Goto, Actors

LEMMA RecoveryGoes ==
  ASSUME JobTypes, NEW t \in Jobs, NEW c, Goto(t, "recovery", c)
  PROVE  /\ pc'[t]["recovery"] = c
         /\ pc'[t]["submit"] = pc[t]["submit"]
         /\ pc'[t]["cancel"] = pc[t]["cancel"]
         /\ pc'[t]["worker"] = pc[t]["worker"]
BY DEF JobTypes, Goto, Actors

LEMMA BecomesAt ==
  ASSUME JobTypes, NEW t \in Jobs, NEW s, Becomes(t, s)
  PROVE  status'[t] = s
BY DEF JobTypes, Becomes

LEMMA CrashGoes ==
  ASSUME JobTypes, NEW t \in Jobs, Crash(t)
  PROVE  /\ pc'[t]["submit"] \in {pc[t]["submit"], "idle"}
         /\ pc'[t]["cancel"] \in {pc[t]["cancel"], "idle"}
         /\ pc'[t]["worker"] \in {pc[t]["worker"], "idle"}
         /\ pc'[t]["recovery"] \in {pc[t]["recovery"], "idle"}
         /\ UNCHANGED <<vars, status, bound, upstream, hidden, retries, seen>>
<1>1. PICK a \in Actors : Goto(t, a, "idle")
  BY DEF Crash
<1>2. \A b \in Actors : pc'[t][b] \in {pc[t][b], "idle"}
  BY <1>1 DEF Goto, JobTypes
<1>3. QED BY <1>2 DEF Crash, Actors, upVars

\* The calls that leave the money alone.
QuietSubmit(t) ==
  \/ SubmitItems(t) \/ SubmitUpload(t) \/ SubmitPlatform(t) \/ SubmitSave(t)
  \/ SubmitEnqueue(t) \/ SubmitRecord(t) \/ SubmitHide(t) \/ Resubmit(t) \/ Retry(t)
QuietCancel(t) == CancelRead(t) \/ CancelTransition(t) \/ CancelProvider(t) \/ FailStale(t)
QuietWorker(t) ==
  \/ WorkerTake(t) \/ WorkerPoll(t) \/ WorkerIndex(t) \/ WorkerMark(t) \/ WorkerExhaustFail(t)
QuietOther(t) == UpstreamEnds(t) \/ CleanOutput(t) \/ DeleteRecord(t) \/ Crash(t)
QuietCall(t) == QuietSubmit(t) \/ QuietCancel(t) \/ QuietWorker(t) \/ QuietOther(t)

LEMMA QuietMoney ==
  ASSUME TypeOK, NEW t \in Jobs, QuietCall(t)
  PROVE  ClaimsMove(t, FALSE, FALSE, FALSE) /\ phase' = phase /\ row' = row
<1>1. UNCHANGED vars
  BY DEF QuietCall, QuietSubmit, QuietCancel, QuietWorker, QuietOther,
     SubmitItems, SubmitUpload, SubmitPlatform, SubmitSave, Save, SubmitEnqueue,
     SubmitRecord, SubmitHide, Resubmit, Retry,
     CancelRead, CancelTransition, CancelProvider, FailStale,
     WorkerTake, WorkerPoll, WorkerIndex, WorkerMark, WorkerExhaustFail,
     UpstreamEnds, CleanOutput, DeleteRecord, Crash
<1>2. QED BY <1>1, NoMoney

LEMMA QuietSubmitKeeps ==
  ASSUME TypeOK, JobTypes, NEW t \in Jobs, Controlled(t), QuietSubmit(t)
  PROVE  Controlled(t)'
<1>1. ClaimsMove(t, FALSE, FALSE, FALSE) /\ phase' = phase
  BY QuietMoney DEF QuietCall
<1> USE <1>1, SubmitGoes, CancelGoes, RecoveryGoes, BecomesAt, Edges
    DEF QuietSubmit, SubmitItems, SubmitUpload, SubmitPlatform, SubmitSave, Save,
          SubmitEnqueue, SubmitRecord, SubmitHide, Resubmit, Retry, AbortOrphan, At,
        Delivering, Refunding, Unbound, upVars, ownerVars, actorVars, Terminal, Unsubmitted, Actors,
        JobTypes, Controlled, Unstarted, Binding, Stages, Closing, Holding, ClaimsMove
<1>2. Unstarted(t)'
  OBVIOUS
<1>3. Binding(t)'
  OBVIOUS
<1>4. Stages(t)'
  OBVIOUS
<1>5. Closing(t)'
  OBVIOUS
<1>6. Holding(t)'
  OBVIOUS
<1> QED BY ONLY <1>2, <1>3, <1>4, <1>5, <1>6 DEF Controlled

LEMMA QuietCancelKeeps ==
  ASSUME TypeOK, JobTypes, NEW t \in Jobs, Controlled(t), QuietCancel(t)
  PROVE  Controlled(t)'
<1>1. ClaimsMove(t, FALSE, FALSE, FALSE) /\ phase' = phase
  BY QuietMoney DEF QuietCall
<1> USE <1>1, CancelGoes, RecoveryGoes, BecomesAt, Edges
    DEF QuietCancel, CancelRead, CancelTransition, CancelProvider, FailStale, At,
        Delivering, Refunding, Unbound, upVars, ownerVars, actorVars, Terminal, Unsubmitted, Actors,
        JobTypes, Controlled, Unstarted, Binding, Stages, Closing, Holding, ClaimsMove
<1>2. Unstarted(t)'
  OBVIOUS
<1>3. Binding(t)'
  OBVIOUS
<1>4. Stages(t)'
  OBVIOUS
<1>5. Closing(t)'
  OBVIOUS
<1>6. Holding(t)'
  OBVIOUS
<1> QED BY ONLY <1>2, <1>3, <1>4, <1>5, <1>6 DEF Controlled

LEMMA QuietWorkerKeeps ==
  ASSUME TypeOK, JobTypes, NEW t \in Jobs, Controlled(t), QuietWorker(t)
  PROVE  Controlled(t)'
<1>1. ClaimsMove(t, FALSE, FALSE, FALSE) /\ phase' = phase
  BY QuietMoney DEF QuietCall
<1> USE <1>1, WorkerGoes, BecomesAt, StatusFollows, Edges
    DEF QuietWorker, WorkerTake, WorkerPoll, WorkerIndex, WorkerMark,
          WorkerExhaustFail, Ack, Requeue, Exhausted, At,
        Delivering, Refunding, Unbound, upVars, ownerVars, actorVars, Terminal, Unsubmitted, Actors,
        JobTypes, Controlled, Unstarted, Binding, Stages, Closing, Holding, ClaimsMove
<1>2. Unstarted(t)'
  <2>1. CASE WorkerTake(t)
    BY <2>1
  <2>2. CASE WorkerPoll(t)
    BY <2>2
  <2>3. CASE WorkerIndex(t)
    BY <2>3
  <2>4. CASE WorkerMark(t)
    BY <2>4
  <2>5. CASE WorkerExhaustFail(t)
    BY <2>5
  <2> QED BY <2>1, <2>2, <2>3, <2>4, <2>5
<1>3. Binding(t)'
  <2>1. CASE WorkerTake(t)
    BY <2>1
  <2>2. CASE WorkerPoll(t)
    BY <2>2
  <2>3. CASE WorkerIndex(t)
    BY <2>3
  <2>4. CASE WorkerMark(t)
    BY <2>4
  <2>5. CASE WorkerExhaustFail(t)
    BY <2>5
  <2> QED BY <2>1, <2>2, <2>3, <2>4, <2>5
<1>4. Stages(t)'
  <2>1. CASE WorkerTake(t)
    BY <2>1
  <2>2. CASE WorkerPoll(t)
    <3>1. /\ pc'[t]["worker"] \in {"idle", "index", "terminalRelease"}
          /\ pc'[t]["worker"] = "terminalRelease" => status'[t] \in Refunding
      BY <2>2
    <3>2. status[t] \in Refunding => status'[t] \in Refunding
      <4>1. upstream[t] \in UpstreamStates \ {"none"}
        BY <2>2
      <4>2. StatusFor(upstream[t]) \in {"running", "indexing", "failed", "cancelled"}
        BY <4>1, StatusFollows
      <4>3. status[t] \in Refunding => ~CanTransition(status[t], StatusFor(upstream[t]))
        BY ONLY <4>2, JobTypes, t \in Jobs, Edges DEF JobTypes, Refunding, Unbound
      <4>4. QED BY ONLY <2>2, <4>3 DEF WorkerPoll
    <3>3. /\ UNCHANGED retries
          /\ pc'[t]["cancel"] = pc[t]["cancel"]
          /\ pc'[t]["recovery"] = pc[t]["recovery"]
      BY ONLY <2>2, JobTypes, t \in Jobs, WorkerGoes DEF WorkerPoll
    <3>4. QED BY ONLY <3>1, <3>2, <3>3, Controlled(t) DEF Controlled, Stages
  <2>3. CASE WorkerIndex(t)
    BY <2>3
  <2>4. CASE WorkerMark(t)
    BY <2>4
  <2>5. CASE WorkerExhaustFail(t)
    BY <2>5
  <2> QED BY <2>1, <2>2, <2>3, <2>4, <2>5
<1>5. Closing(t)'
  <2>1. CASE WorkerTake(t)
    BY <2>1
  <2>2. CASE WorkerPoll(t)
    BY <2>2
  <2>3. CASE WorkerIndex(t)
    BY <2>3
  <2>4. CASE WorkerMark(t)
    BY <2>4
  <2>5. CASE WorkerExhaustFail(t)
    BY <2>5
  <2> QED BY <2>1, <2>2, <2>3, <2>4, <2>5
<1>6. Holding(t)'
  OBVIOUS
<1> QED BY ONLY <1>2, <1>3, <1>4, <1>5, <1>6 DEF Controlled

LEMMA QuietOtherKeeps ==
  ASSUME TypeOK, JobTypes, NEW t \in Jobs, Controlled(t), QuietOther(t)
  PROVE  Controlled(t)'
<1>1. ClaimsMove(t, FALSE, FALSE, FALSE) /\ phase' = phase
  BY QuietMoney DEF QuietCall
<1> USE <1>1, CrashGoes, BecomesAt
    DEF QuietOther, UpstreamEnds, CleanOutput, DeleteRecord, At,
        Delivering, Refunding, Unbound, upVars, ownerVars, actorVars, Terminal, Unsubmitted, Actors,
        JobTypes, Controlled, Unstarted, Binding, Stages, Closing, Holding, ClaimsMove
<1>2. Unstarted(t)'
  OBVIOUS
<1>3. Binding(t)'
  OBVIOUS
<1>4. Stages(t)'
  OBVIOUS
<1>5. Closing(t)'
  OBVIOUS
<1>6. Holding(t)'
  OBVIOUS
<1> QED BY ONLY <1>2, <1>3, <1>4, <1>5, <1>6 DEF Controlled

LEMMA SubmitCreateKeeps ==
  ASSUME TypeOK, JobTypes, NEW t \in Jobs, Controlled(t), SubmitCreate(t)
  PROVE  Controlled(t)'
<1>1. ClaimsMove(t, FALSE, FALSE, FALSE) /\ phase'[t] = "created"
  BY CreateMoney DEF SubmitCreate
<1>2. /\ status[t] = "none" /\ status'[t] = "created"
      /\ pc'[t]["submit"] = "reserve"
      /\ pc'[t]["cancel"] = "idle" /\ pc'[t]["worker"] = "idle"
      /\ pc'[t]["recovery"] = "idle"
      /\ UNCHANGED <<bound, retries>>
  BY SubmitGoes, BecomesAt DEF SubmitCreate, upVars, Controlled, Unstarted, Actors
<1>3. ~bound[t] /\ ~Released(t) /\ (Captured(t) => retries[t] >= MaxRetries)
      /\ ~Claimed(HoldClaim(t))
  BY <1>2 DEF Controlled, Binding, Closing, Unstarted, Delivering, Refunding, Unbound
<1>4. QED BY <1>1, <1>2, <1>3 DEF Controlled, Unstarted, Binding, Stages, Closing, Holding,
         ClaimsMove, Delivering, Refunding, Unbound

LEMMA SubmitReserveKeeps ==
  ASSUME TypeOK, JobTypes, NEW t \in Jobs, Controlled(t), SubmitReserve(t)
  PROVE  Controlled(t)'
<1>1. phase' = phase
      /\ \/ ClaimsMove(t, TRUE, FALSE, FALSE) /\ pc'[t]["submit"] \in {"items", "record"}
         \/ ClaimsMove(t, FALSE, FALSE, FALSE) /\ pc'[t]["submit"] = "record"
  BY NoMoney, ReserveMoneyOf, SubmitGoes DEF SubmitReserve
<1>2. /\ UNCHANGED <<status, bound, upstream, hidden, retries>>
      /\ pc[t]["submit"] = "reserve"
      /\ pc'[t]["cancel"] = pc[t]["cancel"] /\ pc'[t]["worker"] = pc[t]["worker"]
      /\ pc'[t]["recovery"] = pc[t]["recovery"]
  BY SubmitGoes DEF SubmitReserve, upVars, ownerVars, At
<1>3. ~bound[t] /\ status[t] # "none"
  BY <1>2 DEF Controlled, Binding, Unstarted, Actors
<1>4. QED BY <1>1, <1>2, <1>3 DEF Controlled, Unstarted, Binding, Stages, Closing, Holding,
         ClaimsMove, Delivering, Refunding, Unbound

\* Whoever asks for a release, from the row or from a copy of it.
LEMMA ReleaseMoves ==
  ASSUME TypeOK, JobTypes, NEW t \in Jobs, NEW s \in {row[t], seen[t]}, NEW c,
         ReleaseSucceeds(t, s) \/ ReleaseFails(t, s, c)
  PROVE  /\ phase' = phase
         /\ ClaimsMove(t, FALSE, FALSE, TRUE) \/ ClaimsMove(t, FALSE, FALSE, FALSE)
         /\ ReleaseSucceeds(t, s) => ClaimsMove(t, FALSE, FALSE, TRUE)
<1>1. s \in FundsRows
  BY JobsAreTasks DEF TypeOK, TaskTypeOK, JobTypes
<1>2. QED BY <1>1, NoMoney, ReleaseOnceMoney DEF ReleaseSucceeds, ReleaseFails

LEMMA SubmitReleaseKeeps ==
  ASSUME TypeOK, JobTypes, NEW t \in Jobs, Controlled(t), SubmitRelease(t)
  PROVE  Controlled(t)'
<1>1. /\ phase' = phase
      /\ ClaimsMove(t, FALSE, FALSE, TRUE) \/ ClaimsMove(t, FALSE, FALSE, FALSE)
  BY ReleaseMoves DEF SubmitRelease
<1>0. /\ status[t] \in Unbound \cup Refunding
      /\ pc'[t]["submit"] \in {"record", "recordRetry", "idle"}
  BY SubmitGoes DEF SubmitRelease, At, JobTypes, Controlled, Binding, Unstarted,
     Delivering, Refunding, Unbound, Statuses, Actors
<1> USE <1>1, SubmitGoes DEF SubmitRelease, At,
        Delivering, Refunding, Unbound, upVars, ownerVars, Actors,
        JobTypes, Controlled, Unstarted, Binding, Stages, Closing, Holding, ClaimsMove
<1>2. Unstarted(t)'
  OBVIOUS
<1>3. Binding(t)'
  OBVIOUS
<1>4. Stages(t)'
  OBVIOUS
<1>5. Closing(t)'
  BY <1>0
<1>6. Holding(t)'
  OBVIOUS
<1> QED BY ONLY <1>2, <1>3, <1>4, <1>5, <1>6 DEF Controlled

LEMMA CancelReleaseKeeps ==
  ASSUME TypeOK, JobTypes, NEW t \in Jobs, Controlled(t), CancelRelease(t)
  PROVE  Controlled(t)'
<1>1. /\ phase' = phase
      /\ ClaimsMove(t, FALSE, FALSE, TRUE) \/ ClaimsMove(t, FALSE, FALSE, FALSE)
  BY ReleaseMoves DEF CancelRelease
<1> USE <1>1, CancelGoes DEF CancelRelease, At,
        Delivering, Refunding, Unbound, upVars, ownerVars, Actors,
        JobTypes, Controlled, Unstarted, Binding, Stages, Closing, Holding, ClaimsMove
<1>2. Unstarted(t)'
  OBVIOUS
<1>3. Binding(t)'
  OBVIOUS
<1>4. Stages(t)'
  OBVIOUS
<1>5. Closing(t)'
  OBVIOUS
<1>6. Holding(t)'
  OBVIOUS
<1> QED BY ONLY <1>2, <1>3, <1>4, <1>5, <1>6 DEF Controlled

LEMMA StaleReleaseKeeps ==
  ASSUME TypeOK, JobTypes, NEW t \in Jobs, Controlled(t), StaleRelease(t)
  PROVE  Controlled(t)'
<1>1. /\ phase' = phase
      /\ ClaimsMove(t, FALSE, FALSE, TRUE) \/ ClaimsMove(t, FALSE, FALSE, FALSE)
  BY ReleaseMoves DEF StaleRelease
<1> USE <1>1, RecoveryGoes DEF StaleRelease, At,
        Delivering, Refunding, Unbound, upVars, ownerVars, Actors,
        JobTypes, Controlled, Unstarted, Binding, Stages, Closing, Holding, ClaimsMove
<1>2. Unstarted(t)'
  OBVIOUS
<1>3. Binding(t)'
  OBVIOUS
<1>4. Stages(t)'
  OBVIOUS
<1>5. Closing(t)'
  OBVIOUS
<1>6. Holding(t)'
  OBVIOUS
<1> QED BY ONLY <1>2, <1>3, <1>4, <1>5, <1>6 DEF Controlled

LEMMA WorkerReleaseKeeps ==
  ASSUME TypeOK, JobTypes, NEW t \in Jobs, Controlled(t), WorkerRelease(t)
  PROVE  Controlled(t)'
<1>1. /\ phase' = phase
      /\ ClaimsMove(t, FALSE, FALSE, TRUE) \/ ClaimsMove(t, FALSE, FALSE, FALSE)
  BY ReleaseMoves DEF WorkerRelease
<1> USE <1>1, WorkerGoes DEF WorkerRelease, Ack, Requeue, At,
        Delivering, Refunding, Unbound, upVars, ownerVars, Actors,
        JobTypes, Controlled, Unstarted, Binding, Stages, Closing, Holding, ClaimsMove
<1>2. Unstarted(t)'
  OBVIOUS
<1>3. Binding(t)'
  OBVIOUS
<1>4. Stages(t)'
  OBVIOUS
<1>5. Closing(t)'
  OBVIOUS
<1>6. Holding(t)'
  OBVIOUS
<1> QED BY ONLY <1>2, <1>3, <1>4, <1>5, <1>6 DEF Controlled

LEMMA WorkerExhaustKeeps ==
  ASSUME TypeOK, JobTypes, NEW t \in Jobs, Controlled(t), WorkerExhaust(t)
  PROVE  Controlled(t)'
<1>1. /\ phase' = phase
      /\ ClaimsMove(t, FALSE, FALSE, TRUE) \/ ClaimsMove(t, FALSE, FALSE, FALSE)
  BY ReleaseMoves DEF WorkerExhaust
<1> USE <1>1, WorkerGoes DEF WorkerExhaust, At,
        Delivering, Refunding, Unbound, upVars, ownerVars, Actors,
        JobTypes, Controlled, Unstarted, Binding, Stages, Closing, Holding, ClaimsMove
<1>2. Unstarted(t)'
  OBVIOUS
<1>3. Binding(t)'
  OBVIOUS
<1>4. Stages(t)'
  OBVIOUS
<1>5. Closing(t)'
  OBVIOUS
<1>6. Holding(t)'
  OBVIOUS
<1> QED BY ONLY <1>2, <1>3, <1>4, <1>5, <1>6 DEF Controlled

LEMMA WorkerCaptureKeeps ==
  ASSUME TypeOK, JobTypes, NEW t \in Jobs, Controlled(t), WorkerCapture(t)
  PROVE  Controlled(t)'
<1>1. /\ status[t] = "settling" /\ retries[t] < MaxRetries /\ retries[t] \in Nat
      /\ bound[t] /\ ~Released(t)
  BY DEF WorkerCapture, At, Controlled, Stages, Closing, Binding, Delivering, Refunding,
     Unbound, JobTypes
<1>2. CaptureOnce(t) \/ UNCHANGED vars
  BY DEF WorkerCapture, CaptureFails
<1>3. /\ phase' = phase
      /\ ClaimsMove(t, FALSE, TRUE, FALSE) \/ ClaimsMove(t, FALSE, FALSE, FALSE)
  BY <1>2, NoMoney, CaptureOnceMoney
<1>4. /\ UNCHANGED <<status, bound, upstream, hidden>>
      /\ pc'[t]["submit"] = pc[t]["submit"] /\ pc'[t]["cancel"] = pc[t]["cancel"]
      /\ pc'[t]["recovery"] = pc[t]["recovery"]
  BY WorkerGoes DEF WorkerCapture, upVars, ownerVars
<1>5. \/ pc'[t]["worker"] = "mark" /\ Captured(t)' /\ retries' = retries
      \/ pc'[t]["worker"] = "exhaust" /\ retries'[t] >= MaxRetries
      \/ pc'[t]["worker"] = "idle" /\ retries'[t] \in {retries[t], retries[t] + 1}
  <2>1. CASE CaptureOnce(t) /\ Goto(t, "worker", "mark") /\ UNCHANGED retries
    BY <2>1, WorkerGoes, CaptureOnceMoney DEF ClaimsMove
  <2>2. CASE ~(CaptureOnce(t) /\ Goto(t, "worker", "mark") /\ UNCHANGED retries)
    BY <1>1, <2>2, WorkerGoes DEF WorkerCapture, Count, JobTypes
  <2>3. QED BY <2>1, <2>2
<1>6. Unstarted(t)'
  <2>1. status'[t] = "settling" /\ status[t] # "none" /\ phase'[t] = phase[t]
    BY <1>1, <1>3, <1>4
  <2>2. QED BY <2>1, <1>1 DEF Controlled, Unstarted
<1>7. Binding(t)'
  BY <1>1, <1>4, <1>5 DEF Controlled, Binding
<1>8. Stages(t)'
  BY <1>1, <1>4, <1>5 DEF Controlled, Stages
<1>9. Closing(t)' /\ Holding(t)'
  BY <1>1, <1>3, <1>4 DEF Controlled, Closing, Holding, ClaimsMove, Delivering, Unbound, Refunding
<1>10. QED BY <1>6, <1>7, <1>8, <1>9 DEF Controlled

\* The calls that ask for a release.
ReleaseCall(t) ==
  SubmitRelease(t) \/ CancelRelease(t) \/ StaleRelease(t) \/ WorkerRelease(t)
    \/ WorkerExhaust(t)

LEMMA CallKinds ==
  ASSUME NEW t \in Jobs, JobStep(t)
  PROVE  \/ QuietCall(t) \/ SubmitCreate(t) \/ SubmitReserve(t)
         \/ ReleaseCall(t) \/ WorkerCapture(t)
BY DEF JobStep, Submit, Cancel, Worker, Recovery, QuietCall, QuietSubmit,
       QuietCancel, QuietWorker, QuietOther, ReleaseCall

LEMMA JobStepKeeps ==
  ASSUME TypeOK, JobTypes, NEW t \in Jobs, Controlled(t), JobStep(t)
  PROVE  Controlled(t)'
BY QuietSubmitKeeps, QuietCancelKeeps, QuietWorkerKeeps, QuietOtherKeeps,
   SubmitCreateKeeps, SubmitReserveKeeps, SubmitReleaseKeeps, CancelReleaseKeeps,
   StaleReleaseKeeps, WorkerReleaseKeeps, WorkerExhaustKeeps, WorkerCaptureKeeps
   DEF JobStep, Submit, Cancel, Worker, Recovery, QuietSubmit, QuietCancel, QuietWorker,
       QuietOther

\* A call leaves the other jobs as they are.
LEMMA OthersSame ==
  ASSUME NEW t \in Jobs, OtherJobs(t), OtherTasks(t), NEW x \in Jobs \ {t}
  PROVE  /\ status'[x] = status[x] /\ bound'[x] = bound[x] /\ upstream'[x] = upstream[x]
         /\ queued'[x] = queued[x] /\ hidden'[x] = hidden[x] /\ left'[x] = left[x]
         /\ retries'[x] = retries[x] /\ pc'[x] = pc[x] /\ seen'[x] = seen[x]
         /\ phase'[x] = phase[x] /\ row'[x] = row[x]
         /\ Claimed(HoldClaim(x))' <=> Claimed(HoldClaim(x))
         /\ Captured(x)' <=> Captured(x)
         /\ Released(x)' <=> Released(x)
BY JobsAreTasks DEF OtherJobs, OtherTasks, ClaimsSame, Captured, Released

LEMMA OthersKeep ==
  ASSUME NEW t \in Jobs, OtherJobs(t), OtherTasks(t),
         NEW x \in Jobs \ {t}, Controlled(x)
  PROVE  Controlled(x)'
BY OthersSame DEF Controlled, Unstarted, Binding, Stages, Closing, Holding

LEMMA ControlStep == ControlInv /\ [BNext]_bvars => ControlInv'
<1> SUFFICES ASSUME ControlInv, [BNext]_bvars PROVE ControlInv'
  OBVIOUS
<1>1. ASSUME NEW t \in Jobs, JobStep(t) PROVE ControlInv'
  <2>1. Binding(t)
    BY DEF ControlInv, Controlled
  <2>2. TypeOK' /\ JobTypes' /\ OtherJobs(t) /\ OtherTasks(t)
    BY <1>1, <2>1, StepFrame DEF ControlInv
  <2>3. Controlled(t)'
    BY <1>1, JobStepKeeps DEF ControlInv
  <2>4. \A x \in Jobs \ {t} : Controlled(x)'
    BY <2>2, OthersKeep DEF ControlInv
  <2>5. QED BY <2>2, <2>3, <2>4 DEF ControlInv
<1>2. CASE UNCHANGED bvars
  <2>1. /\ UNCHANGED <<vars, status, bound, upstream, queued, hidden, left>>
        /\ UNCHANGED <<retries, pc, seen, faults>>
    BY <1>2 DEF bvars, jobVars, upVars, ownerVars, actorVars
  <2>2. TypeOK'
    BY <2>1, OtherStepsType DEF ControlInv
  <2>3. UNCHANGED <<live, archive, phase>>
    BY <2>1 DEF vars, claimVars, taskVars
  <2>4. \A t \in Jobs : Controlled(t)'
    BY <2>1, <2>3 DEF ControlInv, Controlled, Unstarted, Binding, Stages, Closing, Holding,
       Captured, Released, Claimed
  <2>5. QED BY <2>1, <2>2, <2>4 DEF ControlInv, JobTypes
<1>3. QED BY <1>1, <1>2 DEF BNext, Ended

LEMMA ControlStarts == BInit => ControlInv
<1> SUFFICES ASSUME BInit PROVE ControlInv
  OBVIOUS
<1>1. TypeOK
  BY InitType DEF BInit
<1>2. JobTypes
  BY DEF BInit, JobTypes, Statuses, UpstreamStates, Actors, Calls, NoFunds, FundsRows
<1>3. ASSUME NEW t \in Jobs PROVE Controlled(t)
  <2>1. /\ ~Claimed(HoldClaim(t)) /\ ~Captured(t) /\ ~Released(t) /\ phase[t] = "none"
    BY JobsAreTasks, InitClaims DEF BInit, Captured, Released, Init, Jobs
  <2>2. QED BY <2>1 DEF BInit, Controlled, Unstarted, Binding, Stages, Closing, Holding,
           Delivering, Refunding, Unbound, Actors
<1>4. QED BY <1>1, <1>2, <1>3 DEF ControlInv

\* Nobody changes the status of a finished job but the clean-up of its output; the
\* record of a failed submission is written on jobs that are refunded.
LEMMA FinishedStep ==
  ASSUME TypeOK, JobTypes, NEW t \in Jobs, Controlled(t), JobStep(t), status[t] \in Terminal
  PROVE  \/ status'[t] = status[t]
         \/ status[t] \in Refunding /\ status'[t] = "failed"
         \/ status[t] = "completed" /\ status'[t] = "output_deleted"
<1> USE DEF At, Terminal, Refunding, Unbound, Delivering
<1>1. CASE Submit(t) \/ SubmitCreate(t) \/ Resubmit(t) \/ Retry(t)
  <2> USE Edges, BecomesAt
      DEF Controlled, Binding, Stages, Unstarted, JobTypes, Actors
  <2>1. CASE SubmitReserve(t) \/ SubmitItems(t) \/ SubmitPlatform(t) \/ SubmitEnqueue(t)
    BY <2>1 DEF SubmitReserve, SubmitItems, SubmitPlatform, SubmitEnqueue
  <2>2. CASE SubmitUpload(t) \/ SubmitSave(t)
    BY <2>2 DEF SubmitUpload, SubmitSave, Save
  <2>3. CASE SubmitRelease(t) \/ SubmitHide(t)
    BY <2>3 DEF SubmitRelease, SubmitHide
  <2>4. CASE SubmitRecord(t)
    BY <2>4 DEF SubmitRecord
  <2>5. CASE SubmitCreate(t) \/ Resubmit(t) \/ Retry(t)
    BY <2>5 DEF SubmitCreate, Resubmit, Retry
  <2>6. QED BY ONLY <1>1, <2>1, <2>2, <2>3, <2>4, <2>5 DEF Submit
<1>2. CASE Cancel(t) \/ Recovery(t)
  BY <1>2, Edges, BecomesAt, StatusFollows
  DEF Cancel, CancelRead, CancelTransition, CancelRelease, CancelProvider,
       Recovery, FailStale, StaleRelease,
       Controlled, Binding, Stages, Unstarted, JobTypes, Unsubmitted, Actors
<1>3. CASE Worker(t)
  BY <1>3, Edges, BecomesAt, StatusFollows
  DEF Worker, WorkerTake, WorkerPoll, WorkerIndex, WorkerRelease, WorkerCapture,
       WorkerMark, WorkerExhaust, WorkerExhaustFail, Ack, Requeue,
       Controlled, Binding, Stages, Unstarted, JobTypes, Unsubmitted, Actors
<1>4. CASE UpstreamEnds(t) \/ CleanOutput(t) \/ DeleteRecord(t) \/ Crash(t)
  BY <1>4, Edges, BecomesAt, StatusFollows
  DEF UpstreamEnds, CleanOutput, DeleteRecord, Crash,
       Controlled, Binding, Stages, Unstarted, JobTypes, Unsubmitted, Actors
<1>5. QED BY <1>1, <1>2, <1>3, <1>4 DEF JobStep

\* No late call of a submission, a worker, a recovery or a cancelling request takes a
\* finished job back to work or turns a charged job into a refunded one or back
\* (CanTransitionBatchImageJob, and RecordBatchImageJobSubmitFailure, which checks no
\* transition), whatever calls fail, lose their answers or crash.
THEOREM FinishedJobsStayFinished == BSpec => FinishedStaysFinished
<1> DEFINE A == \A t \in Jobs : status[t] \in Terminal =>
                  /\ status'[t] \in Terminal
                  /\ status[t] \in {"failed", "cancelled"}
                       <=> status'[t] \in {"failed", "cancelled"}
<1>1. ControlInv /\ [BNext]_bvars => [A]_bvars
  <2> SUFFICES ASSUME ControlInv, BNext PROVE A
    OBVIOUS
  <2>1. ASSUME NEW t \in Jobs, JobStep(t), status[t] \in Terminal
        PROVE  /\ status'[t] \in Terminal
               /\ status[t] \in {"failed", "cancelled"}
                    <=> status'[t] \in {"failed", "cancelled"}
    BY <2>1, FinishedStep DEF ControlInv, Terminal, Refunding
  <2>2. ASSUME NEW t \in Jobs, JobStep(t), NEW x \in Jobs \ {t} PROVE status'[x] = status[x]
    BY <2>2, StepFrame DEF ControlInv, Controlled, OtherJobs
  <2>3. CASE Ended
    BY <2>3 DEF Ended, bvars, jobVars
  <2>4. QED BY <2>1, <2>2, <2>3 DEF BNext
<1>2. FinishedStaysFinished <=> [][A]_bvars
  BY DEF FinishedStaysFinished
<1>3. QED BY <1>1, <1>2, ControlStarts, ControlStep, PTL DEF BSpec

-----------------------------------------------------------------------------
(* Refunds and the platform                                                   *)

\* Whose job is past running, or is refunded, is stopped at the platform.
StoppedAt(t) ==
  /\ bound[t] /\ status[t] \in {"indexing"} \cup Delivering \cup Refunding =>
       upstream[t] # "running"
  /\ pc[t]["worker"] = "index" => upstream[t] # "running"
  /\ bound[t] => pc[t]["cancel"] # "cancelTransition"

LEMMA StoppedStep ==
  ASSUME "bind-during-cancel" \notin Schedules,
         TypeOK, JobTypes, NEW t \in Jobs, Controlled(t), StoppedAt(t), JobStep(t)
  PROVE  StoppedAt(t)'
<1>1. CASE Submit(t) \/ SubmitCreate(t) \/ Resubmit(t) \/ Retry(t)
  BY <1>1, Edges, SubmitGoes, CancelGoes, WorkerGoes, RecoveryGoes, BecomesAt, CrashGoes,
     StatusFollows
  DEF Submit, SubmitReserve, SubmitItems, SubmitUpload, SubmitPlatform,
       SubmitSave, Save, SubmitEnqueue, SubmitRelease, SubmitRecord, SubmitHide,
       SubmitCreate, Resubmit, Retry,
       AbortOrphan, Controlled, Binding, Stages, Unstarted, StoppedAt, JobTypes,
       At, Terminal, Delivering, Refunding, Unbound, Unsubmitted, upVars, ownerVars, actorVars, Actors
<1>2. CASE Cancel(t) \/ Recovery(t)
  BY <1>2, Edges, SubmitGoes, CancelGoes, WorkerGoes, RecoveryGoes, BecomesAt, CrashGoes,
     StatusFollows
  DEF Cancel, CancelRead, CancelTransition, CancelRelease, CancelProvider,
       Recovery, FailStale, StaleRelease,
       AbortOrphan, Controlled, Binding, Stages, Unstarted, StoppedAt, JobTypes,
       At, Terminal, Delivering, Refunding, Unbound, Unsubmitted, upVars, ownerVars, actorVars, Actors
<1>3. CASE Worker(t)
  BY <1>3, Edges, SubmitGoes, CancelGoes, WorkerGoes, RecoveryGoes, BecomesAt, CrashGoes,
     StatusFollows
  DEF Worker, WorkerTake, WorkerPoll, WorkerIndex, WorkerRelease, WorkerCapture,
       WorkerMark, WorkerExhaust, WorkerExhaustFail, Ack, Requeue,
       AbortOrphan, Controlled, Binding, Stages, Unstarted, StoppedAt, JobTypes,
       At, Terminal, Delivering, Refunding, Unbound, Unsubmitted, upVars, ownerVars, actorVars, Actors
<1>4. CASE UpstreamEnds(t) \/ CleanOutput(t) \/ DeleteRecord(t) \/ Crash(t)
  BY <1>4, Edges, SubmitGoes, CancelGoes, WorkerGoes, RecoveryGoes, BecomesAt, CrashGoes,
     StatusFollows
  DEF UpstreamEnds, CleanOutput, DeleteRecord,
       AbortOrphan, Controlled, Binding, Stages, Unstarted, StoppedAt, JobTypes,
       At, Terminal, Delivering, Refunding, Unbound, Unsubmitted, upVars, ownerVars, actorVars, Actors
<1>5. QED BY <1>1, <1>2, <1>3, <1>4 DEF JobStep

LEMMA StoppedOther ==
  ASSUME NEW t \in Jobs, OtherJobs(t), OtherTasks(t), NEW x \in Jobs \ {t}, StoppedAt(x)
  PROVE  StoppedAt(x)'
BY OthersSame DEF StoppedAt

\* The hold of a job whose platform name is saved is given back only when the platform
\* no longer works on it (Cancel and ReleaseStaleUnsubmittedOnce release unbound jobs,
\* the worker releases after platform.Get): as long as a cancelling request that read the
\* job unbound decides before the name is saved.
THEOREM RefundsFollowTheStop ==
  ASSUME "bind-during-cancel" \notin Schedules
  PROVE  BSpec => []RefundedIsStopped
<1> DEFINE StoppedInv == ControlInv /\ \A t \in Jobs : StoppedAt(t)
<1>1. BInit => StoppedInv
  BY ControlStarts DEF BInit, StoppedAt, Actors
<1>2. StoppedInv /\ [BNext]_bvars => StoppedInv'
  <2> SUFFICES ASSUME StoppedInv, [BNext]_bvars PROVE StoppedInv'
    OBVIOUS
  <2>1. ControlInv'
    BY ControlStep
  <2>2. ASSUME NEW t \in Jobs, JobStep(t), NEW x \in Jobs PROVE StoppedAt(x)'
    <3>1. OtherJobs(t) /\ OtherTasks(t)
      BY <2>2, StepFrame DEF ControlInv, Controlled
    <3>2. StoppedAt(t)'
      BY <2>2, StoppedStep DEF ControlInv
    <3>3. QED BY <3>1, <3>2, StoppedOther
  <2>3. ASSUME UNCHANGED bvars, NEW x \in Jobs PROVE StoppedAt(x)'
    BY <2>3 DEF StoppedAt, bvars, jobVars, upVars, ownerVars, actorVars
  <2>4. QED BY <2>1, <2>2, <2>3 DEF BNext, Ended
<1>3. StoppedInv => RefundedIsStopped
  BY DEF ControlInv, Controlled, Binding, Closing, StoppedAt, RefundedIsStopped, Released,
     Delivering
<1>4. QED BY <1>1, <1>2, <1>3, PTL DEF BSpec

-----------------------------------------------------------------------------
(* Hidden jobs                                                                *)

\* A job its owner cannot find any more holds nothing.
HiddenClosed(t) ==
  /\ hidden[t] => pc[t]["submit"] = "idle" /\ status[t] # "none"
  /\ hidden[t] \/ pc[t]["submit"] \in {"record", "hide"} => ~Held(t)

\* What a call that leaves the money alone, or asks for a release, does to a hold.
LEMMA HeldShrinks ==
  ASSUME NEW t \in Jobs, NEW c \in BOOLEAN, NEW r \in BOOLEAN,
         ClaimsMove(t, FALSE, c, r), ~Held(t)
  PROVE  ~Held(t)'
BY DEF ClaimsMove, Held, Resolved, Released

LEMMA HiddenQuiet ==
  ASSUME "delete-record" \notin Schedules,
         TypeOK, JobTypes, NEW t \in Jobs, Controlled(t), HiddenClosed(t), QuietCall(t)
  PROVE  HiddenClosed(t)'
<1> DEFINE S == pc[t]["submit"]
           T == pc'[t]["submit"]
<1>1. ClaimsMove(t, FALSE, FALSE, FALSE)
  BY QuietMoney
<1>2. Held(t)' <=> Held(t)
  BY <1>1 DEF ClaimsMove, Held, Resolved, Released
<1>3. CASE SubmitHide(t)
  <2>1. S = "hide" /\ T = "idle" /\ status'[t] = status[t]
    BY <1>3, SubmitGoes DEF SubmitHide, At
  <2>2. status[t] # "none"
    BY <2>1 DEF Controlled, Unstarted, Actors
  <2>3. QED BY <1>2, <2>1, <2>2 DEF HiddenClosed
<1>4. CASE QuietSubmit(t) /\ ~SubmitHide(t)
  <2>1. /\ hidden'[t] = hidden[t]
        /\ S \in {"record", "hide"} \/ T \notin {"record", "hide"}
        /\ S = "idle" => T = "idle"
    BY <1>4, SubmitGoes, CancelGoes, RecoveryGoes
    DEF QuietSubmit, SubmitItems, SubmitUpload, SubmitPlatform, SubmitSave, Save, SubmitEnqueue,
        SubmitRecord, Resubmit, Retry, At, ownerVars, actorVars
  <2>2. status[t] # "none" => status'[t] # "none"
    BY <1>4, BecomesAt
    DEF QuietSubmit, SubmitItems, SubmitUpload, SubmitPlatform, SubmitSave, Save, SubmitEnqueue,
        SubmitRecord, Resubmit, Retry
  <2>3. QED BY <1>2, <2>1, <2>2 DEF HiddenClosed
<1>5. CASE QuietCancel(t)
  <2>1. /\ hidden'[t] = hidden[t] /\ T = S
        /\ status[t] # "none" => status'[t] # "none"
    BY <1>5, CancelGoes, RecoveryGoes, BecomesAt
    DEF QuietCancel, CancelRead, CancelTransition, CancelProvider, FailStale, ownerVars
  <2>2. QED BY <1>2, <2>1 DEF HiddenClosed
<1>6. CASE QuietWorker(t)
  <2>1. hidden'[t] = hidden[t] /\ T = S
    BY <1>6, WorkerGoes
    DEF QuietWorker, WorkerTake, WorkerPoll, WorkerIndex, WorkerMark, WorkerExhaustFail,
        Ack, Requeue, ownerVars
  <2>2. status[t] # "none" => status'[t] # "none"
    BY <1>6, BecomesAt, StatusFollows
    DEF QuietWorker, WorkerTake, WorkerPoll, WorkerIndex, WorkerMark, WorkerExhaustFail,
        Controlled, Binding, JobTypes, At
  <2>3. QED BY <1>2, <2>1, <2>2 DEF HiddenClosed
<1>7. CASE QuietOther(t)
  <2>1. /\ hidden'[t] = hidden[t] /\ T \in {S, "idle"}
        /\ status[t] # "none" => status'[t] # "none"
    BY <1>7, CrashGoes, BecomesAt
    DEF QuietOther, UpstreamEnds, CleanOutput, DeleteRecord, ownerVars, actorVars
  <2>2. QED BY <1>2, <2>1 DEF HiddenClosed
<1>8. QED BY <1>3, <1>4, <1>5, <1>6, <1>7 DEF QuietCall

LEMMA HiddenStep ==
  ASSUME "delete-record" \notin Schedules, "reserve" \notin LoseAt,
         TypeOK, JobTypes, NEW t \in Jobs, Controlled(t), HiddenClosed(t), JobStep(t)
  PROVE  HiddenClosed(t)'
<1> DEFINE S == pc[t]["submit"]
           T == pc'[t]["submit"]
<1>1. CASE QuietCall(t)
  BY <1>1, HiddenQuiet
<1>2. CASE SubmitCreate(t)
  <2>1. T = "reserve" /\ ~hidden'[t]
    BY <1>2, SubmitGoes DEF SubmitCreate, ownerVars, Controlled, Unstarted
  <2>2. QED BY <2>1 DEF HiddenClosed
<1>3. CASE SubmitReserve(t)
  <2>1. S = "reserve" /\ hidden'[t] = hidden[t]
    BY <1>3 DEF SubmitReserve, At
  <2>2. T = "items" \/ (T = "record" /\ UNCHANGED vars)
    BY <1>3, SubmitGoes DEF SubmitReserve, Fault
  <2>3. ~hidden[t] /\ ~Held(t)
    BY <2>1 DEF HiddenClosed, Controlled, Holding, Held
  <2>4. UNCHANGED vars => ~Held(t)'
    BY <2>3, NoMoney, HeldShrinks
  <2>5. QED BY <2>1, <2>2, <2>3, <2>4 DEF HiddenClosed
<1>4. CASE SubmitRelease(t)
  <2>1. S \in {"compensate", "giveBack"} /\ hidden'[t] = hidden[t]
    BY <1>4 DEF SubmitRelease, ownerVars, At
  <2>2. ReleaseSucceeds(t, row[t]) \/ T = "recordRetry"
    BY <1>4, SubmitGoes DEF SubmitRelease
  <2>3. ReleaseSucceeds(t, row[t]) => ~Held(t)'
    BY ReleaseMoves DEF ClaimsMove, Held, Resolved, Released
  <2>4. QED BY <2>1, <2>2, <2>3 DEF HiddenClosed
<1>5. CASE CancelRelease(t) \/ StaleRelease(t) \/ WorkerRelease(t) \/ WorkerExhaust(t)
  <2>1. hidden'[t] = hidden[t] /\ T = S /\ status'[t] = status[t]
    BY <1>5, CancelGoes, RecoveryGoes, WorkerGoes
    DEF CancelRelease, StaleRelease, WorkerRelease, WorkerExhaust, Ack, Requeue, ownerVars
  <2>2. ClaimsMove(t, FALSE, FALSE, TRUE) \/ ClaimsMove(t, FALSE, FALSE, FALSE)
    BY <1>5, ReleaseMoves DEF CancelRelease, StaleRelease, WorkerRelease, WorkerExhaust
  <2>3. ~Held(t) => ~Held(t)'
    BY <2>2, HeldShrinks
  <2>4. QED BY <2>1, <2>3 DEF HiddenClosed
<1>6. CASE WorkerCapture(t)
  <2>1. hidden'[t] = hidden[t] /\ T = S /\ status'[t] = status[t]
    BY <1>6, WorkerGoes DEF WorkerCapture, ownerVars
  <2>2. CaptureOnce(t) \/ UNCHANGED vars
    BY <1>6 DEF WorkerCapture, CaptureFails
  <2>3. ~Held(t) => ~Held(t)'
    BY <2>2, NoMoney, CaptureOnceMoney, HeldShrinks
  <2>4. QED BY <2>1, <2>3 DEF HiddenClosed
<1>7. QED BY <1>1, <1>2, <1>3, <1>4, <1>5, <1>6
         DEF JobStep, Submit, Cancel, Worker, Recovery, QuietCall, QuietSubmit,
             QuietCancel, QuietWorker, QuietOther

LEMMA HiddenOther ==
  ASSUME NEW t \in Jobs, OtherJobs(t), OtherTasks(t), NEW x \in Jobs \ {t},
         HiddenClosed(x)
  PROVE  HiddenClosed(x)'
BY OthersSame DEF HiddenClosed, Held, Resolved, Released

\* A job that may still come to a hold, or has one.
Pending(t) == (Claimed(HoldClaim(t)) \/ pc[t]["submit"] = "reserve") /\ ~Resolved(t)

\* The calls after which nobody comes back to a job that is not queued.
LastCall(t) ==
  \/ pc[t]["submit"] \in {"enqueue", "retry"}
  \/ pc[t]["cancel"] \in {"retry", "cancelRelease"}
  \/ pc[t]["recovery"] \in {"retry", "staleRelease"}

\* The worker works on queued jobs, and drops one only when its hold is closed; a hold
\* that is not queued is unsubmitted, about to be closed or queued, or left.
Tended(t) ==
  /\ pc[t]["worker"] # "idle" => queued[t]
  /\ pc[t]["worker"] = "exhaustFail" => Released(t)
  /\ Pending(t) => queued[t] \/ left[t] \/ status[t] \in Unbound \/ LastCall(t)

LEMMA PendingQuiet ==
  ASSUME TypeOK, NEW t \in Jobs, QuietCall(t),
         pc'[t]["submit"] = "reserve" => pc[t]["submit"] = "reserve"
  PROVE  /\ Pending(t)' => Pending(t)
         /\ Released(t)' <=> Released(t)
         /\ Captured(t)' <=> Captured(t)
BY QuietMoney DEF Pending, ClaimsMove, Resolved, Released

LEMMA LeaveTends ==
  ASSUME JobTypes, NEW t \in Jobs, Leave(t), UNCHANGED queued
  PROVE  queued'[t] \/ left'[t]
BY DEF JobTypes, Leave

LEMMA EnqueueTends ==
  ASSUME JobTypes, NEW t \in Jobs, Enqueue(t)
  PROVE  queued'[t]
BY DEF JobTypes, Enqueue

LEMMA TendedSubmit ==
  ASSUME TypeOK, JobTypes, NEW t \in Jobs, Controlled(t), HiddenClosed(t), Tended(t),
         QuietSubmit(t)
  PROVE  Tended(t)'
<1> DEFINE S == pc[t]["submit"]
           T == pc'[t]["submit"]
<1>1. /\ T = "reserve" => S = "reserve"
      /\ pc'[t]["worker"] = pc[t]["worker"]
      /\ queued[t] => queued'[t]
  BY SubmitGoes, CancelGoes, RecoveryGoes, EnqueueTends
  DEF QuietSubmit, SubmitItems, SubmitUpload, SubmitPlatform, SubmitSave, SubmitEnqueue,
      SubmitRecord, SubmitHide, Resubmit, Retry, At, actorVars
<1>2. /\ Pending(t)' => Pending(t)
      /\ Released(t)' <=> Released(t)
  BY <1>1, PendingQuiet DEF QuietCall
<1>3. SUFFICES ASSUME Pending(t)'
               PROVE  queued'[t] \/ left'[t] \/ status'[t] \in Unbound \/ LastCall(t)'
  BY <1>1, <1>2 DEF Tended
<1>4. queued[t] \/ left[t] \/ status[t] \in Unbound \/ LastCall(t)
  BY <1>2, <1>3 DEF Tended
<1>5. CASE SubmitItems(t) \/ SubmitUpload(t) \/ SubmitPlatform(t)
  <2>1. /\ left' = left /\ queued' = queued
        /\ S \notin {"enqueue", "retry"}
        /\ pc'[t]["cancel"] = pc[t]["cancel"] /\ pc'[t]["recovery"] = pc[t]["recovery"]
        /\ status'[t] = status[t] \/ status'[t] = "uploading"
    BY <1>5, SubmitGoes, BecomesAt
    DEF SubmitItems, SubmitUpload, SubmitPlatform, At, ownerVars
  <2>2. QED BY <1>4, <2>1 DEF LastCall, Unbound
<1>6. CASE SubmitSave(t)
  <2>1. CASE T = "enqueue"
    BY <2>1 DEF LastCall
  <2>2. CASE Leave(t)
    BY <1>6, <2>2, LeaveTends DEF SubmitSave
  <2>3. CASE UNCHANGED <<left, queued, status>> /\ Goto(t, "submit", "idle")
    BY <1>4, <1>6, <2>3, SubmitGoes DEF SubmitSave, At, LastCall
  <2>4. QED BY <1>6, <2>1, <2>2, <2>3, SubmitGoes DEF SubmitSave
<1>7. CASE SubmitEnqueue(t)
  BY <1>7, LeaveTends, EnqueueTends DEF SubmitEnqueue
<1>8. CASE SubmitRecord(t)
  <2>1. CASE S = "recordRetry"
    BY <1>8, <2>1, SubmitGoes DEF SubmitRecord, At, LastCall
  <2>2. CASE S = "record"
    <3>1. ~Claimed(HoldClaim(t))' /\ T # "reserve"
      <4>1. ~Held(t) /\ T = "hide"
        BY <1>8, <2>2, SubmitGoes DEF SubmitRecord, At, HiddenClosed
      <4>2. ~Claimed(HoldClaim(t))
        BY <1>2, <1>3, <4>1 DEF Pending, Held
      <4>3. QED BY <1>8, <4>1, <4>2, QuietMoney DEF QuietCall, QuietSubmit, ClaimsMove
    <3>2. QED BY <1>3, <3>1 DEF Pending
  <2>3. QED BY <1>8, <2>1, <2>2 DEF SubmitRecord, At
<1>9. CASE SubmitHide(t)
  BY <1>4, <1>9, SubmitGoes DEF SubmitHide, At, LastCall
<1>10. CASE Resubmit(t)
  BY <1>10, EnqueueTends DEF Resubmit
<1>11. CASE Retry(t)
  BY <1>11, LeaveTends, EnqueueTends DEF Retry
<1>12. QED BY <1>5, <1>6, <1>7, <1>8, <1>9, <1>10, <1>11 DEF QuietSubmit

LEMMA TendedCancel ==
  ASSUME TypeOK, JobTypes, NEW t \in Jobs, Controlled(t), Tended(t), QuietCancel(t)
  PROVE  Tended(t)'
<1>1. /\ pc'[t]["submit"] = pc[t]["submit"] /\ pc'[t]["worker"] = pc[t]["worker"]
      /\ queued' = queued
  BY CancelGoes, RecoveryGoes
  DEF QuietCancel, CancelRead, CancelTransition, CancelProvider, FailStale
<1>2. /\ Pending(t)' => Pending(t)
      /\ Released(t)' <=> Released(t)
  BY <1>1, PendingQuiet DEF QuietCall
<1>3. SUFFICES ASSUME Pending(t)'
               PROVE  queued'[t] \/ left'[t] \/ status'[t] \in Unbound \/ LastCall(t)'
  BY <1>1, <1>2 DEF Tended
<1>4. queued[t] \/ left[t] \/ status[t] \in Unbound \/ LastCall(t)
  BY <1>2, <1>3 DEF Tended
<1>5. CASE CancelRead(t) \/ CancelProvider(t)
  BY <1>1, <1>4, <1>5, CancelGoes DEF CancelRead, CancelProvider, At, LastCall, ownerVars
<1>6. CASE CancelTransition(t)
  <2>1. CASE Leave(t)
    BY <1>1, <2>1, LeaveTends
  <2>2. CASE Goto(t, "cancel", "cancelRelease")
    BY <2>2, CancelGoes DEF LastCall
  <2>3. CASE UNCHANGED <<left, status>> /\ Goto(t, "cancel", "idle")
    BY <1>1, <1>4, <1>6, <2>3, CancelGoes DEF CancelTransition, At, LastCall
  <2>4. QED BY <1>6, <2>1, <2>2, <2>3 DEF CancelTransition
<1>7. CASE FailStale(t)
  BY <1>1, <1>7, LeaveTends, RecoveryGoes DEF FailStale, LastCall
<1>8. QED BY <1>5, <1>6, <1>7 DEF QuietCancel

LEMMA TendedWorker ==
  ASSUME TypeOK, JobTypes, NEW t \in Jobs, Controlled(t), Tended(t),
         QuietWorker(t) \/ WorkerRelease(t) \/ WorkerExhaust(t) \/ WorkerCapture(t)
  PROVE  Tended(t)'
<1>1. queued[t]
  BY DEF QuietWorker, WorkerTake, WorkerPoll, WorkerIndex, WorkerMark, WorkerExhaustFail,
     WorkerRelease, WorkerExhaust, WorkerCapture, At, Tended
<1>2. CASE UNCHANGED queued
  <2>1. pc'[t]["worker"] = "exhaustFail" => Released(t)'
    <3>1. CASE QuietWorker(t) \/ WorkerRelease(t) \/ WorkerCapture(t)
      <4>1. CASE WorkerPoll(t)
        <5>1. AfterPoll(upstream[t]) \in {"idle", "index", "terminalRelease"}
          BY <4>1, StatusFollows DEF WorkerPoll, Controlled, Binding, JobTypes, At
        <5>2. pc'[t]["worker"] \in {"idle", AfterPoll(upstream[t])}
          BY <4>1, WorkerGoes DEF WorkerPoll
        <5>3. QED BY <5>1, <5>2
      <4>2. CASE ~WorkerPoll(t)
        BY <3>1, <4>2, WorkerGoes
        DEF QuietWorker, WorkerTake, WorkerIndex, WorkerMark,
            WorkerExhaustFail, WorkerRelease, WorkerCapture, Ack, Requeue
      <4>3. QED BY <4>1, <4>2
    <3>2. CASE WorkerExhaust(t)
      <4>1. ReleaseSucceeds(t, row[t]) \/ pc'[t]["worker"] = "idle"
        BY <3>2, WorkerGoes DEF WorkerExhaust
      <4>2. ReleaseSucceeds(t, row[t]) => ClaimsMove(t, FALSE, FALSE, TRUE)
        BY ReleaseMoves
      <4>3. QED BY <4>1, <4>2 DEF ClaimsMove
    <3>3. QED BY <3>1, <3>2
  <2>2. queued'[t]
    BY <1>1, <1>2
  <2>3. QED BY <2>1, <2>2 DEF Tended
<1>3. CASE Ack(t)
  <2>1. pc'[t]["worker"] = "idle"
    BY <1>3, WorkerGoes DEF Ack
  <2>2. Resolved(t)'
    <3>1. CASE QuietWorker(t)
      <4>1. Captured(t) \/ Released(t)
        <5>1. CASE WorkerTake(t)
          <6>1. status[t] \in {"completed", "output_deleted"}
            BY <1>1, <1>3, <5>1 DEF WorkerTake, Ack, JobTypes
          <6>2. QED BY <6>1 DEF Controlled, Closing
        <5>2. CASE WorkerMark(t)
          BY <5>2 DEF WorkerMark, At, Controlled, Stages
        <5>3. CASE WorkerExhaustFail(t)
          BY <5>3 DEF WorkerExhaustFail, At, Tended
        <5>4. CASE WorkerPoll(t) \/ WorkerIndex(t)
          BY <1>1, <1>3, <5>4 DEF WorkerPoll, WorkerIndex, Ack, JobTypes
        <5>5. QED BY <3>1, <5>1, <5>2, <5>3, <5>4 DEF QuietWorker
      <4>2. (Captured(t)' <=> Captured(t)) /\ (Released(t)' <=> Released(t))
        BY <3>1, QuietMoney DEF QuietCall, ClaimsMove
      <4>3. QED BY <4>1, <4>2 DEF Resolved, Released
    <3>2. CASE WorkerRelease(t)
      <4>1. ReleaseSucceeds(t, row[t])
        BY <1>1, <1>3, <3>2 DEF WorkerRelease, Ack, Requeue, JobTypes
      <4>2. QED BY <4>1, ReleaseMoves DEF ClaimsMove, Resolved, Released
    <3>3. CASE WorkerExhaust(t) \/ WorkerCapture(t)
      BY <1>1, <1>3, <3>3 DEF WorkerExhaust, WorkerCapture, Ack, JobTypes
    <3>4. QED BY <3>1, <3>2, <3>3
  <2>3. QED BY <2>1, <2>2 DEF Tended, Pending
<1>4. UNCHANGED queued \/ Ack(t)
  BY DEF QuietWorker, WorkerTake, WorkerPoll, WorkerIndex, WorkerMark, WorkerExhaustFail,
     WorkerRelease, WorkerExhaust, WorkerCapture, Requeue
<1>5. QED BY <1>2, <1>3, <1>4

LEMMA TendedOther ==
  ASSUME TypeOK, JobTypes, NEW t \in Jobs, Controlled(t), Tended(t), QuietOther(t)
  PROVE  Tended(t)'
<1>1. /\ pc'[t]["submit"] \in {pc[t]["submit"], "idle"}
      /\ pc'[t]["worker"] \in {pc[t]["worker"], "idle"}
      /\ queued' = queued
  BY CrashGoes DEF QuietOther, UpstreamEnds, CleanOutput, DeleteRecord, Crash, actorVars
<1>2. /\ Pending(t)' => Pending(t)
      /\ Released(t)' <=> Released(t)
  BY <1>1, PendingQuiet DEF QuietCall
<1>3. SUFFICES ASSUME Pending(t)'
               PROVE  queued'[t] \/ left'[t] \/ status'[t] \in Unbound \/ LastCall(t)'
  BY <1>1, <1>2 DEF Tended
<1>4. queued[t] \/ left[t] \/ status[t] \in Unbound \/ LastCall(t)
  BY <1>2, <1>3 DEF Tended
<1>5. CASE UpstreamEnds(t) \/ CleanOutput(t) \/ DeleteRecord(t)
  BY <1>1, <1>4, <1>5
  DEF UpstreamEnds, CleanOutput, DeleteRecord, ownerVars, actorVars, LastCall, Unbound,
      JobTypes, Becomes
<1>6. CASE Crash(t)
  <2>1. PICK a \in Actors : /\ Goto(t, a, "idle")
                            /\ IF pc[t][a] \in LastCalls THEN Leave(t) ELSE UNCHANGED left
    BY <1>6 DEF Crash
  <2>2. status' = status
    BY <1>6 DEF Crash
  <2>3. CASE Leave(t)
    BY <1>1, <2>3, LeaveTends
  <2>4. CASE UNCHANGED left /\ pc[t][a] \notin LastCalls
    <3>1. LastCall(t) => LastCall(t)'
      BY <2>1, <2>4, SubmitGoes, CancelGoes, WorkerGoes, RecoveryGoes
      DEF LastCall, LastCalls, Actors
    <3>2. QED BY <1>1, <1>4, <2>2, <2>4, <3>1
  <2>5. QED BY <2>1, <2>3, <2>4
<1>7. QED BY <1>5, <1>6 DEF QuietOther

LEMMA TendedRelease ==
  ASSUME TypeOK, JobTypes, NEW t \in Jobs, Controlled(t), Tended(t),
         SubmitRelease(t) \/ CancelRelease(t) \/ StaleRelease(t)
  PROVE  Tended(t)'
<1>1. /\ pc'[t]["submit"] = "reserve" => pc[t]["submit"] = "reserve"
      /\ pc'[t]["worker"] = pc[t]["worker"]
      /\ UNCHANGED <<queued, left, status>>
  BY SubmitGoes, CancelGoes, RecoveryGoes
  DEF SubmitRelease, CancelRelease, StaleRelease, ownerVars
<1>2. PICK s \in {row[t], seen[t]}, c \in Calls :
        ReleaseSucceeds(t, s) \/ ReleaseFails(t, s, c)
  BY DEF SubmitRelease, CancelRelease, StaleRelease, Calls
<1>3. ClaimsMove(t, FALSE, FALSE, TRUE) \/ ClaimsMove(t, FALSE, FALSE, FALSE)
  BY <1>2, ReleaseMoves
<1>4. /\ Released(t) => Released(t)'
      /\ Pending(t)' => Pending(t)
  BY <1>1, <1>3 DEF ClaimsMove, Pending, Resolved, Released
<1>5. SUFFICES ASSUME Pending(t)'
               PROVE  queued'[t] \/ left'[t] \/ status'[t] \in Unbound \/ LastCall(t)'
  BY <1>1, <1>4 DEF Tended
<1>6. queued[t] \/ left[t] \/ status[t] \in Unbound \/ LastCall(t)
  BY <1>4, <1>5 DEF Tended
<1>7. \A r \in {row[t], seen[t]} : ~ReleaseSucceeds(t, r)
  BY <1>5, ReleaseMoves DEF ClaimsMove, Pending, Resolved, Released
<1>8. LastCall(t) => LastCall(t)'
  BY <1>7, SubmitGoes, CancelGoes, RecoveryGoes
  DEF SubmitRelease, CancelRelease, StaleRelease, At, LastCall
<1>9. QED BY <1>1, <1>6, <1>8

LEMMA TendedStep ==
  ASSUME TypeOK, JobTypes, NEW t \in Jobs, Controlled(t), HiddenClosed(t), Tended(t),
         JobStep(t)
  PROVE  Tended(t)'
<1>1. CASE SubmitCreate(t)
  <2>1. /\ status'[t] = "created"
        /\ pc[t]["worker"] = "idle" /\ pc'[t]["worker"] = "idle"
    BY <1>1, SubmitGoes, BecomesAt DEF SubmitCreate, Controlled, Unstarted, Actors
  <2>2. QED BY <2>1 DEF Tended, Unbound
<1>2. CASE SubmitReserve(t)
  <2>1. /\ pc[t]["submit"] = "reserve"
        /\ pc'[t]["submit"] \in {"items", "record"}
        /\ pc'[t]["cancel"] = pc[t]["cancel"] /\ pc'[t]["recovery"] = pc[t]["recovery"]
        /\ pc'[t]["worker"] = pc[t]["worker"]
        /\ UNCHANGED <<queued, status>>
    BY <1>2, SubmitGoes DEF SubmitReserve, At
  <2>2. left[t] => left'[t]
    BY <1>2 DEF SubmitReserve, Leave, JobTypes
  <2>3. /\ Released(t)' <=> Released(t)
        /\ Captured(t)' <=> Captured(t)
    BY <1>2, ReserveMoneyOf, NoMoney DEF SubmitReserve, ClaimsMove
  <2>4. Pending(t)' => Pending(t)
    BY <2>1, <2>3 DEF Pending, Resolved, Released
  <2>5. LastCall(t) => LastCall(t)'
    BY <2>1 DEF LastCall
  <2>6. QED BY <2>1, <2>2, <2>3, <2>4, <2>5 DEF Tended
<1>3. CASE ~SubmitCreate(t) /\ ~SubmitReserve(t)
  BY <1>3, CallKinds, TendedSubmit, TendedCancel, TendedWorker, TendedOther, TendedRelease
  DEF QuietCall, ReleaseCall
<1>4. QED BY <1>1, <1>2, <1>3

LEMMA TendedElsewhere ==
  ASSUME NEW t \in Jobs, OtherJobs(t), OtherTasks(t), NEW x \in Jobs \ {t}, Tended(x)
  PROVE  Tended(x)'
BY OthersSame DEF Tended, Pending, LastCall, Resolved, Released

\* A held job is in the worker's queue, unsubmitted and so the recovery's, about to be
\* released or queued by an actor, or was left by such an actor (Leave); a job that was
\* left is not hidden from its owner, who can cancel or submit it again, for hiding it
\* follows the release (HidePreUpstreamSubmitFailure in Submit).  This holds whatever
\* crashes or loses its answer, as long as no reservation takes effect behind an error
\* and the owner deletes no record that still holds.
THEOREM HoldsKeepACloser ==
  ASSUME "delete-record" \notin Schedules, "reserve" \notin LoseAt
  PROVE  BSpec => []HoldHasACloser
<1> DEFINE Closable(t) == HiddenClosed(t) /\ Tended(t)
           CloserInv == ControlInv /\ \A t \in Jobs : Closable(t)
<1>1. BInit => CloserInv
  <2> SUFFICES ASSUME BInit PROVE CloserInv
    OBVIOUS
  <2>1. ControlInv
    BY ControlStarts
  <2>2. ASSUME NEW t \in Jobs PROVE HiddenClosed(t) /\ Tended(t)
    <3>1. ~Claimed(HoldClaim(t))
      BY JobsAreTasks, InitClaims DEF BInit, Init, Jobs
    <3>2. ~hidden[t] /\ pc[t]["submit"] = "idle" /\ pc[t]["worker"] = "idle"
      BY DEF BInit, Actors
    <3>3. QED BY <3>1, <3>2 DEF HiddenClosed, Tended, Pending
  <2>3. QED BY <2>1, <2>2
<1>2. CloserInv /\ [BNext]_bvars => CloserInv'
  <2> SUFFICES ASSUME CloserInv, [BNext]_bvars PROVE CloserInv'
    OBVIOUS
  <2>1. ControlInv'
    BY ControlStep
  <2>2. ASSUME NEW t \in Jobs, JobStep(t), NEW x \in Jobs PROVE Closable(x)'
    <3>1. OtherJobs(t) /\ OtherTasks(t)
      BY <2>2, StepFrame DEF ControlInv, Controlled
    <3>2. Closable(t)'
      BY <2>2, HiddenStep, TendedStep DEF ControlInv
    <3>3. QED BY <3>1, <3>2, HiddenOther, TendedElsewhere
  <2>3. ASSUME UNCHANGED bvars, NEW x \in Jobs PROVE Closable(x)'
    <3>1. UNCHANGED <<live, archive, status, queued, hidden, left, pc>>
      BY <2>3 DEF bvars, jobVars, ownerVars, actorVars, vars, claimVars
    <3>2. QED BY <3>1 DEF HiddenClosed, Tended, Pending, LastCall, Held, Resolved, Released,
             Captured, Claimed
  <2>4. QED BY <2>1, <2>2, <2>3 DEF BNext, Ended
<1>3. CloserInv => HoldHasACloser
  <2> SUFFICES ASSUME CloserInv, NEW t \in Jobs, Held(t)
               PROVE  \/ queued[t] \/ Unsubmitted(t)
                      \/ \E a \in Actors : pc[t][a] \in LastCalls
                      \/ left[t] /\ ~hidden[t]
    BY DEF HoldHasACloser
  <2>1. queued[t] \/ left[t] \/ status[t] \in Unbound \/ LastCall(t)
    BY DEF Tended, Pending, Held
  <2>2. ~hidden[t]
    BY DEF HiddenClosed
  <2>3. status[t] \in Unbound => Unsubmitted(t)
    BY DEF ControlInv, Controlled, Binding, Unsubmitted, Unbound
  <2>4. LastCall(t) => \E a \in Actors : pc[t][a] \in LastCalls
    BY DEF LastCall, LastCalls, Actors
  <2>5. QED BY <2>1, <2>2, <2>3, <2>4
<1>4. QED BY <1>1, <1>2, <1>3, PTL DEF BSpec

-----------------------------------------------------------------------------
(* The money of the jobs.                                                     *)

\* Too few faults to exhaust the settlement of a job that was captured: a lost answer
\* of the capture costs one retry, as every other fault does.
FewFaults ==
  MaxFaults < MaxRetries \/ ("capture" \notin LoseAt /\ MaxFaults <= MaxRetries)

\* While the request reserves, nobody else has asked for the job's money.
NobodyBefore(t) ==
  pc[t]["submit"] = "reserve" =>
    /\ status[t] = "created" /\ pc[t]["cancel"] = "idle"
    /\ ~Captured(t) /\ ~Released(t)

\* What a cancelling request has read of the hold is still what the row says.
SeenIsRow(t) ==
  pc[t]["cancel"] \in {"cancelTransition", "cancelRelease"} => SameHold(seen[t], row[t])

\* A captured job is not refunded: every retry of its settlement has cost a fault.
Counted(t) ==
  /\ retries[t] <= faults
  /\ Captured(t) => status[t] \in Delivering
  /\ "capture" \notin LoseAt /\ Captured(t) /\ status[t] = "settling"
       /\ pc[t]["worker"] # "mark" => retries[t] < faults

Sound(t) == NobodyBefore(t) /\ SeenIsRow(t) /\ Counted(t)
FundsKept == RowsRecordHolds /\ FrozenIsOutstanding
JobFundsInv == ControlInv /\ FundsKept /\ \A t \in Jobs : Sound(t)

LEMMA SettlesInTime ==
  ASSUME FewFaults, JobTypes, NEW t \in Jobs, Counted(t), Captured(t),
         status[t] = "settling", pc[t]["worker"] # "mark"
  PROVE  retries[t] < MaxRetries
<1>1. retries[t] \in Nat /\ faults \in Nat /\ faults <= MaxFaults
  BY DEF JobTypes
<1>2. QED BY <1>1 DEF FewFaults, Counted

LEMMA FundsStay ==
  ASSUME FundsKept, UNCHANGED vars
  PROVE  FundsKept'
<1>1. UNCHANGED <<live, archive, row, frozen>>
  BY DEF vars, wallet, claimVars, taskVars
<1>2. RowsRecordHolds'
  BY <1>1 DEF FundsKept, RowsRecordHolds, Claimed
<1>3. \A x \in Tasks : Outstanding'[x] = Outstanding[x]
  BY <1>1, OutstandingSame DEF Claimed
<1>4. QED BY <1>1, <1>2, <1>3, FrozenFollowsNone DEF FundsKept

LEMMA CreateHolds ==
  ASSUME TypeOK, FundsKept, NEW t \in Jobs, CreateTask(t), ~Claimed(HoldClaim(t))
  PROVE  FundsKept'
<1>1. t \in Tasks /\ OtherTasks(t) /\ ~Claimed(HoldClaim(t))' /\ UNCHANGED frozen
  BY JobsAreTasks, CreateMoney DEF ClaimsMove, CreateTask, wallet
<1>2. RecordsHold(t)'
  BY <1>1 DEF RecordsHold
<1>3. RowsRecordHolds'
  BY <1>1, <1>2, RowsPerTask DEF FundsKept, OtherTasks
<1>4. ASSUME NEW x \in Tasks PROVE Outstanding'[x] = Outstanding[x]
  <2>1. CASE x = t
    BY <1>1, <2>1 DEF Outstanding, Held
  <2>2. CASE x # t
    BY <1>1, <2>2, OutstandingSame DEF OtherTasks, ClaimsSame
  <2>3. QED BY <2>1, <2>2
<1>5. QED BY <1>1, <1>3, <1>4, FrozenFollowsNone DEF FundsKept

\* A release from the columns of the row, or from a true copy of them.
LEMMA ReleaseThaws ==
  ASSUME TypeOK, FundsKept, NEW t \in Jobs, NEW s \in FundsRows, SameHold(s, row[t]),
         ~Captured(t), ReleaseOnce(t, s)
  PROVE  FundsKept'
<1>1. t \in Tasks
  BY JobsAreTasks
<1>2. CASE ~Fresh(ReleaseClaim(t))
  <2>1. UNCHANGED vars
    BY <1>2 DEF ReleaseOnce
  <2>2. QED BY <2>1, FundsStay
<1>3. CASE Fresh(ReleaseClaim(t))
  <2>1. ReleaseFunds(t, s) /\ Take(ReleaseClaim(t), Plain) /\ ~Released(t)
    BY <1>3 DEF ReleaseOnce, Fresh, Released, Claimed
  <2>2. row' = [row EXCEPT ![t].allow = FALSE]
    BY <2>1 DEF ReleaseFunds
  <2>3. /\ \A x \in Tasks \ {t} : ClaimsSame(x)
        /\ Claimed(HoldClaim(t))' <=> Claimed(HoldClaim(t))
        /\ Claimed(ReleaseClaim(t))'
    BY <1>1, <2>1, TakeOfTask DEF HoldClaim, CaptureClaim, ReleaseClaim
  <2>4. WalletHold(s) = WalletHold(row[t])
    BY DEF SameHold, WalletHold
  <2>5. frozen' = IF Held(t)
                  THEN [frozen EXCEPT ![PayerOf[t]] = @ - WalletHold(row[t])]
                  ELSE frozen
    BY <2>1, <2>4 DEF ReleaseFunds, ReleaseBalance, wallet, Held, Resolved, Released
  <2>6. QED BY <1>1, <2>2, <2>3, <2>5, EndThaws DEF FundsKept
<1>4. QED BY <1>2, <1>3

LEMMA CaptureThaws ==
  ASSUME TypeOK, FundsKept, NEW t \in Jobs, Claimed(HoldClaim(t)), ~Released(t),
         CaptureOnce(t)
  PROVE  FundsKept'
<1>1. t \in Tasks /\ ActualOfJob[t] \in Nat
  BY JobsAreTasks
<1>2. CASE ~Fresh(CaptureClaim(t))
  <2>1. UNCHANGED vars
    BY <1>2 DEF CaptureOnce
  <2>2. QED BY <2>1, FundsStay
<1>3. CASE Fresh(CaptureClaim(t))
  <2>1. /\ CaptureFunds(t, row[t], ActualOfJob[t])
        /\ Take(CaptureClaim(t), ActualOfJob[t]) /\ ~Captured(t)
    BY <1>3 DEF CaptureOnce, Fresh, Captured, Claimed
  <2>2. /\ row' = [row EXCEPT ![t].allow = FALSE]
        /\ frozen' = [frozen EXCEPT ![PayerOf[t]] = @ - WalletHold(row[t])]
    BY <2>1 DEF CaptureFunds, CaptureBalance, CaptureAllowance
  <2>3. /\ \A x \in Tasks \ {t} : ClaimsSame(x)
        /\ Claimed(HoldClaim(t))' <=> Claimed(HoldClaim(t))
        /\ Claimed(CaptureClaim(t))'
    BY <1>1, <2>1, TakeOfTask DEF HoldClaim, CaptureClaim, ReleaseClaim
  <2>4. Held(t)
    BY <2>1 DEF Held, Resolved, Released
  <2>5. QED BY <1>1, <2>2, <2>3, <2>4, EndThaws DEF FundsKept
<1>4. QED BY <1>2, <1>3

\* A held job's payer has its wallet part frozen: no release or capture falls short.
LEMMA FrozenSuffices ==
  ASSUME TypeOK, FundsKept, NEW t \in Jobs, Held(t)
  PROVE  ~FrozenShort(t, row[t])
<1> DEFINE u == PayerOf[t]
<1>1. t \in TasksOf(u) /\ IsFiniteSet(TasksOf(u)) /\ u \in Users
  <2>1. t \in Tasks /\ u \in Users
    BY JobsAreTasks, Members
  <2>2. TasksOf(u) \subseteq Tasks /\ IsFiniteSet(Tasks)
    BY FiniteAssumption DEF TasksOf
  <2>3. QED BY <2>1, <2>2, FS_Subset DEF TasksOf
<1>2. \A x \in TasksOf(u) : Outstanding[x] \in Nat
  BY OutstandingNat DEF TasksOf, FundsKept
<1>3. Outstanding[t] <= Total(Outstanding, TasksOf(u))
  BY <1>1, <1>2, TotalBounds
<1>4. Outstanding[t] = WalletHold(row[t])
  BY JobsAreTasks DEF FundsKept, RowsRecordHolds, Outstanding, Held
<1>5. WalletHold(row[t]) \in Nat /\ frozen[u] \in Nat
  <2>1. row[t] \in FundsRows
    BY JobsAreTasks DEF TypeOK, TaskTypeOK
  <2>2. QED BY <1>1, <2>1, WalletHoldType DEF TypeOK, WalletTypeOK
<1>6. frozen[u] = Total(Outstanding, TasksOf(u))
  BY <1>1 DEF FundsKept, FrozenIsOutstanding
<1>7. QED BY <1>3, <1>4, <1>5, <1>6 DEF FrozenShort

LEMMA QuietVars ==
  ASSUME NEW t \in Jobs, QuietCall(t)
  PROVE  UNCHANGED vars
BY DEF QuietCall, QuietSubmit, QuietCancel, QuietWorker, QuietOther,
   SubmitItems, SubmitUpload, SubmitPlatform, SubmitSave, Save, SubmitEnqueue,
   SubmitRecord, SubmitHide, Resubmit, Retry,
   CancelRead, CancelTransition, CancelProvider, FailStale,
   WorkerTake, WorkerPoll, WorkerIndex, WorkerMark, WorkerExhaustFail,
   UpstreamEnds, CleanOutput, DeleteRecord, Crash

\* A call that asks for a release, from which columns, and in which step of its actor.
AsksRelease(t, s, c) == ReleaseSucceeds(t, s) \/ ReleaseFails(t, s, c)

\* Whoever asks for a release has the row's columns, and the job was not captured.
LEMMA ReleaseIsDue ==
  ASSUME FewFaults, JobTypes, NEW t \in Jobs, Controlled(t), Sound(t), ReleaseCall(t)
  PROVE  /\ ~Captured(t)
         /\ \E s \in {row[t], seen[t]} : \E c \in Calls :
              SameHold(s, row[t]) /\ AsksRelease(t, s, c)
<1>1. CASE SubmitRelease(t)
  <2>1. ~bound[t] /\ status[t] \notin Delivering
    BY <1>1 DEF SubmitRelease, At, Controlled, Binding
  <2>2. QED BY <1>1, <2>1 DEF SubmitRelease, Sound, Counted, AsksRelease, SameHold, Calls
<1>2. CASE CancelRelease(t)
  <2>1. status[t] \in Refunding /\ SameHold(seen[t], row[t])
    BY <1>2 DEF CancelRelease, At, Controlled, Stages, Sound, SeenIsRow
  <2>2. AsksRelease(t, seen[t], "cancelRelease")
    BY <1>2 DEF CancelRelease, AsksRelease
  <2>3. QED BY <2>1, <2>2 DEF Sound, Counted, Refunding, Delivering, Calls
<1>3. CASE StaleRelease(t)
  <2>1. status[t] \in Refunding /\ AsksRelease(t, row[t], "staleRelease")
    BY <1>3 DEF StaleRelease, At, Controlled, Stages, AsksRelease
  <2>2. QED BY <2>1 DEF Sound, Counted, Refunding, Delivering, Calls, SameHold
<1>4. CASE WorkerRelease(t)
  <2>1. status[t] \in Refunding /\ AsksRelease(t, row[t], "terminalRelease")
    BY <1>4 DEF WorkerRelease, At, Controlled, Stages, AsksRelease
  <2>2. QED BY <2>1 DEF Sound, Counted, Refunding, Delivering, Calls, SameHold
<1>5. CASE WorkerExhaust(t)
  <2>1. /\ status[t] = "settling" /\ retries[t] >= MaxRetries
        /\ pc[t]["worker"] = "exhaust" /\ AsksRelease(t, row[t], "exhaust")
    BY <1>5 DEF WorkerExhaust, At, Controlled, Stages, AsksRelease
  <2>2. ~Captured(t)
    <3>1. retries[t] \in Nat
      BY DEF JobTypes
    <3>2. ~(retries[t] < MaxRetries)
      BY <2>1, <3>1
    <3>3. QED BY <2>1, <3>2, SettlesInTime DEF Sound
  <2>3. QED BY <2>1, <2>2 DEF Calls, SameHold
<1>6. QED BY <1>1, <1>2, <1>3, <1>4, <1>5 DEF ReleaseCall

\* A settlement captures a job that is held, or was captured before.
LEMMA CaptureIsDue ==
  ASSUME JobTypes, NEW t \in Jobs, Controlled(t), WorkerCapture(t)
  PROVE  /\ status[t] = "settling" /\ retries[t] < MaxRetries /\ pc[t]["worker"] = "capture"
         /\ Claimed(HoldClaim(t)) /\ ~Released(t)
<1>1. status[t] = "settling" /\ retries[t] < MaxRetries /\ pc[t]["worker"] = "capture"
  BY DEF WorkerCapture, At, Controlled, Stages
<1>2. bound[t]
  BY <1>1 DEF Controlled, Binding, Delivering
<1>3. ~Released(t)
  BY <1>1 DEF Controlled, Closing, Refunding, Unbound, JobTypes
<1>4. QED BY <1>1, <1>2, <1>3 DEF Controlled, Holding

LEMMA FundsStep ==
  ASSUME FewFaults, TypeOK, JobTypes, NEW t \in Jobs, Controlled(t), Sound(t), FundsKept,
         JobStep(t)
  PROVE  FundsKept'
<1>1. CASE QuietCall(t)
  BY <1>1, QuietVars, FundsStay
<1>2. CASE SubmitCreate(t)
  <2>1. CreateTask(t) /\ ~Claimed(HoldClaim(t))
    BY <1>2 DEF SubmitCreate, Controlled, Unstarted
  <2>2. QED BY <2>1, CreateHolds
<1>3. CASE SubmitReserve(t)
  <2>1. ~Captured(t) /\ ~Released(t)
    BY <1>3 DEF SubmitReserve, At, Sound, NobodyBefore
  <2>2. CASE UNCHANGED vars
    BY <2>2, FundsStay
  <2>3. CASE Reserve(t)
    BY <2>1, <2>3, JobsAreTasks, ReserveFreezes DEF FundsKept, Captured, Released
  <2>4. QED BY <1>3, <2>2, <2>3 DEF SubmitReserve
<1>4. CASE ReleaseCall(t)
  <2>1. ~Captured(t)
    BY <1>4, ReleaseIsDue
  <2>2. PICK s \in {row[t], seen[t]}, c \in Calls :
          SameHold(s, row[t]) /\ AsksRelease(t, s, c)
    BY <1>4, ReleaseIsDue
  <2>3. s \in FundsRows
    BY JobsAreTasks DEF TypeOK, TaskTypeOK, JobTypes
  <2>4. ReleaseOnce(t, s) \/ UNCHANGED vars
    BY <2>2 DEF AsksRelease, ReleaseSucceeds, ReleaseFails
  <2>5. QED BY <2>1, <2>2, <2>3, <2>4, ReleaseThaws, FundsStay
<1>5. CASE WorkerCapture(t)
  <2>1. Claimed(HoldClaim(t)) /\ ~Released(t)
    BY <1>5, CaptureIsDue
  <2>2. CaptureOnce(t) \/ UNCHANGED vars
    BY <1>5 DEF WorkerCapture, CaptureFails
  <2>3. QED BY <2>1, <2>2, CaptureThaws, FundsStay
<1>6. QED BY <1>1, <1>2, <1>3, <1>4, <1>5, CallKinds

\* The hold a row records is written by the reservation alone.
LEMMA HoldKept ==
  ASSUME TypeOK, JobTypes, NEW t \in Jobs, Controlled(t), JobStep(t),
         ~SubmitCreate(t), ~SubmitReserve(t)
  PROVE  SameHold(row'[t], row[t])
<1>1. CASE QuietCall(t)
  BY <1>1, QuietMoney DEF SameHold
<1>2. CASE ReleaseCall(t)
  <2>1. \E s \in {row[t], seen[t]} : ReleaseOnce(t, s) \/ UNCHANGED vars
    BY <1>2 DEF ReleaseCall, SubmitRelease, CancelRelease, StaleRelease, WorkerRelease,
       WorkerExhaust, ReleaseSucceeds, ReleaseFails
  <2>2. row[t] \in FundsRows /\ seen[t] \in FundsRows
    BY JobsAreTasks DEF TypeOK, TaskTypeOK, JobTypes
  <2>3. QED BY <2>1, <2>2, ReleaseOnceMoney, NoMoney DEF SameHold
<1>3. CASE WorkerCapture(t)
  <2>1. CaptureOnce(t) \/ UNCHANGED vars
    BY <1>3 DEF WorkerCapture, CaptureFails
  <2>2. QED BY <2>1, CaptureOnceMoney, NoMoney DEF SameHold
<1>4. QED BY <1>1, <1>2, <1>3, CallKinds

LEMMA SeenStep ==
  ASSUME TypeOK, JobTypes, NEW t \in Jobs, Controlled(t), Sound(t), JobStep(t)
  PROVE  SeenIsRow(t)'
<1> DEFINE C == pc[t]["cancel"]
           D == pc'[t]["cancel"]
<1>1. CASE SubmitCreate(t) \/ SubmitReserve(t)
  <2>1. C = "idle"
    BY <1>1 DEF SubmitCreate, SubmitReserve, At, Sound, NobodyBefore, Controlled, Unstarted,
       Actors
  <2>2. D = C
    BY <1>1, SubmitGoes DEF SubmitCreate, SubmitReserve
  <2>3. QED BY <2>1, <2>2 DEF SeenIsRow
<1>2. CASE CancelRead(t)
  <2>1. seen'[t] = row[t] /\ row' = row
    BY <1>2, QuietMoney DEF CancelRead, JobTypes, QuietCall, QuietCancel
  <2>2. QED BY <2>1 DEF SeenIsRow, SameHold
<1>3. CASE ~SubmitCreate(t) /\ ~SubmitReserve(t) /\ ~CancelRead(t)
  <2>1. SameHold(row'[t], row[t])
    BY <1>3, HoldKept
  <2>2. /\ seen'[t] = seen[t]
        /\ D \in {"cancelTransition", "cancelRelease"} =>
             C \in {"cancelTransition", "cancelRelease"}
    <3>1. CASE Submit(t) \/ Resubmit(t) \/ Retry(t)
      BY <1>3, <3>1, SubmitGoes, CancelGoes, RecoveryGoes
      DEF Submit, SubmitReserve, SubmitItems, SubmitUpload, SubmitPlatform,
          SubmitSave, Save, SubmitEnqueue, SubmitRelease, SubmitRecord, SubmitHide,
          Resubmit, Retry, actorVars
    <3>2. CASE Cancel(t) \/ Recovery(t)
      BY <1>3, <3>2, CancelGoes, RecoveryGoes
      DEF Cancel, CancelTransition, CancelRelease, CancelProvider,
          Recovery, FailStale, StaleRelease, At
    <3>3. CASE Worker(t)
      BY <3>3, WorkerGoes
      DEF Worker, WorkerTake, WorkerPoll, WorkerIndex, WorkerRelease, WorkerCapture,
          WorkerMark, WorkerExhaust, WorkerExhaustFail, Ack, Requeue
    <3>4. CASE QuietOther(t)
      BY <3>4, CrashGoes DEF QuietOther, UpstreamEnds, CleanOutput, DeleteRecord, actorVars
    <3>5. QED BY <1>3, <3>1, <3>2, <3>3, <3>4 DEF JobStep, QuietOther
  <2>3. QED BY <2>1, <2>2 DEF SeenIsRow, SameHold, Sound
<1>4. QED BY <1>1, <1>2, <1>3

LEMMA NobodyStep ==
  ASSUME "cancel-before-reserve" \notin Schedules,
         TypeOK, JobTypes, NEW t \in Jobs, Controlled(t), Sound(t), JobStep(t)
  PROVE  NobodyBefore(t)'
<1> DEFINE S == pc[t]["submit"]
           T == pc'[t]["submit"]
<1>1. CASE SubmitCreate(t)
  <2>1. /\ status[t] = "none" /\ status'[t] = "created"
        /\ pc[t]["cancel"] = "idle" /\ pc'[t]["cancel"] = "idle"
    BY <1>1, SubmitGoes, BecomesAt DEF SubmitCreate, Controlled, Unstarted, Actors
  <2>2. ~Captured(t) /\ ~Released(t)
    BY <2>1 DEF Sound, Counted, Controlled, Closing, Delivering, Refunding, Unbound
  <2>3. ~Captured(t)' /\ ~Released(t)'
    BY <1>1, <2>2, CreateMoney DEF SubmitCreate, ClaimsMove
  <2>4. QED BY <2>1, <2>3 DEF NobodyBefore
<1>2. CASE Submit(t)
  <2>1. T # "reserve"
    BY <1>2, SubmitGoes
    DEF Submit, SubmitReserve, SubmitItems, SubmitUpload, SubmitPlatform, SubmitSave,
        SubmitEnqueue, SubmitRelease, SubmitRecord, SubmitHide
  <2>2. QED BY <2>1 DEF NobodyBefore
<1>3. CASE ~SubmitCreate(t) /\ ~Submit(t)
  <2>1. T = "reserve" => S = "reserve"
    BY <1>3, SubmitGoes, CancelGoes, RecoveryGoes, WorkerGoes, CrashGoes
    DEF JobStep, Resubmit, Retry, Cancel, CancelRead, CancelTransition, CancelRelease,
        CancelProvider, Recovery, FailStale, StaleRelease,
        Worker, WorkerTake, WorkerPoll, WorkerIndex, WorkerRelease, WorkerCapture,
        WorkerMark, WorkerExhaust, WorkerExhaustFail, Ack, Requeue,
        UpstreamEnds, CleanOutput, DeleteRecord, actorVars
  <2>2. SUFFICES ASSUME S = "reserve" PROVE NobodyBefore(t)'
    BY <2>1 DEF NobodyBefore
  <2>3. /\ status[t] = "created" /\ pc[t]["cancel"] = "idle"
        /\ ~Captured(t) /\ ~Released(t)
    BY <2>2 DEF Sound, NobodyBefore
  <2>4. /\ ~bound[t]
        /\ pc[t]["worker"] \notin {"poll", "index", "terminalRelease", "capture", "mark",
                                   "exhaust", "exhaustFail"}
        /\ pc[t]["recovery"] # "staleRelease"
    BY <2>3 DEF Controlled, Binding, Stages, Refunding, Unbound
  <2>5. UNCHANGED <<vars, status>> /\ pc'[t]["cancel"] = "idle"
    <3>1. CASE Resubmit(t) \/ Retry(t)
      BY <2>3, <3>1, SubmitGoes, CancelGoes, RecoveryGoes DEF Resubmit, Retry, At, actorVars
    <3>2. CASE Cancel(t) \/ Recovery(t)
      BY <2>2, <2>3, <2>4, <3>2
      DEF Cancel, CancelRead, CancelTransition, CancelRelease, CancelProvider,
          Recovery, FailStale, StaleRelease, At
    <3>3. CASE Worker(t)
      BY <2>3, <2>4, <3>3, WorkerGoes
      DEF Worker, WorkerTake, WorkerPoll, WorkerIndex, WorkerRelease, WorkerCapture,
          WorkerMark, WorkerExhaust, WorkerExhaustFail, Ack, Requeue, At, Terminal
    <3>4. CASE UpstreamEnds(t) \/ CleanOutput(t) \/ DeleteRecord(t) \/ Crash(t)
      BY <2>3, <3>4, CrashGoes
      DEF UpstreamEnds, CleanOutput, DeleteRecord, Terminal, actorVars
    <3>5. QED BY <1>3, <3>1, <3>2, <3>3, <3>4 DEF JobStep
  <2>6. ~Captured(t)' /\ ~Released(t)'
    BY <2>3, <2>5, NoMoney DEF ClaimsMove
  <2>7. QED BY <2>3, <2>5, <2>6 DEF NobodyBefore
<1>4. QED BY <1>1, <1>2, <1>3

\* A captured job stays on its way to completion; leaving it unmarked costs a fault.
LEMMA CapturedGoesOn ==
  ASSUME FewFaults, JobTypes, NEW t \in Jobs, Controlled(t), Sound(t), QuietCall(t),
         Captured(t)
  PROVE  /\ status'[t] \in Delivering
         /\ status'[t] = "settling" => status[t] = "settling"
         /\ pc[t]["worker"] = "mark" =>
              \/ status'[t] # "settling" \/ pc'[t]["worker"] = "mark"
              \/ faults' = faults + 1
<1>1. status[t] \in Delivering /\ bound[t]
  BY DEF Sound, Counted, Controlled, Binding
<1>2. /\ pc[t]["submit"] \in {"enqueue", "idle"}
      /\ pc[t]["worker"] \notin {"poll", "index", "terminalRelease"}
  BY <1>1 DEF Controlled, Binding, Stages, Delivering, Refunding
<1>3. pc[t]["worker"] # "exhaustFail"
  <2>1. SUFFICES ASSUME pc[t]["worker"] = "exhaustFail" PROVE FALSE
    OBVIOUS
  <2>2. status[t] = "settling" /\ retries[t] >= MaxRetries /\ retries[t] \in Nat
    BY <2>1 DEF Controlled, Stages, JobTypes
  <2>3. retries[t] < MaxRetries
    BY <2>1, <2>2, SettlesInTime DEF Sound
  <2>4. QED BY <2>2, <2>3
<1>4. CASE QuietSubmit(t)
  BY <1>1, <1>2, <1>4, SubmitGoes, CancelGoes, RecoveryGoes
  DEF QuietSubmit, SubmitItems, SubmitUpload, SubmitPlatform, SubmitSave, Save, SubmitEnqueue,
      SubmitRecord, SubmitHide, Resubmit, Retry, At, actorVars
<1>5. CASE QuietCancel(t)
  BY <1>1, <1>5, CancelGoes, RecoveryGoes, Edges
  DEF QuietCancel, CancelRead, CancelTransition, CancelProvider, FailStale, Unsubmitted,
      Delivering, Unbound, JobTypes
<1>6. CASE QuietWorker(t)
  BY <1>1, <1>2, <1>3, <1>6, WorkerGoes, BecomesAt
  DEF QuietWorker, WorkerTake, WorkerPoll, WorkerIndex, WorkerMark, WorkerExhaustFail,
      Ack, Requeue, Delivering, At, Fault
<1>7. CASE Crash(t)
  BY <1>1, <1>7, CrashGoes DEF Crash, Fault
<1>8. CASE UpstreamEnds(t) \/ CleanOutput(t) \/ DeleteRecord(t)
  BY <1>1, <1>8, BecomesAt DEF UpstreamEnds, CleanOutput, DeleteRecord, Delivering, actorVars
<1>9. QED BY <1>4, <1>5, <1>6, <1>7, <1>8 DEF QuietCall, QuietOther

LEMMA RetriesStay ==
  ASSUME NEW t \in Jobs,
         QuietCall(t) \/ SubmitCreate(t) \/ SubmitReserve(t) \/ ReleaseCall(t)
  PROVE  retries' = retries
<1>1. CASE QuietSubmit(t) \/ SubmitCreate(t) \/ SubmitReserve(t)
  BY <1>1
  DEF QuietSubmit, SubmitItems, SubmitUpload, SubmitPlatform, SubmitSave, Save, SubmitEnqueue,
      SubmitRecord, SubmitHide, Resubmit, Retry, SubmitCreate, SubmitReserve
<1>2. CASE QuietCancel(t) \/ QuietWorker(t)
  BY <1>2
  DEF QuietCancel, CancelRead, CancelTransition, CancelProvider, FailStale,
      QuietWorker, WorkerTake, WorkerPoll, WorkerIndex, WorkerMark, WorkerExhaustFail
<1>3. CASE QuietOther(t) \/ ReleaseCall(t)
  BY <1>3
  DEF QuietOther, UpstreamEnds, CleanOutput, DeleteRecord, Crash, ReleaseCall,
      SubmitRelease, CancelRelease, StaleRelease, WorkerRelease, WorkerExhaust
<1>4. QED BY <1>1, <1>2, <1>3 DEF QuietCall

LEMMA CountedStep ==
  ASSUME FewFaults, TypeOK, JobTypes, NEW t \in Jobs, Controlled(t), Sound(t), FundsKept,
         JobStep(t)
  PROVE  Counted(t)'
<1>1. retries[t] \in Nat /\ faults \in Nat /\ faults' \in Nat /\ faults' >= faults
  BY FaultsMove DEF JobTypes
<1>2. CASE QuietCall(t)
  <2>1. retries' = retries /\ (Captured(t)' <=> Captured(t))
    BY <1>2, RetriesStay, QuietMoney DEF ClaimsMove
  <2>2. Captured(t) =>
          /\ status'[t] \in Delivering
          /\ status'[t] = "settling" => status[t] = "settling"
          /\ pc[t]["worker"] = "mark" =>
               \/ status'[t] # "settling" \/ pc'[t]["worker"] = "mark"
               \/ faults' = faults + 1
    BY <1>2, CapturedGoesOn
  <2>3. QED BY <1>1, <2>1, <2>2 DEF Sound, Counted
<1>3. CASE SubmitCreate(t) \/ SubmitReserve(t)
  <2>1. status[t] \in {"none", "created"}
    BY <1>3 DEF SubmitCreate, SubmitReserve, At, Sound, NobodyBefore
  <2>2. ~Captured(t) /\ ~Captured(t)'
    <3>1. ~Captured(t)
      BY <2>1 DEF Sound, Counted, Delivering
    <3>2. QED BY <1>3, <3>1, CreateMoney, ReserveMoneyOf, NoMoney
             DEF SubmitCreate, SubmitReserve, ClaimsMove
  <2>3. retries' = retries
    BY <1>3, RetriesStay
  <2>4. QED BY <1>1, <2>2, <2>3 DEF Sound, Counted
<1>4. CASE ReleaseCall(t)
  <2>1. ~Captured(t)
    BY <1>4, ReleaseIsDue
  <2>2. \E s \in {row[t], seen[t]} : ReleaseOnce(t, s) \/ UNCHANGED vars
    BY <1>4 DEF ReleaseCall, SubmitRelease, CancelRelease, StaleRelease, WorkerRelease,
       WorkerExhaust, ReleaseSucceeds, ReleaseFails
  <2>3. row[t] \in FundsRows /\ seen[t] \in FundsRows
    BY JobsAreTasks DEF TypeOK, TaskTypeOK, JobTypes
  <2>4. ~Captured(t)'
    BY <2>1, <2>2, <2>3, ReleaseOnceMoney, NoMoney DEF ClaimsMove
  <2>5. retries' = retries
    BY <1>4, RetriesStay
  <2>6. QED BY <1>1, <2>4, <2>5 DEF Sound, Counted
<1>5. CASE WorkerCapture(t)
  <2>1. /\ status[t] = "settling" /\ status'[t] = "settling"
        /\ pc[t]["worker"] = "capture" /\ Claimed(HoldClaim(t)) /\ ~Released(t)
    BY <1>5, CaptureIsDue DEF WorkerCapture
  <2>2. CASE CaptureOnce(t) /\ Goto(t, "worker", "mark") /\ UNCHANGED retries
    <3>1. pc'[t]["worker"] = "mark"
      BY <2>2, WorkerGoes
    <3>2. QED BY <1>1, <2>1, <2>2, <3>1 DEF Sound, Counted, Delivering
  <2>3. CASE CaptureFails(t) /\ (Count(t) \/ UNCHANGED retries)
    <3>1. retries'[t] <= retries[t] + 1 /\ retries'[t] \in Nat
      BY <1>1, <2>3 DEF Count, JobTypes
    <3>2. ~(Fresh(CaptureClaim(t)) /\ FrozenShort(t, row[t]))
      <4>1. Fresh(CaptureClaim(t)) => ~Captured(t)
        BY DEF Fresh, Captured, Claimed
      <4>2. ~Captured(t) => Held(t)
        BY <2>1 DEF Held, Resolved, Released
      <4>3. QED BY <4>1, <4>2, FrozenSuffices
    <3>3. faults' = faults + 1
      BY <2>3, <3>2 DEF CaptureFails, Fault
    <3>4. "capture" \notin LoseAt => (Captured(t)' <=> Captured(t))
      <4>1. "capture" \notin LoseAt => UNCHANGED vars
        BY <2>3 DEF CaptureFails, Fault
      <4>2. QED BY <4>1, NoMoney DEF ClaimsMove
    <3>5. retries[t] <= faults
      BY DEF Sound, Counted
    <3>6. "capture" \notin LoseAt /\ Captured(t) => retries[t] < faults
      BY <2>1 DEF Sound, Counted
    <3>7. QED BY <1>1, <2>1, <3>1, <3>3, <3>4, <3>5, <3>6 DEF Counted, Delivering
  <2>4. QED BY <1>5, <2>2, <2>3 DEF WorkerCapture
<1>6. QED BY <1>2, <1>3, <1>4, <1>5, CallKinds

LEMMA SoundOther ==
  ASSUME JobTypes, NEW t \in Jobs, OtherJobs(t), OtherTasks(t), NEW x \in Jobs \ {t},
         Sound(x), faults' \in Nat, faults' >= faults
  PROVE  Sound(x)'
<1>1. retries[x] \in Nat /\ faults \in Nat
  BY DEF JobTypes
<1>2. NobodyBefore(x)' /\ SeenIsRow(x)'
  BY OthersSame DEF Sound, NobodyBefore, SeenIsRow
<1>3. Counted(x)'
  BY <1>1, OthersSame DEF Sound, Counted
<1>4. QED BY <1>2, <1>3 DEF Sound

LEMMA JobFundsStep ==
  ASSUME FewFaults, "cancel-before-reserve" \notin Schedules,
         JobFundsInv, [BNext]_bvars
  PROVE  JobFundsInv'
<1>1. ControlInv'
  BY ControlStep DEF JobFundsInv
<1>2. TypeOK /\ JobTypes /\ FundsKept
  BY DEF JobFundsInv, ControlInv
<1>3. ASSUME NEW t \in Jobs, JobStep(t) PROVE FundsKept' /\ \A x \in Jobs : Sound(x)'
  <2>1. Controlled(t) /\ Sound(t)
    BY DEF JobFundsInv, ControlInv
  <2>2. FundsKept'
    BY <1>2, <1>3, <2>1, FundsStep
  <2>3. Sound(t)'
    BY <1>2, <1>3, <2>1, NobodyStep, SeenStep, CountedStep DEF Sound
  <2>4. OtherJobs(t) /\ OtherTasks(t) /\ faults' \in Nat /\ faults' >= faults
    BY <1>2, <1>3, <2>1, StepFrame, FaultsMove DEF Controlled
  <2>5. \A x \in Jobs \ {t} : Sound(x)'
    BY <1>2, <2>4, SoundOther DEF JobFundsInv
  <2>6. QED BY <2>2, <2>3, <2>5
<1>4. ASSUME UNCHANGED bvars PROVE FundsKept' /\ \A x \in Jobs : Sound(x)'
  <2>1. UNCHANGED <<vars, live, archive, row, status, retries, pc, seen, faults>>
    BY <1>4 DEF bvars, jobVars, ownerVars, actorVars, vars, claimVars, taskVars
  <2>2. FundsKept'
    BY <1>2, <2>1, FundsStay
  <2>3. \A x \in Jobs : Sound(x)'
    BY <2>1 DEF JobFundsInv, Sound, NobodyBefore, SeenIsRow, Counted, SameHold, Captured,
       Released, Claimed
  <2>4. QED BY <2>2, <2>3
<1>5. FundsKept' /\ \A x \in Jobs : Sound(x)'
  BY <1>3, <1>4 DEF BNext, Ended
<1>6. QED BY <1>1, <1>5 DEF JobFundsInv

LEMMA JobFundsStarts == BInit => JobFundsInv
<1> SUFFICES ASSUME BInit PROVE JobFundsInv
  OBVIOUS
<1>1. ControlInv
  BY ControlStarts
<1>2. FundsKept
  BY InitFunds DEF BInit, FundsInv, FundsKept
<1>3. \A t \in Jobs : ~Captured(t)
  BY JobsAreTasks, InitClaims DEF BInit, Captured
<1>4. \A t \in Jobs : Sound(t)
  BY <1>3 DEF BInit, Sound, NobodyBefore, SeenIsRow, Counted, Actors
<1>5. QED BY <1>1, <1>2, <1>4 DEF JobFundsInv

\* With four actors asking for the money of the same jobs, what is frozen is still
\* exactly what the unresolved jobs hold (Funding.Reserve, Release and Settle): no
\* release or capture takes another job's hold, as long as no cancelling request reads the
\* job before its reservation and the faults cannot exhaust a captured settlement.
THEOREM JobsKeepTheirMoney ==
  ASSUME FewFaults, "cancel-before-reserve" \notin Schedules
  PROVE  BSpec => []FrozenIsOutstanding
<1>1. JobFundsInv /\ [BNext]_bvars => JobFundsInv'
  BY JobFundsStep
<1>2. JobFundsInv => FrozenIsOutstanding
  BY DEF JobFundsInv, FundsKept
<1>3. QED BY <1>1, <1>2, JobFundsStarts, PTL DEF BSpec

\* A job is charged exactly when it delivers: a completed one was captured and not
\* released, and a captured one never ends as failed or cancelled (Settle,
\* RecordSettlementFailure, FailExhaustedSettlement), under the same conditions.
THEOREM JobsChargeIffTheyDeliver ==
  ASSUME FewFaults, "cancel-before-reserve" \notin Schedules
  PROVE  BSpec => []ChargedIffDelivered
<1>1. JobFundsInv /\ [BNext]_bvars => JobFundsInv'
  BY JobFundsStep
<1>2. JobFundsInv => ChargedIffDelivered
  BY DEF JobFundsInv, ControlInv, Controlled, Closing, Sound, Counted, ChargedIffDelivered,
     Released, Delivering
<1>3. QED BY <1>1, <1>2, JobFundsStarts, PTL DEF BSpec
===============================================================================
