--------------------------- MODULE QuotaTx_proofs ---------------------------
(***************************************************************************)
(* Machine-checked safety of the credit quota, for every set of            *)
(* workspaces, plans, keys and costs, every number of sessions and every   *)
(* bound.  First the atomic ledger of QuotaLedger: its types, its limits,  *)
(* its sums, and the promise of Allowance.  Then the statement-by-statement*)
(* transactions of QuotaTx, which implement it: a session past its first   *)
(* statement holds its workspace's row lock (LockHeld), so the row it read *)
(* is still the committed one (SnapshotFresh, WriteSound) and the unique   *)
(* index keeps its event apart from every other (EventsFresh); its COMMIT  *)
(* is then exactly one operation of QuotaLedger.                           *)
(***************************************************************************)
EXTENDS QuotaTx, FiniteSetTheorems, WellFoundedInduction, TLAPS

\* A row of the table is never mistaken for the absence of one.
LEMMA RowIsPresent == \A r \in QuotaRow : r # NoRow
  BY NoRowAssumption

\* What each operation writes is a well-formed row, as long as its sum fits the
\* INT column: the guards of Charge and GrantCredits, and of the UPDATEs of
\* QuotaTx, are what keeps a stored row in range.
LEMMA RowTypes ==
  /\ \A plan \in Plans, period \in Periods : SeededRow(plan, period) \in QuotaRow
  /\ \A r \in QuotaRow, cost \in Costs :
       r.consumed + cost <= IntMax => ChargedRow(r, cost) \in QuotaRow
  /\ \A r \in QuotaRow : RefusedRow(r) \in QuotaRow
  /\ \A r \in QuotaRow, extra \in Extras :
       r.granted + extra <= IntMax => [r EXCEPT !.granted = @ + extra] \in QuotaRow
<1>1. ASSUME NEW plan \in Plans, NEW period \in Periods
      PROVE  SeededRow(plan, period) \in QuotaRow
  <2>1. Credits[plan] \in -1..IntMax
    BY CreditsAssumption, BoundsAssumption
  <2>2. QED
    BY <2>1, BoundsAssumption DEF SeededRow, QuotaRow
<1>2. ASSUME NEW r \in QuotaRow, NEW cost \in Costs, r.consumed + cost <= IntMax
      PROVE  ChargedRow(r, cost) \in QuotaRow
  <2>1. cost \in Nat
    BY AmountsAssumption
  <2>2. ReachesSoft(r, cost) \in BOOLEAN
    BY DEF ReachesSoft, Unlimited
  <2>3. ASSUME NEW c \in 0..IntMax, NEW s \in BOOLEAN, NEW h \in BOOLEAN
        PROVE  [r EXCEPT !.consumed = c, !.soft = s, !.hard = h] \in QuotaRow
    BY DEF QuotaRow
  <2>4. r.consumed + cost \in 0..IntMax
    BY <1>2, <2>1, BoundsAssumption DEF QuotaRow
  <2>5. QED
    BY <2>2, <2>3, <2>4 DEF ChargedRow
<1>3. \A r \in QuotaRow : RefusedRow(r) \in QuotaRow
  BY DEF RefusedRow, QuotaRow
<1>4. ASSUME NEW r \in QuotaRow, NEW extra \in Extras, r.granted + extra <= IntMax
      PROVE  [r EXCEPT !.granted = @ + extra] \in QuotaRow
  <2>1. extra \in Nat
    BY AmountsAssumption
  <2>2. r.granted + extra \in -1..IntMax
    BY <1>4, <2>1, BoundsAssumption DEF QuotaRow
  <2>3. QED
    BY <2>2 DEF QuotaRow
<1>5. QED
  BY <1>1, <1>2, <1>3, <1>4

\* Type correctness, step by step.
LEMMA TypeStep == QuotaTypeOK /\ [QuotaNext]_quotaVars => QuotaTypeOK'
<1> SUFFICES ASSUME QuotaTypeOK, [QuotaNext]_quotaVars
             PROVE  QuotaTypeOK'
  OBVIOUS
<1> USE DEF QuotaTypeOK
<1>1. ASSUME NEW w \in Workspaces, NEW cost \in Costs, NEW key \in Keys,
             NEW at \in 0..MaxTime, Charge(w, cost, key, at)
      PROVE  QuotaTypeOK'
  <2>1. quota[w] \in QuotaRow
    BY <1>1 DEF Charge
  <2>2. ChargedRow(quota[w], cost) \in QuotaRow
    BY <1>1, <2>1, RowTypes DEF Charge
  <2>3. [ws |-> w, key |-> key, cost |-> cost, at |-> at] \in UsageEvent
    BY DEF UsageEvent
  <2>4. QED
    BY <1>1, <2>2, <2>3 DEF Charge
<1>2. ASSUME NEW w \in Workspaces, NEW cost \in Costs, Refuse(w, cost)
      PROVE  QuotaTypeOK'
  <2>1. quota[w] \in QuotaRow
    BY <1>2 DEF Refuse
  <2>2. RefusedRow(quota[w]) \in QuotaRow
    BY <2>1, RowTypes
  <2>3. QED
    BY <1>2, <2>2 DEF Refuse
<1>3. ASSUME NEW w \in Workspaces, NEW plan \in Plans, NEW period \in Periods,
             Seed(w, plan, period)
      PROVE  QuotaTypeOK'
  <2>1. SeededRow(plan, period) \in QuotaRow
    BY RowTypes
  <2>2. QED
    BY <1>3, <2>1 DEF Seed, RowsOf
<1>4. ASSUME NEW w \in Workspaces, NEW extra \in Extras, GrantCredits(w, extra)
      PROVE  QuotaTypeOK'
  <2>1. quota[w] \in QuotaRow
    BY <1>4 DEF GrantCredits
  <2>2. [quota[w] EXCEPT !.granted = @ + extra] \in QuotaRow
    BY <1>4, <2>1, RowTypes DEF GrantCredits
  <2>3. quota' = [quota EXCEPT ![w] = [quota[w] EXCEPT !.granted = @ + extra]]
    BY <1>4 DEF GrantCredits
  <2>4. QED
    BY <1>4, <2>2, <2>3 DEF GrantCredits
<1>5. CASE Tick
  BY <1>5, BoundsAssumption DEF Tick
<1>6. CASE UNCHANGED quotaVars
  BY <1>6 DEF quotaVars
<1>7. QED
  BY <1>1, <1>2, <1>3, <1>4, <1>5, <1>6 DEF QuotaNext, ConsumeCredits

LEMMA TypeInit == QuotaInit => QuotaTypeOK
  BY BoundsAssumption DEF QuotaInit, QuotaTypeOK

\* Every reachable state of the ledger is well typed: no charge and no top-up
\* takes a counter out of the range of its INT column (0008_quota_ledger.sql:6-7).
THEOREM LedgerTypes == QuotaSpec => []QuotaTypeOK
<1>1. QED
  BY TypeInit, TypeStep, PTL DEF QuotaSpec

---------------------------------------------------------------------------
(* No overspending, and flags that are never late: each is inductive once   *)
(* the types are known.                                                     *)

\* The soft limit grows with the grant.
LEMMA SoftLimitMonotone ==
  ASSUME NEW g \in Int, NEW e \in Nat
  PROVE  SoftLimit(g) <= SoftLimit(g + e)
  BY DEF SoftLimit

\* A fresh row starts at or below its grant and below its soft limit.
LEMMA SeedIsFresh ==
  ASSUME NEW plan \in Plans, NEW period \in Periods
  PROVE  ~Unlimited(SeededRow(plan, period)) =>
           /\ 0 <= Credits[plan]
           /\ 0 < SoftLimit(Credits[plan])
  BY CreditsAssumption, BoundsAssumption DEF Unlimited, SeededRow, SoftLimit

\* consumed never exceeds granted on a limited row (quota.ts:66-86).
THEOREM NeverOverspent == QuotaSpec => []NoOverspend
<1>1. QuotaInit => NoOverspend
  BY DEF QuotaInit, NoOverspend
<1>2. ASSUME QuotaTypeOK, NoOverspend, [QuotaNext]_quotaVars
      PROVE  NoOverspend'
  <2> USE <1>2 DEF QuotaTypeOK
  <2> DEFINE Sound(r) == ~Unlimited(r) => r.consumed <= r.granted
  <2>1. ASSUME NEW w \in Workspaces, NEW cost \in Costs, NEW key \in Keys,
               NEW at \in 0..MaxTime, Charge(w, cost, key, at)
        PROVE  NoOverspend'
    <3>1. quota[w] \in QuotaRow /\ cost \in Nat
      BY <2>1, AmountsAssumption DEF Charge
    <3>2. Sound(ChargedRow(quota[w], cost))
      BY <2>1, <3>1 DEF Charge, Fits, ChargedRow, Unlimited, QuotaRow
    <3>3. QED
      BY <2>1, <3>2 DEF Charge, NoOverspend
  <2>2. ASSUME NEW w \in Workspaces, NEW cost \in Costs, Refuse(w, cost)
        PROVE  NoOverspend'
    <3>1. quota[w] \in QuotaRow
      BY <2>2 DEF Refuse
    <3>2. w \notin boosted => Sound(RefusedRow(quota[w]))
      BY <2>2, <3>1 DEF Refuse, RefusedRow, Unlimited, QuotaRow, NoOverspend
    <3>3. QED
      BY <2>2, <3>2 DEF Refuse, NoOverspend
  <2>3. ASSUME NEW w \in Workspaces, NEW plan \in Plans, NEW period \in Periods,
               Seed(w, plan, period)
        PROVE  NoOverspend'
    <3>1. Sound(SeededRow(plan, period))
      BY SeedIsFresh, CreditsAssumption DEF SeededRow, Unlimited
    <3>2. \A v \in Workspaces : v # w => quota'[v] = quota[v] /\ (v \in boosted' <=> v \in boosted)
      BY <2>3 DEF Seed
    <3>3. quota'[w] = SeededRow(plan, period)
      BY <2>3 DEF Seed
    <3>4. QED
      BY <3>1, <3>2, <3>3 DEF NoOverspend
  <2>4. ASSUME NEW w \in Workspaces, NEW extra \in Extras, GrantCredits(w, extra)
        PROVE  NoOverspend'
    <3>1. quota[w] \in QuotaRow /\ extra \in Nat
      BY <2>4, AmountsAssumption DEF GrantCredits
    <3>2. \A v \in Workspaces : v # w => quota'[v] = quota[v]
      BY <2>4 DEF GrantCredits
    <3>3. quota'[w] = [quota[w] EXCEPT !.granted = @ + extra]
      BY <2>4 DEF GrantCredits
    <3>4. boosted \subseteq boosted'
      BY <2>4 DEF GrantCredits
    <3>5. w \notin boosted' => w \notin boosted /\ ~Unlimited(quota[w])
      BY <2>4 DEF GrantCredits
    <3>6. w \notin boosted' => Sound(quota'[w])
      BY <2>4, <3>1, <3>3, <3>5 DEF Unlimited, QuotaRow, NoOverspend, GrantCredits
    <3>7. QED
      BY <3>2, <3>4, <3>6 DEF NoOverspend
  <2>5. CASE Tick
    BY <2>5 DEF Tick, NoOverspend
  <2>6. CASE UNCHANGED quotaVars
    BY <2>6 DEF quotaVars, NoOverspend
  <2>7. QED
    BY <2>1, <2>2, <2>3, <2>4, <2>5, <2>6 DEF QuotaNext, ConsumeCredits
<1>3. QED
  BY <1>1, <1>2, LedgerTypes, PTL DEF QuotaSpec

\* A stored row is below its soft limit unless it says otherwise (quota.ts:66-121).
THEOREM FlagsAreNeverLate == QuotaSpec => []FlagsNeverLate
<1>1. QuotaInit => FlagsNeverLate
  BY DEF QuotaInit, FlagsNeverLate
<1>2. ASSUME QuotaTypeOK, FlagsNeverLate, [QuotaNext]_quotaVars
      PROVE  FlagsNeverLate'
  <2> USE <1>2 DEF QuotaTypeOK
  <2> DEFINE Warned(r) == /\ r.hard => r.soft
                          /\ ~r.soft /\ ~Unlimited(r) => r.consumed < SoftLimit(r.granted)
  <2>1. ASSUME NEW w \in Workspaces, NEW cost \in Costs, NEW key \in Keys,
               NEW at \in 0..MaxTime, Charge(w, cost, key, at)
        PROVE  FlagsNeverLate'
    <3>1. quota[w] \in QuotaRow /\ cost \in Nat
      BY <2>1, AmountsAssumption DEF Charge
    <3>2. Warned(ChargedRow(quota[w], cost))
      <4>1. SoftLimit(quota[w].granted) \in Int /\ quota[w].consumed + cost \in Int
        BY <3>1 DEF QuotaRow, SoftLimit
      <4>2. /\ ChargedRow(quota[w], cost).soft = ReachesSoft(quota[w], cost)
            /\ ChargedRow(quota[w], cost).hard = FALSE
            /\ ChargedRow(quota[w], cost).consumed = quota[w].consumed + cost
            /\ ChargedRow(quota[w], cost).granted = quota[w].granted
        BY <3>1 DEF ChargedRow, QuotaRow
      <4>3. CASE ReachesSoft(quota[w], cost)
        BY <4>2, <4>3
      <4>4. CASE ~ReachesSoft(quota[w], cost)
        <5>1. Unlimited(quota[w]) \/ quota[w].consumed + cost < SoftLimit(quota[w].granted)
          BY <4>1, <4>4 DEF ReachesSoft
        <5>2. Unlimited(ChargedRow(quota[w], cost)) <=> Unlimited(quota[w])
          BY <4>2 DEF Unlimited
        <5>3. QED
          BY <4>2, <5>1, <5>2, Zenon
      <4>5. QED
        BY <4>3, <4>4
    <3>3. QED
      BY <2>1, <3>2 DEF Charge, FlagsNeverLate
  <2>2. ASSUME NEW w \in Workspaces, NEW cost \in Costs, Refuse(w, cost)
        PROVE  FlagsNeverLate'
    <3>1. quota[w] \in QuotaRow
      BY <2>2 DEF Refuse
    <3>2. Warned(RefusedRow(quota[w]))
      BY <3>1 DEF RefusedRow, QuotaRow
    <3>3. QED
      BY <2>2, <3>2 DEF Refuse, FlagsNeverLate
  <2>3. ASSUME NEW w \in Workspaces, NEW plan \in Plans, NEW period \in Periods,
               Seed(w, plan, period)
        PROVE  FlagsNeverLate'
    <3>1. Warned(SeededRow(plan, period))
      BY SeedIsFresh DEF SeededRow, Unlimited
    <3>2. \A v \in Workspaces : v # w => quota'[v] = quota[v] /\ (v \in boosted' <=> v \in boosted)
      BY <2>3 DEF Seed
    <3>3. quota'[w] = SeededRow(plan, period)
      BY <2>3 DEF Seed
    <3>4. QED
      BY <3>1, <3>2, <3>3 DEF FlagsNeverLate
  <2>4. ASSUME NEW w \in Workspaces, NEW extra \in Extras, GrantCredits(w, extra)
        PROVE  FlagsNeverLate'
    <3>1. quota[w] \in QuotaRow /\ extra \in Nat
      BY <2>4, AmountsAssumption DEF GrantCredits
    <3>2. \A v \in Workspaces : v # w => quota'[v] = quota[v]
      BY <2>4 DEF GrantCredits
    <3>3. boosted \subseteq boosted'
      BY <2>4 DEF GrantCredits
    <3>4. w \notin boosted' => w \notin boosted /\ ~Unlimited(quota[w])
      BY <2>4 DEF GrantCredits
    <3>5. /\ quota'[w].soft = quota[w].soft
          /\ quota'[w].hard = quota[w].hard
          /\ quota'[w].consumed = quota[w].consumed
          /\ quota'[w].granted = quota[w].granted + extra
      BY <2>4, <3>1 DEF GrantCredits, QuotaRow
    <3>6. quota[w].granted \in Int /\ quota[w].consumed \in Int
      BY <3>1 DEF QuotaRow
    <3>7. SoftLimit(quota[w].granted) <= SoftLimit(quota[w].granted + extra)
      BY <3>1, <3>6, SoftLimitMonotone
    <3>8. SoftLimit(quota[w].granted) \in Int /\ SoftLimit(quota[w].granted + extra) \in Int
      BY <3>1, <3>6 DEF SoftLimit
    <3>9. w \notin boosted => Warned(quota[w])
      BY <2>4 DEF FlagsNeverLate, GrantCredits
    <3>10. w \notin boosted' => Warned(quota'[w])
      BY <3>4, <3>5, <3>6, <3>7, <3>8, <3>9 DEF Unlimited
    <3>11. QED
      BY <3>2, <3>3, <3>10 DEF FlagsNeverLate
  <2>5. CASE Tick
    BY <2>5 DEF Tick, FlagsNeverLate
  <2>6. CASE UNCHANGED quotaVars
    BY <2>6 DEF quotaVars, FlagsNeverLate
  <2>7. QED
    BY <2>1, <2>2, <2>3, <2>4, <2>5, <2>6 DEF QuotaNext, ConsumeCredits
<1>3. QED
  BY <1>1, <1>2, LedgerTypes, PTL DEF QuotaSpec

\* A workspace without a quota row has never been charged (quota.ts:5, 57-64).
THEOREM NeverChargedUnseeded == QuotaSpec => []FailClosed
<1>1. QuotaInit => FailClosed
  BY DEF QuotaInit, FailClosed, RowsOf
<1>2. ASSUME QuotaTypeOK, FailClosed, [QuotaNext]_quotaVars
      PROVE  FailClosed'
  <2> USE <1>2 DEF QuotaTypeOK
  <2>1. ASSUME NEW w \in Workspaces, NEW cost \in Costs, NEW key \in Keys,
               NEW at \in 0..MaxTime, Charge(w, cost, key, at)
        PROVE  FailClosed'
    <3>1. quota[w] \in QuotaRow
      BY <2>1 DEF Charge
    <3>2. quota'[w] # NoRow
      BY <2>1, <3>1, RowTypes, RowIsPresent DEF Charge
    <3>3. \A v \in Workspaces : v # w => quota'[v] = quota[v] /\ RowsOf(v)' = RowsOf(v)
      BY <2>1 DEF Charge, RowsOf
    <3>4. QED
      BY <3>2, <3>3 DEF FailClosed
  <2>2. ASSUME NEW w \in Workspaces, NEW cost \in Costs, Refuse(w, cost)
        PROVE  FailClosed'
    <3>1. quota'[w] # NoRow
      BY <2>2, RowTypes, RowIsPresent DEF Refuse
    <3>2. QED
      BY <2>2, <3>1 DEF Refuse, FailClosed, RowsOf
  <2>3. ASSUME NEW w \in Workspaces, NEW plan \in Plans, NEW period \in Periods,
               Seed(w, plan, period)
        PROVE  FailClosed'
    <3>1. quota'[w] # NoRow
      BY <2>3, RowTypes, RowIsPresent DEF Seed
    <3>2. QED
      BY <2>3, <3>1 DEF Seed, FailClosed, RowsOf
  <2>4. ASSUME NEW w \in Workspaces, NEW extra \in Extras, GrantCredits(w, extra)
        PROVE  FailClosed'
    <3>1. quota[w] \in QuotaRow
      BY <2>4 DEF GrantCredits
    <3>2. quota'[w] = [quota[w] EXCEPT !.granted = @ + extra]
      BY <2>4 DEF GrantCredits
    <3>3. quota'[w] # NoRow
      BY <2>4, <3>1, <3>2, RowTypes, RowIsPresent DEF GrantCredits
    <3>4. QED
      BY <2>4, <3>3 DEF GrantCredits, FailClosed, RowsOf
  <2>5. CASE Tick
    BY <2>5 DEF Tick, FailClosed, RowsOf
  <2>6. CASE UNCHANGED quotaVars
    BY <2>6 DEF quotaVars, FailClosed, RowsOf
  <2>7. QED
    BY <2>1, <2>2, <2>3, <2>4, <2>5, <2>6 DEF QuotaNext, ConsumeCredits
<1>3. QED
  BY <1>1, <1>2, LedgerTypes, PTL DEF QuotaSpec

---------------------------------------------------------------------------
(* The counter is the sum of the ledger.  A sum over a finite set is a fold *)
(* whose recursion has to be shown to have a solution, and one that does    *)
(* not depend on the order of the elements.  Both are inductions, each by   *)
(* way of a least counterexample.                                           *)

Total(S) == MapThenSumSet(LAMBDA u : u.cost, S)

\* The element of a set that the fold takes first, and the fold's recursion.
First(s) == CHOOSE x \in s : TRUE
Sums(f, D) == f = [s \in D |-> IF s = {} THEN 0 ELSE First(s).cost + f[s \ {First(s)}]]

\* Every set of natural numbers that is not empty has a least element.
LEMMA LeastNat ==
  ASSUME NEW T \in SUBSET Nat, T # {}
  PROVE  \E n \in T : \A m \in T : n <= m
<1> DEFINE Less == OpToRel(<, Nat)
<1>1. IsWellFoundedOn(Less, Nat)
  BY NatLessThanWellFounded
<1>2. \A m \in Nat, n \in Nat : m < n => <<m, n>> \in Less
  BY DEF OpToRel
<1> HIDE DEF Less
<1>3. PICK n \in T : \A m \in T : ~ (<<m, n>> \in Less)
  BY <1>1, WFMin
<1>4. ASSUME NEW m \in T PROVE n <= m
  <2>1. m \in Nat /\ n \in Nat /\ ~ (m < n)
    BY <1>2, <1>3
  <2> QED
    BY <2>1
<1> QED
  BY <1>4

\* A set of finite sets that is not empty has one of least cardinality.
LEMMA LeastSet ==
  ASSUME NEW B, B # {}, \A s \in B : IsFiniteSet(s)
  PROVE  \E s \in B : \A t \in B : Cardinality(s) <= Cardinality(t)
<1>1. \A s \in B : Cardinality(s) \in Nat
  BY FS_CardinalityType
<1> DEFINE Sizes == {Cardinality(s) : s \in B}
<1>2. Sizes \in SUBSET Nat /\ Sizes # {}
  BY <1>1
<1>3. \E n \in Sizes : \A m \in Sizes : n <= m
  <2> HIDE DEF Sizes
  <2> QED
    BY <1>2, LeastNat
<1> QED
  BY <1>3

\* Taking the first element of a set away leaves a smaller one.
LEMMA FirstTaken ==
  ASSUME NEW s, IsFiniteSet(s), s # {}
  PROVE  /\ First(s) \in s
         /\ IsFiniteSet(s \ {First(s)})
         /\ Cardinality(s) \in Nat /\ Cardinality(s \ {First(s)}) \in Nat
         /\ Cardinality(s \ {First(s)}) = Cardinality(s) - 1
<1>1. First(s) \in s
  BY DEF First
<1>2. IsFiniteSet(s \ {First(s)})
  BY FS_Subset
<1>3. Cardinality(s) \in Nat /\ Cardinality(s \ {First(s)}) \in Nat
  BY <1>2, FS_CardinalityType
<1>4. Cardinality(s \ {First(s)}) = Cardinality(s) - 1
  BY <1>1, FS_RemoveElement
<1> QED
  BY <1>1, <1>2, <1>3, <1>4

\* The recursion has a solution on the subsets of a finite set: it is extended
\* from those of at most n - 1 elements to those of at most n.
LEMMA SumsExist ==
  ASSUME NEW S, IsFiniteSet(S)
  PROVE  \E f : Sums(f, SUBSET S)
<1> DEFINE Small(n) == {s \in SUBSET S : Cardinality(s) <= n}
           Bad == {n \in Nat : ~ \E f : Sums(f, Small(n))}
<1>1. \A s \in SUBSET S : IsFiniteSet(s) /\ Cardinality(s) \in Nat
  BY FS_Subset, FS_CardinalityType
<1>2. ASSUME Bad # {} PROVE FALSE
  <2>1. PICK n \in Bad : \A m \in Bad : n <= m
    <3>1. Bad \in SUBSET Nat
      OBVIOUS
    <3> HIDE DEF Bad
    <3> QED
      BY <3>1, <1>2, LeastNat
  <2>2. n \in Nat /\ (n # 0 => n - 1 \in Nat) /\ ~ \E f : Sums(f, Small(n))
    OBVIOUS
  <2>3. CASE n = 0
    <3>1. ASSUME NEW s \in Small(0) PROVE s = {}
      <4>1. IsFiniteSet(s) /\ Cardinality(s) \in Nat /\ Cardinality(s) <= 0
        BY <1>1
      <4>2. ASSUME s # {} PROVE FALSE
        <5>1. /\ Cardinality(s \ {First(s)}) \in Nat
              /\ Cardinality(s \ {First(s)}) = Cardinality(s) - 1
          BY <4>1, <4>2, FirstTaken
        <5> HIDE DEF Small
        <5> QED
          BY <4>1, <5>1
      <4> QED
        BY <4>2
    <3>2. Sums([s \in Small(0) |-> 0], Small(0))
      BY <3>1 DEF Sums
    <3> QED
      BY <2>2, <2>3, <3>2
  <2>4. CASE n # 0
    <3>1. n - 1 \notin Bad
      <4>1. n - 1 \in Nat /\ ~ (n <= n - 1)
        BY <2>2, <2>4
      <4> HIDE DEF Bad
      <4> QED
        BY <2>1, <4>1
    <3>2. PICK f : Sums(f, Small(n - 1))
      BY <2>2, <2>4, <3>1
    <3> DEFINE g == [s \in Small(n) |-> IF s \in Small(n - 1) THEN f[s]
                                        ELSE First(s).cost + f[s \ {First(s)}]]
    <3>3. ASSUME NEW s \in Small(n), s # {} PROVE s \ {First(s)} \in Small(n - 1)
      <4>1. IsFiniteSet(s) /\ s \ {First(s)} \in SUBSET S /\ Cardinality(s) <= n
        BY <1>1
      <4>2. /\ Cardinality(s) \in Nat
            /\ Cardinality(s \ {First(s)}) = Cardinality(s) - 1
        BY <4>1, <3>3, FirstTaken
      <4> QED
        BY <2>2, <4>1, <4>2
    <3>4. \A s \in Small(n - 1) : s \in Small(n)
      BY <2>2, <2>4, <1>1
    <3>5. {} \in Small(n - 1)
      BY <2>2, <2>4, FS_EmptySet
    <3>6. ASSUME NEW s \in Small(n)
          PROVE  g[s] = IF s = {} THEN 0 ELSE First(s).cost + g[s \ {First(s)}]
      <4> HIDE DEF Small
      <4>1. \A t \in Small(n - 1) :
              f[t] = IF t = {} THEN 0 ELSE First(t).cost + f[t \ {First(t)}]
        BY <3>2 DEF Sums
      <4>2. CASE s = {}
        BY <4>1, <4>2, <3>5
      <4>3. CASE s # {}
        <5>1. g[s \ {First(s)}] = f[s \ {First(s)}]
          BY <4>3, <3>3, <3>4
        <5> QED
          BY <4>1, <4>3, <5>1
      <4> QED
        BY <4>2, <4>3
    <3>7. Sums(g, Small(n))
      BY <3>6 DEF Sums
    <3> QED
      BY <2>2, <3>7
  <2> QED
    BY <2>3, <2>4
<1>3. Cardinality(S) \in Nat
  BY FS_CardinalityType
<1>4. \A s \in SUBSET S : Cardinality(s) <= Cardinality(S)
  BY FS_Subset
<1>5. Small(Cardinality(S)) = SUBSET S
  BY <1>4
<1>6. Cardinality(S) \notin Bad
  BY <1>2
<1> QED
  BY <1>3, <1>5, <1>6

\* Two solutions agree wherever both are defined.
LEMMA SumsAgree ==
  ASSUME NEW S, NEW T, IsFiniteSet(S),
         NEW f, NEW g, Sums(f, SUBSET S), Sums(g, SUBSET T)
  PROVE  \A s \in (SUBSET S) \cap (SUBSET T) : f[s] = g[s]
<1> DEFINE Bad == {s \in (SUBSET S) \cap (SUBSET T) : f[s] # g[s]}
<1>1. ASSUME Bad # {} PROVE FALSE
  <2>1. \A s \in Bad : IsFiniteSet(s)
    BY FS_Subset
  <2>2. PICK s \in Bad : \A t \in Bad : Cardinality(s) <= Cardinality(t)
    <3> HIDE DEF Bad
    <3> QED
      BY <1>1, <2>1, LeastSet
  <2>3. /\ f[s] = IF s = {} THEN 0 ELSE First(s).cost + f[s \ {First(s)}]
        /\ g[s] = IF s = {} THEN 0 ELSE First(s).cost + g[s \ {First(s)}]
    BY DEF Sums
  <2>4. s # {} /\ f[s \ {First(s)}] # g[s \ {First(s)}]
    BY <2>3
  <2>5. s \ {First(s)} \in Bad
    BY <2>4
  <2>6. /\ Cardinality(s) \in Nat
        /\ Cardinality(s \ {First(s)}) = Cardinality(s) - 1
    BY <2>1, <2>4, FirstTaken
  <2>7. Cardinality(s) <= Cardinality(s \ {First(s)})
    <3> HIDE DEF Bad
    <3> QED
      BY <2>2, <2>5
  <2> QED
    BY <2>6, <2>7
<1> QED
  BY <1>1

\* So the total is what its recursion says.
LEMMA TotalDef ==
  ASSUME NEW S, IsFiniteSet(S)
  PROVE  Total(S) = IF S = {} THEN 0 ELSE First(S).cost + Total(S \ {First(S)})
<1> DEFINE Fold(U) == CHOOSE f : Sums(f, SUBSET U)
<1>1. \A U : Total(U) = Fold(U)[U]
  BY DEF Total, MapThenSumSet, MapThenFoldSet, Sums, First
<1>2. \A U : IsFiniteSet(U) => Sums(Fold(U), SUBSET U)
  BY SumsExist
<1>3. Fold(S)[S] = IF S = {} THEN 0 ELSE First(S).cost + Fold(S)[S \ {First(S)}]
  <2>1. Sums(Fold(S), SUBSET S)
    BY <1>2
  <2> HIDE DEF Fold
  <2> QED
    BY <2>1 DEF Sums
<1>4. ASSUME S # {} PROVE Fold(S)[S \ {First(S)}] = Fold(S \ {First(S)})[S \ {First(S)}]
  <2> DEFINE T == S \ {First(S)}
             f == Fold(S)
             g == Fold(T)
  <2>1. IsFiniteSet(T)
    BY <1>4, FirstTaken
  <2>2. Sums(f, SUBSET S) /\ Sums(g, SUBSET T)
    BY <2>1, <1>2
  <2>3. T \in (SUBSET S) \cap (SUBSET T)
    OBVIOUS
  <2> HIDE DEF T, f, g
  <2>4. f[T] = g[T]
    BY <2>2, <2>3, SumsAgree
  <2> QED
    BY <2>4 DEF T, f, g
<1> HIDE DEF Fold
<1> QED
  BY <1>1, <1>3, <1>4

\* A total of integers is an integer.
LEMMA TotalType ==
  ASSUME NEW S, IsFiniteSet(S), \A u \in S : u.cost \in Int
  PROVE  Total(S) \in Int
<1> DEFINE Bad == {s \in SUBSET S : Total(s) \notin Int}
<1>1. ASSUME Bad # {} PROVE FALSE
  <2>1. \A s \in Bad : IsFiniteSet(s)
    BY FS_Subset
  <2>2. PICK s \in Bad : \A t \in Bad : Cardinality(s) <= Cardinality(t)
    <3> HIDE DEF Bad
    <3> QED
      BY <1>1, <2>1, LeastSet
  <2>3. Total(s) = IF s = {} THEN 0 ELSE First(s).cost + Total(s \ {First(s)})
    BY <2>1, TotalDef
  <2>4. s # {}
    BY <2>3
  <2>5. /\ First(s) \in s
        /\ Cardinality(s) \in Nat
        /\ Cardinality(s \ {First(s)}) = Cardinality(s) - 1
    BY <2>1, <2>4, FirstTaken
  <2>6. s \ {First(s)} \notin Bad
    <3> HIDE DEF Bad
    <3> QED
      BY <2>2, <2>5
  <2> QED
    BY <2>3, <2>4, <2>5, <2>6
<1> QED
  BY <1>1

\* One more event adds its cost, whatever the order they are summed in.
LEMMA TotalAdd ==
  ASSUME NEW S, IsFiniteSet(S), \A v \in S : v.cost \in Int
  PROVE  \A s \in SUBSET S : \A u \in S \ s : Total(s \union {u}) = Total(s) + u.cost
<1> DEFINE Bad == {s \in SUBSET S : \E u \in S \ s : Total(s \union {u}) # Total(s) + u.cost}
<1>1. \A s \in SUBSET S : IsFiniteSet(s)
  BY FS_Subset
<1>2. ASSUME Bad # {} PROVE FALSE
  <2>1. PICK s \in Bad : \A t \in Bad : Cardinality(s) <= Cardinality(t)
    <3>1. \A t \in Bad : IsFiniteSet(t)
      BY <1>1
    <3> HIDE DEF Bad
    <3> QED
      BY <1>2, <3>1, LeastSet
  <2>2. PICK u \in S \ s : Total(s \union {u}) # Total(s) + u.cost
    OBVIOUS
  <2>3. s \in SUBSET S /\ IsFiniteSet(s) /\ s \union {u} \in SUBSET S
    BY <1>1
  <2>4. PICK x \in s \union {u} :
          Total(s \union {u}) = x.cost + Total((s \union {u}) \ {x})
    <3>1. IsFiniteSet(s \union {u}) /\ s \union {u} # {}
      BY <1>1, <2>3
    <3> QED
      BY <3>1, TotalDef, FirstTaken
  <2>5. \A t \in SUBSET S : Total(t) \in Int
    BY <1>1, TotalType
  <2>6. CASE x = u
    <3>1. (s \union {u}) \ {u} = s
      OBVIOUS
    <3> QED
      BY <2>2, <2>3, <2>4, <2>5, <2>6, <3>1
  <2>7. CASE x # u
    <3> DEFINE t == s \ {x}
    <3>1. x \in s /\ t \in SUBSET S /\ u \in S \ t /\ x \in S \ t
      BY <2>3, <2>7
    <3>2. (s \union {u}) \ {x} = t \union {u} /\ t \union {x} = s
      BY <2>7, <3>1
    <3>3. /\ Cardinality(s) \in Nat
          /\ Cardinality(t) = Cardinality(s) - 1
      BY <2>3, <3>1, FS_CardinalityType, FS_RemoveElement
    <3>4. t \notin Bad
      <4> HIDE DEF Bad, t
      <4> QED
        BY <2>1, <3>3
    <3> HIDE DEF t
    <3>5. /\ Total(t \union {u}) = Total(t) + u.cost
          /\ Total(t \union {x}) = Total(t) + x.cost
      BY <3>1, <3>4
    <3>6. Total(t) \in Int /\ u.cost \in Int /\ x.cost \in Int
      BY <2>5, <3>1
    <3>7. /\ Total(s) = Total(t) + x.cost
          /\ Total(s \union {u}) = x.cost + (Total(t) + u.cost)
      BY <2>4, <3>2, <3>5
    <3> HIDE DEF Bad
    <3> QED
      BY <2>2, <3>6, <3>7
  <2> QED
    BY <2>6, <2>7
<1> QED
  BY <1>2

\* What an event costs is a number.
LEMMA EventCosts == QuotaTypeOK => \A r \in usage : r.cost \in Nat
<1> SUFFICES ASSUME QuotaTypeOK, NEW r \in usage PROVE r.cost \in Nat
  OBVIOUS
<1>1. r \in UsageEvent
  BY DEF QuotaTypeOK
<1>2. r.cost \in Costs
  BY <1>1 DEF UsageEvent
<1> QED
  BY <1>2, AmountsAssumption

\* Only finitely many events are ever inserted.
LEMMA UsageStaysFinite ==
  ASSUME IsFiniteSet(usage), [QuotaNext]_quotaVars
  PROVE  IsFiniteSet(usage')
<1>1. ASSUME NEW r, usage' = usage \union {r} PROVE IsFiniteSet(usage')
  BY <1>1, FS_AddElement
<1>2. UNCHANGED usage \/ \E r : usage' = usage \union {r}
  BY DEF QuotaNext, ConsumeCredits, Charge, Refuse, Seed, GrantCredits, Tick, quotaVars
<1> QED
  BY <1>1, <1>2

\* What a workspace has been charged since it was last seeded.
Spent(w) == Total(RowsOf(w) \ settled)

\* The counter is the sum of the cost of every event since the last reseed, over
\* any history of charges, refusals, reseeds and top-ups (quota.ts:4, 93-121).
THEOREM CounterIsLedger == QuotaSpec => []LedgerMatches
<1> DEFINE Inv == IsFiniteSet(usage) /\ LedgerMatches
           Matches(w) == quota[w] # NoRow => quota[w].consumed = Spent(w)
<1>0. LedgerMatches <=> \A w \in Workspaces : Matches(w)
  BY DEF LedgerMatches, Spent, Total
<1>1. QuotaInit => Inv
  BY FS_EmptySet DEF QuotaInit, LedgerMatches
<1>2. ASSUME QuotaTypeOK, Inv, [QuotaNext]_quotaVars
      PROVE  Inv'
  <2>0. IsFiniteSet(usage')
    BY <1>2, UsageStaysFinite
  <2>1. LedgerMatches' <=> \A w \in Workspaces : quota'[w] # NoRow => quota'[w].consumed = Spent(w)'
    BY DEF LedgerMatches, Spent, Total, RowsOf
  <2> SUFFICES \A v \in Workspaces : quota'[v] # NoRow => quota'[v].consumed = Spent(v)'
    BY <2>0, <2>1
  <2> USE <1>2 DEF QuotaTypeOK
  <2>2. ASSUME NEW w \in Workspaces, NEW cost \in Costs, NEW key \in Keys,
               NEW at \in 0..MaxTime, Charge(w, cost, key, at)
        PROVE  \A v \in Workspaces : quota'[v] # NoRow => quota'[v].consumed = Spent(v)'
    <3> DEFINE u == [ws |-> w, key |-> key, cost |-> cost, at |-> at]
               before == RowsOf(w) \ settled
    <3>1. /\ usage' = usage \union {u} /\ u \notin usage /\ u.ws = w /\ u.cost = cost
          /\ settled' = settled
      BY <2>2 DEF Charge, Collides
    <3>2. quota[w] \in QuotaRow /\ quota[w] # NoRow /\ quota'[w] = ChargedRow(quota[w], cost)
      BY <2>2 DEF Charge
    <3>3. ChargedRow(quota[w], cost).consumed = quota[w].consumed + cost
      BY <3>2 DEF ChargedRow, QuotaRow
    <3>4. /\ RowsOf(w)' \ settled' = before \union {u}
          /\ \A v \in Workspaces \ {w} : RowsOf(v)' \ settled' = RowsOf(v) \ settled
      BY <3>1 DEF RowsOf
    <3>5. /\ before \in SUBSET usage' /\ u \in usage' \ before
          /\ \A r \in usage' : r.cost \in Int
      <4>1. \A r \in usage : r.cost \in Nat
        BY EventCosts
      <4>2. u.cost \in Int
        BY <3>1, AmountsAssumption
      <4> HIDE DEF u
      <4> QED
        BY <3>1, <4>1, <4>2 DEF RowsOf
    <3>6. Total(before \union {u}) = Total(before) + u.cost
      <4> HIDE DEF before, u
      <4> QED
        BY <2>0, <3>5, TotalAdd
    <3>7. quota'[w].consumed = Spent(w)'
      BY <1>0, <3>1, <3>2, <3>3, <3>4, <3>6 DEF Spent
    <3>8. \A v \in Workspaces \ {w} : quota'[v] = quota[v] /\ Spent(v)' = Spent(v)
      BY <2>2, <3>4 DEF Charge, Spent
    <3> QED
      BY <1>0, <3>7, <3>8
  <2>3. ASSUME NEW w \in Workspaces, NEW cost \in Costs, Refuse(w, cost)
        PROVE  \A v \in Workspaces : quota'[v] # NoRow => quota'[v].consumed = Spent(v)'
    <3>1. quota[w] \in QuotaRow /\ quota[w] # NoRow /\ quota'[w] = RefusedRow(quota[w])
      BY <2>3 DEF Refuse
    <3>2. RefusedRow(quota[w]).consumed = quota[w].consumed
      BY <3>1 DEF RefusedRow, QuotaRow
    <3>3. \A v \in Workspaces : Spent(v)' = Spent(v)
      BY <2>3 DEF Refuse, Spent, RowsOf
    <3>4. \A v \in Workspaces \ {w} : quota'[v] = quota[v]
      BY <2>3 DEF Refuse
    <3> QED
      BY <1>0, <3>1, <3>2, <3>3, <3>4
  <2>4. ASSUME NEW w \in Workspaces, NEW plan \in Plans, NEW period \in Periods,
               Seed(w, plan, period)
        PROVE  \A v \in Workspaces : quota'[v] # NoRow => quota'[v].consumed = Spent(v)'
    <3>1. quota'[w].consumed = 0 /\ \A v \in Workspaces \ {w} : quota'[v] = quota[v]
      BY <2>4 DEF Seed, SeededRow
    <3>2. /\ RowsOf(w)' \ settled' = {}
          /\ \A v \in Workspaces \ {w} : RowsOf(v)' \ settled' = RowsOf(v) \ settled
      BY <2>4 DEF Seed, RowsOf
    <3>3. Total({}) = 0
      BY TotalDef, FS_EmptySet
    <3>4. /\ Spent(w)' = 0
          /\ \A v \in Workspaces \ {w} : Spent(v)' = Spent(v)
      BY <3>2, <3>3 DEF Spent
    <3> QED
      BY <1>0, <3>1, <3>4
  <2>5. ASSUME NEW w \in Workspaces, NEW extra \in Extras, GrantCredits(w, extra)
        PROVE  \A v \in Workspaces : quota'[v] # NoRow => quota'[v].consumed = Spent(v)'
    <3>1. quota[w] \in QuotaRow /\ quota[w] # NoRow
      BY <2>5 DEF GrantCredits
    <3>2. /\ quota'[w].consumed = quota[w].consumed
          /\ \A v \in Workspaces \ {w} : quota'[v] = quota[v]
      BY <2>5, <3>1 DEF GrantCredits, QuotaRow
    <3>3. \A v \in Workspaces : Spent(v)' = Spent(v)
      BY <2>5 DEF GrantCredits, Spent, RowsOf
    <3> QED
      BY <1>0, <3>1, <3>2, <3>3
  <2>6. CASE Tick \/ UNCHANGED quotaVars
    <3>1. UNCHANGED <<quota, usage, settled>>
      BY <2>6 DEF Tick, quotaVars
    <3>2. \A v \in Workspaces : Spent(v)' = Spent(v)
      BY <3>1 DEF Spent, RowsOf
    <3> QED
      BY <1>0, <3>1, <3>2
  <2> QED
    BY <2>2, <2>3, <2>4, <2>5, <2>6 DEF QuotaNext, ConsumeCredits
<1>3. QED
  BY <1>1, <1>2, LedgerTypes, PTL DEF QuotaSpec

---------------------------------------------------------------------------
(* The ledger implements Allowance.  A row's account depends on its grant and *)
(* its consumption alone, so what writes only flags is a stutter.             *)

Accounts == [w \in Workspaces |-> AccountOf(quota[w])]
Grants == {AccountOf(SeededRow(plan, period)) : plan \in Plans, period \in Periods}

\* Every row, and its absence, is an account.
LEMMA AccountTypes ==
  ASSUME NEW r \in QuotaRow \union {NoRow}
  PROVE  AccountOf(r) \in Budget!Account
<1>1. CASE r = NoRow
  BY <1>1 DEF AccountOf, Budget!Account
<1>2. CASE r # NoRow
  <2>1. r.granted \in Int /\ r.consumed \in Nat
    BY <1>2 DEF QuotaRow
  <2>2. QED
    BY <1>2, <2>1 DEF AccountOf, Budget!Account
<1>3. QED
  BY <1>1, <1>2

\* A step that changes one row changes at most that workspace's account.
LEMMA OneAccount ==
  ASSUME NEW w \in Workspaces, NEW r, QuotaTypeOK, quota' = [quota EXCEPT ![w] = r]
  PROVE  /\ Accounts' = [Accounts EXCEPT ![w] = AccountOf(r)]
         /\ Accounts'[w] = AccountOf(r)
         /\ Accounts[w] = AccountOf(quota[w])
  BY DEF QuotaTypeOK, Accounts, AccountOf, Unlimited

LEMMA AccountsStep ==
  QuotaTypeOK /\ QuotaTypeOK' /\ [QuotaNext]_quotaVars
    => [Budget!AllowanceNext]_<<Accounts, usage>>
<1> SUFFICES ASSUME QuotaTypeOK, QuotaTypeOK', [QuotaNext]_quotaVars
             PROVE  Budget!AllowanceNext \/ UNCHANGED <<Accounts, usage>>
  OBVIOUS
<1>0. Accounts' \in [Workspaces -> Budget!Account]
  <2>1. \A v \in Workspaces : quota'[v] \in QuotaRow \union {NoRow}
    BY DEF QuotaTypeOK
  <2>2. \A r \in QuotaRow \union {NoRow} : AccountOf(r) \in Budget!Account
    BY AccountTypes
  <2>3. Accounts' = [v \in Workspaces |-> AccountOf(quota'[v])]
    BY DEF Accounts, AccountOf, Unlimited
  <2>4. QED
    BY <2>1, <2>2, <2>3
<1>1. ASSUME NEW w \in Workspaces, NEW cost \in Costs, NEW key \in Keys,
             NEW at \in 0..MaxTime, Charge(w, cost, key, at)
      PROVE  Budget!Spend(w)
  <2> DEFINE r == [ws |-> w, key |-> key, cost |-> cost, at |-> at]
  <2>1. r \in usage' \ usage /\ usage' = usage \union {r} /\ r.ws = w /\ r.cost = cost
    BY <1>1 DEF Charge, Collides
  <2>2. quota[w] \in QuotaRow /\ quota[w] # NoRow /\ cost \in Nat
    BY <1>1, AmountsAssumption DEF Charge, QuotaTypeOK
  <2>3. /\ ChargedRow(quota[w], cost) \in QuotaRow
        /\ ChargedRow(quota[w], cost) # NoRow
        /\ ChargedRow(quota[w], cost).granted = quota[w].granted
        /\ ChargedRow(quota[w], cost).consumed = quota[w].consumed + cost
    BY <1>1, <2>2, RowTypes, RowIsPresent DEF Charge, ChargedRow, QuotaRow
  <2>4. quota[w].granted \in Int /\ quota[w].consumed \in Nat
    BY <2>2 DEF QuotaRow
  <2>5. /\ AccountOf(quota[w]).kind # "none"
        /\ AccountOf(quota[w]).kind = "limited" => cost <= AccountOf(quota[w]).left
    BY <1>1, <2>2, <2>4 DEF Charge, Fits, AccountOf, Unlimited
  <2>6. AccountOf(ChargedRow(quota[w], cost)) =
          [AccountOf(quota[w]) EXCEPT !.left =
             IF AccountOf(quota[w]).kind = "limited" THEN @ - cost ELSE @]
    BY <2>2, <2>3, <2>4 DEF AccountOf, Unlimited
  <2>7. /\ Accounts' = [Accounts EXCEPT ![w] = AccountOf(ChargedRow(quota[w], cost))]
        /\ Accounts[w] = AccountOf(quota[w])
    BY <1>1, OneAccount DEF Charge
  <2>8. Accounts' = [Accounts EXCEPT ![w].left =
                       IF Accounts[w].kind = "limited" THEN @ - r.cost ELSE @]
    BY <2>1, <2>6, <2>7
  <2> HIDE DEF r
  <2>9. QED
    BY <2>1, <2>5, <2>7, <2>8 DEF Budget!Spend, Accounts
<1>2. ASSUME NEW w \in Workspaces, NEW cost \in Costs, Refuse(w, cost)
      PROVE  UNCHANGED <<Accounts, usage>>
  <2>1. quota[w] \in QuotaRow /\ quota[w] # NoRow
    BY <1>2 DEF Refuse, QuotaTypeOK
  <2>2. RefusedRow(quota[w]) # NoRow
    BY <2>1, RowTypes, RowIsPresent
  <2>3. AccountOf(RefusedRow(quota[w])) = AccountOf(quota[w])
    BY <2>1, <2>2 DEF RefusedRow, AccountOf, Unlimited, QuotaRow
  <2>4. Accounts' = [Accounts EXCEPT ![w] = Accounts[w]]
    BY <1>2, <2>3, OneAccount DEF Refuse
  <2>5. QED
    BY <1>2, <2>4 DEF Refuse, Accounts
<1>3. ASSUME NEW w \in Workspaces, NEW plan \in Plans, NEW period \in Periods,
             Seed(w, plan, period)
      PROVE  Budget!Refill(w)
  <2>1. /\ Accounts' = [Accounts EXCEPT ![w] = AccountOf(SeededRow(plan, period))]
        /\ Accounts'[w] = AccountOf(SeededRow(plan, period))
    BY <1>3, OneAccount DEF Seed
  <2>2. Accounts'[w] \in Grants
    BY <2>1 DEF Grants
  <2>3. \A v \in Workspaces \ {w} : Accounts'[v] = Accounts[v]
    BY <2>1 DEF Accounts
  <2>4. UNCHANGED usage
    BY <1>3 DEF Seed
  <2>5. QED
    BY <1>0, <2>2, <2>3, <2>4 DEF Budget!Refill, Budget!Only, Accounts, Grants
<1>4. ASSUME NEW w \in Workspaces, NEW extra \in Extras, GrantCredits(w, extra)
      PROVE  Budget!Raise(w) \/ UNCHANGED <<Accounts, usage>>
  <2> DEFINE r == [quota[w] EXCEPT !.granted = @ + extra]
  <2>1. /\ quota[w] \in QuotaRow /\ quota[w] # NoRow
        /\ r \in QuotaRow /\ r # NoRow
    BY <1>4, RowTypes, RowIsPresent DEF GrantCredits, QuotaTypeOK
  <2>2. extra \in Nat /\ extra > 0 /\ quota[w].granted \in Int /\ quota[w].consumed \in Nat
    BY <2>1, AmountsAssumption DEF QuotaRow
  <2>3. r.granted = quota[w].granted + extra /\ r.consumed = quota[w].consumed
    BY <2>1 DEF QuotaRow
  <2>4. quota' = [quota EXCEPT ![w] = r]
    BY <1>4 DEF GrantCredits
  <2> HIDE DEF r
  <2>5. /\ Accounts' = [Accounts EXCEPT ![w] = AccountOf(r)]
        /\ Accounts'[w] = AccountOf(r)
        /\ Accounts[w] = AccountOf(quota[w])
    BY <2>4, OneAccount
  <2>6. UNCHANGED usage
    BY <1>4 DEF GrantCredits
  <2>7. CASE r.granted < 0
    <3>1. AccountOf(r) = AccountOf(quota[w])
      BY <2>1, <2>2, <2>3, <2>7 DEF AccountOf, Unlimited
    <3>2. Accounts' = Accounts
      BY <2>5, <3>1 DEF Accounts
    <3>3. QED
      BY <2>6, <3>2
  <2>8. CASE ~(r.granted < 0)
    <3>1. /\ AccountOf(r).kind = "limited"
          /\ AccountOf(quota[w]).kind \in {"limited", "unlimited"}
          /\ AccountOf(quota[w]).kind = "limited"
               => AccountOf(r).left > AccountOf(quota[w]).left
      BY <2>1, <2>2, <2>3, <2>8 DEF AccountOf, Unlimited
    <3>2. \A v \in Workspaces \ {w} : Accounts'[v] = Accounts[v]
      BY <2>5 DEF Accounts
    <3>3. QED
      BY <1>0, <2>5, <2>6, <3>1, <3>2 DEF Budget!Raise, Budget!Only, Accounts
  <2>9. QED
    BY <2>7, <2>8
<1>5. CASE Tick \/ UNCHANGED quotaVars
  BY <1>5 DEF Tick, quotaVars, Accounts
<1>6. QED
  BY <1>1, <1>2, <1>3, <1>4, <1>5 DEF QuotaNext, ConsumeCredits, Budget!AllowanceNext

\* The row-by-row ledger keeps the promise of Allowance: credits leave an account
\* only against a receipt of their cost, once, and never more than are left
\* (quota.ts:39-132, 154-177).
THEOREM LedgerKeepsBudget == QuotaSpec => BudgetSpec
<1>1. QuotaInit => Budget!AllowanceInit
  BY DEF QuotaInit, Budget!AllowanceInit, Budget!NoAccount, AccountOf
<1>2. QuotaTypeOK /\ QuotaTypeOK' /\ [QuotaNext]_quotaVars
        => [Budget!AllowanceNext]_(Budget!allowanceVars)
  BY AccountsStep DEF Budget!allowanceVars, Accounts
<1>3. QED
  BY <1>1, <1>2, LedgerTypes, PTL DEF QuotaSpec, BudgetSpec, Budget!AllowanceSpec

---------------------------------------------------------------------------
(* The transactions.                                                        *)

\* The inductive invariant.
TxInv == TxTypeOK /\ LockHeld /\ SnapshotFresh /\ WriteSound /\ EventsFresh

\* What a session may do to the committed rows: nothing, or overwrite the row
\* of the workspace whose lock it holds.
WritesOwnRow(p) ==
  \/ quota' = quota
  \/ pc[p] \in Holding /\ \E r \in QuotaRow : quota' = [quota EXCEPT ![req[p].ws] = r]

\* Everybody but p is where it was.
OthersStay(p) ==
  \A q \in Procs \ {p} : pc'[q] = pc[q] /\ req'[q] = req[q] /\ row'[q] = row[q]

LEMMA RequestFields ==
  /\ \A r \in Request : r.ws \in Workspaces
  /\ \A r \in Request : r.op = "consume" => r \in ConsumeReq
  /\ \A r \in Request : r.op = "seed" => r \in SeedReq
  /\ \A r \in Request : r.op = "grant" => r \in GrantReq
  /\ \A r \in ConsumeReq : EventOf(r) \in UsageEvent /\ r.op = "consume"
  /\ \A r \in SeedReq : r.op = "seed"
  /\ \A r \in GrantReq : r.op = "grant"
<1>1. \A r \in ConsumeReq : r.ws \in Workspaces /\ r.op = "consume" /\ EventOf(r) \in UsageEvent
  BY DEF ConsumeReq, EventOf, UsageEvent
<1>2. \A r \in SeedReq : r.ws \in Workspaces /\ r.op = "seed"
  BY DEF SeedReq
<1>3. \A r \in GrantReq : r.ws \in Workspaces /\ r.op = "grant"
  BY DEF GrantReq
<1>4. QED
  BY <1>1, <1>2, <1>3 DEF Request

\* Mutual exclusion, and the committed rows under other sessions' locks.
LEMMA OthersUnaffected ==
  ASSUME TxTypeOK, LockHeld, NEW p \in Procs, WritesOwnRow(p),
         NEW q \in Procs \ {p}, pc[q] \in Holding
  PROVE  quota'[req[q].ws] = quota[req[q].ws]
<1>1. req[p].ws \in Workspaces /\ req[q].ws \in Workspaces
  BY RequestFields DEF TxTypeOK
<1>2. CASE quota' = quota
  BY <1>2
<1>3. CASE pc[p] \in Holding
  <2>1. lock[req[p].ws] = p /\ lock[req[q].ws] = q
    BY <1>1, <1>3 DEF LockHeld
  <2>2. req[p].ws # req[q].ws
    BY <2>1
  <2>3. QED
    BY <1>1, <2>2 DEF WritesOwnRow, TxTypeOK, QuotaTypeOK
<1>4. QED
  BY <1>2, <1>3 DEF WritesOwnRow

\* Hence p's steps leave every other session's snapshot and pending row sound.
LEMMA OthersStaySound ==
  ASSUME TxInv, NEW p \in Procs, WritesOwnRow(p), OthersStay(p),
         NEW q \in Procs \ {p}
  PROVE  /\ pc'[q] \in {"locked", "inserted"} => row'[q] = quota'[req'[q].ws]
         /\ WriteSoundFor(q)'
<1>1. pc'[q] = pc[q] /\ req'[q] = req[q] /\ row'[q] = row[q]
  BY DEF OthersStay
<1>2. CASE pc[q] \in Holding
  <2>1. quota'[req[q].ws] = quota[req[q].ws]
    BY <1>2, OthersUnaffected DEF TxInv
  <2>2. QED
    BY <1>1, <2>1 DEF TxInv, SnapshotFresh, WriteSound, WriteSoundFor
<1>3. CASE pc[q] \notin Holding
  BY <1>1, <1>3 DEF Holding, WriteSoundFor
<1>4. QED
  BY <1>2, <1>3

---------------------------------------------------------------------------
(* Every step of a transaction is a step of the ledger or none.            *)

LEMMA Simulation == TxInv /\ [TxNext]_vars => [QuotaNext]_quotaVars
<1> SUFFICES ASSUME TxInv, [TxNext]_vars
             PROVE  [QuotaNext]_quotaVars
  OBVIOUS
<1>1. ASSUME NEW p \in Procs, CommitCharge(p)
      PROVE  QuotaNext
  <2> DEFINE r == req[p]
  <2>1. r \in ConsumeReq
    BY <1>1 DEF CommitCharge, TxInv, WriteSound, WriteSoundFor
  <2>2. /\ quota[r.ws] # NoRow
        /\ Fits(quota[r.ws], r.cost)
        /\ quota[r.ws].consumed + r.cost <= IntMax
        /\ row[p] = ChargedRow(quota[r.ws], r.cost)
    BY <1>1 DEF CommitCharge, TxInv, WriteSound, WriteSoundFor
  <2>3. r.at <= now /\ ~Collides(r.key, r.at)
    BY <1>1, <2>1, RequestFields DEF CommitCharge, TxInv, EventsFresh
  <2>4. r.ws \in Workspaces /\ r.cost \in Costs /\ r.key \in Keys /\ r.at \in 0..MaxTime
    BY <2>1 DEF ConsumeReq
  <2>5. Charge(r.ws, r.cost, r.key, r.at)
    BY <1>1, <2>2, <2>3 DEF CommitCharge, Charge, EventOf
  <2>6. QED
    BY <2>4, <2>5 DEF QuotaNext, ConsumeCredits
<1>2. ASSUME NEW p \in Procs, CommitRefusal(p)
      PROVE  QuotaNext
  <2> DEFINE r == req[p]
  <2>1. /\ r \in ConsumeReq
        /\ quota[r.ws] # NoRow
        /\ ~Fits(quota[r.ws], r.cost)
        /\ row[p] = RefusedRow(quota[r.ws])
    BY <1>2 DEF CommitRefusal, TxInv, WriteSound, WriteSoundFor
  <2>2. Refuse(r.ws, r.cost)
    BY <1>2, <2>1 DEF CommitRefusal, Refuse
  <2>3. r.ws \in Workspaces /\ r.cost \in Costs
    BY <2>1 DEF ConsumeReq
  <2>4. QED
    BY <2>2, <2>3 DEF QuotaNext, ConsumeCredits
<1>3. ASSUME NEW p \in Procs, CommitSeed(p)
      PROVE  QuotaNext
  <2> DEFINE r == req[p]
  <2>1. r \in SeedReq /\ row[p] = SeededRow(r.plan, r.period)
    BY <1>3 DEF CommitSeed, TxInv, WriteSound, WriteSoundFor
  <2>2. Seed(r.ws, r.plan, r.period)
    BY <1>3, <2>1 DEF CommitSeed, Seed
  <2>3. r.ws \in Workspaces /\ r.plan \in Plans /\ r.period \in Periods
    BY <2>1 DEF SeedReq
  <2>4. QED
    BY <2>2, <2>3 DEF QuotaNext
<1>4. ASSUME NEW p \in Procs, CommitGrant(p)
      PROVE  QuotaNext
  <2> DEFINE r == req[p]
  <2>1. /\ r \in GrantReq
        /\ quota[r.ws] # NoRow
        /\ quota[r.ws].granted + r.extra <= IntMax
        /\ row[p] = [quota[r.ws] EXCEPT !.granted = @ + r.extra]
    BY <1>4 DEF CommitGrant, TxInv, WriteSound, WriteSoundFor
  <2>2. GrantCredits(r.ws, r.extra)
    BY <1>4, <2>1 DEF CommitGrant, GrantCredits
  <2>3. r.ws \in Workspaces /\ r.extra \in Extras
    BY <2>1 DEF GrantReq
  <2>4. QED
    BY <2>2, <2>3 DEF QuotaNext
<1>5. ASSUME NEW p \in Procs,
             \/ Begin(p) \/ Acquire(p) \/ Abort(p)
             \/ NoQuotaRow(p) \/ MarkRefused(p) \/ InsertEvent(p)
             \/ DuplicateEvent(p) \/ UpdateConsumed(p) \/ Overflow(p)
      PROVE  UNCHANGED quotaVars
  BY <1>5 DEF Begin, Acquire, SelectForUpdate, UpsertQuota, AddCredits, AddNothing,
              Abort, NoQuotaRow, MarkRefused, InsertEvent, DuplicateEvent,
              UpdateConsumed, Overflow, Step
<1>6. CASE TxTick
  BY <1>6 DEF TxTick, QuotaNext
<1>7. CASE UNCHANGED vars
  BY <1>7 DEF vars
<1>8. QED
  BY <1>1, <1>2, <1>3, <1>4, <1>5, <1>6, <1>7 DEF TxNext, Advance

---------------------------------------------------------------------------
(* The invariant is inductive.                                             *)

\* A transaction that ends leaves a sound state, whether it published its
\* own row and event or nothing.
LEMMA FinishKeepsInv ==
  ASSUME TxInv, NEW p \in Procs, NEW a \in Answers, Finish(p, a),
         QuotaTypeOK', WritesOwnRow(p), now' = now,
         \/ usage' = usage
         \/ pc[p] = "charged" /\ usage' = usage \union {EventOf(req[p])}
  PROVE  TxInv'
<1>1. OthersStay(p) /\ pc'[p] = "idle" /\ req' = req
  BY DEF Finish, OthersStay, TxInv, TxTypeOK
<1>2. TxTypeOK'
  BY DEF Finish, TxInv, TxTypeOK
<1>3. LockHeld'
  <2>1. \A q \in Procs, w \in Workspaces : q # p => (lock'[w] = q <=> lock[w] = q)
    BY NoProcAssumption DEF Finish
  <2>2. \A w \in Workspaces : lock'[w] # p
    BY NoProcAssumption DEF Finish
  <2>3. QED
    BY <1>1, <2>1, <2>2 DEF LockHeld, OthersStay, TxInv, Holding
<1>4. SnapshotFresh' /\ WriteSound'
  <2>1. \A q \in Procs \ {p} :
          /\ pc'[q] \in {"locked", "inserted"} => row'[q] = quota'[req'[q].ws]
          /\ WriteSoundFor(q)'
    BY <1>1, OthersStaySound
  <2>2. WriteSoundFor(p)'
    BY <1>1 DEF WriteSoundFor
  <2>3. QED
    BY <1>1, <2>1, <2>2 DEF SnapshotFresh, WriteSound
<1>5. EventsFresh'
  <2>1. ASSUME NEW q \in Procs \ {p}, pc[q] \in {"inserted", "charged"}
        PROVE  ~Collides(req[q].key, req[q].at)'
    <3>1. ~Collides(req[q].key, req[q].at)
      BY <2>1 DEF TxInv, EventsFresh
    <3>2. CASE usage' = usage
      BY <1>1, <3>1, <3>2 DEF Collides
    <3>3. CASE pc[p] = "charged" /\ usage' = usage \union {EventOf(req[p])}
      <4>1. <<req[p].key, req[p].at>> # <<req[q].key, req[q].at>>
        BY <2>1, <3>3 DEF TxInv, EventsFresh
      <4>2. EventOf(req[p]).key = req[p].key /\ EventOf(req[p]).at = req[p].at
        BY DEF EventOf
      <4>3. QED
        BY <1>1, <3>1, <3>3, <4>1, <4>2 DEF Collides
    <3>4. QED
      BY <3>2, <3>3
  <2>2. QED
    BY <1>1, <2>1 DEF OthersStay, EventsFresh, TxInv
<1>6. QED
  BY <1>2, <1>3, <1>4, <1>5 DEF TxInv

\* Taking the lock with the first statement.
LEMMA AcquireKeepsInv ==
  ASSUME TxInv, NEW p \in Procs, NEW to \in Holding \ {"inserted", "charged"},
         NEW r \in QuotaRow, pc[p] = "begun", TakeLock(p), Step(p, to, r),
         to = "locked" => r = quota[req[p].ws], WriteSoundFor(p)'
  PROVE  TxInv'
<1>1. /\ OthersStay(p) /\ pc'[p] = to /\ row'[p] = r
      /\ UNCHANGED <<quota, usage, now, settled, boosted, req, answer>>
  BY DEF Step, OthersStay, TxInv, TxTypeOK, quotaVars
<1>2. req[p].ws \in Workspaces
  BY RequestFields DEF TxInv, TxTypeOK
<1>3. TxTypeOK'
  BY <1>1, <1>2 DEF Step, TakeLock, TxInv, TxTypeOK, QuotaTypeOK
<1>4. LockHeld'
  <2>1. ASSUME NEW q \in Procs, NEW w \in Workspaces
        PROVE  (lock[w] = q <=> pc[q] \in Holding /\ req[q].ws = w)'
    <3>1. CASE q = p
      <4>1. lock'[w] = p <=> w = req[p].ws
        BY <1>2, NoProcAssumption DEF TakeLock, TxInv, TxTypeOK, LockHeld, Holding
      <4>2. QED
        BY <1>1, <3>1, <4>1
    <3>2. CASE q # p
      <4>1. lock'[w] = q <=> lock[w] = q
        BY <1>2, <3>2, NoProcAssumption DEF TakeLock, TxInv, TxTypeOK
      <4>2. QED
        BY <1>1, <3>2, <4>1 DEF OthersStay, TxInv, LockHeld
    <3>3. QED
      BY <3>1, <3>2
  <2>2. QED
    BY <2>1 DEF LockHeld
<1>5. SnapshotFresh' /\ WriteSound'
  <2>1. WritesOwnRow(p)
    BY <1>1 DEF WritesOwnRow
  <2>2. \A q \in Procs \ {p} :
          /\ pc'[q] \in {"locked", "inserted"} => row'[q] = quota'[req'[q].ws]
          /\ WriteSoundFor(q)'
    BY <1>1, <2>1, OthersStaySound
  <2>3. QED
    BY <1>1, <2>2 DEF SnapshotFresh, WriteSound
<1>6. EventsFresh'
  BY <1>1 DEF EventsFresh, Collides, OthersStay, TxInv
<1>7. QED
  BY <1>3, <1>4, <1>5, <1>6 DEF TxInv

\* A statement under the lock.
LEMMA PrivateStepKeepsInv ==
  ASSUME TxInv, NEW p \in Procs, NEW to \in Holding \ {"locked"},
         NEW r \in QuotaRow, pc[p] \in Holding, Step(p, to, r), UNCHANGED lock,
         to = "inserted" => r = quota[req[p].ws],
         to = "inserted" => ~Collides(req[p].key, req[p].at) /\ ~Pending(req[p].key, req[p].at),
         to = "charged" => pc[p] = "inserted",
         WriteSoundFor(p)'
  PROVE  TxInv'
<1>1. /\ OthersStay(p) /\ pc'[p] = to /\ row'[p] = r
      /\ UNCHANGED <<quota, usage, now, settled, boosted, req, answer>>
  BY DEF Step, OthersStay, TxInv, TxTypeOK, quotaVars
<1>2. TxTypeOK'
  BY <1>1 DEF Step, TxInv, TxTypeOK, QuotaTypeOK
<1>3. LockHeld'
  BY <1>1 DEF LockHeld, OthersStay, TxInv
<1>4. SnapshotFresh' /\ WriteSound'
  <2>1. WritesOwnRow(p)
    BY <1>1 DEF WritesOwnRow
  <2>2. \A q \in Procs \ {p} :
          /\ pc'[q] \in {"locked", "inserted"} => row'[q] = quota'[req'[q].ws]
          /\ WriteSoundFor(q)'
    BY <1>1, <2>1, OthersStaySound
  <2>3. QED
    BY <1>1, <2>2 DEF SnapshotFresh, WriteSound
<1>5. EventsFresh'
  <2>1. \A q \in Procs \ {p} :
          to \in {"inserted", "charged"} /\ pc[q] \in {"inserted", "charged"}
            => <<req[q].key, req[q].at>> # <<req[p].key, req[p].at>>
    BY DEF Pending, TxInv, EventsFresh
  <2>2. to \in {"inserted", "charged"} => ~Collides(req[p].key, req[p].at)
    BY DEF TxInv, EventsFresh
  <2>3. pc[p] # "idle"
    BY DEF Holding
  <2>4. QED
    BY <1>1, <2>1, <2>2, <2>3 DEF EventsFresh, Collides, OthersStay, TxInv
<1>6. QED
  BY <1>2, <1>3, <1>4, <1>5 DEF TxInv

LEMMA InvInit == TxInit => TxInv
<1> SUFFICES ASSUME TxInit
             PROVE  TxInv
  OBVIOUS
<1>1. TxTypeOK
  BY TypeInit DEF TxInit, TxTypeOK, Request, Answers
<1>2. LockHeld
  BY NoProcAssumption DEF TxInit, LockHeld, Holding
<1>3. SnapshotFresh /\ WriteSound /\ EventsFresh
  BY DEF TxInit, SnapshotFresh, WriteSound, WriteSoundFor, EventsFresh
<1>4. QED
  BY <1>1, <1>2, <1>3 DEF TxInv

LEMMA InvStep == TxInv /\ [TxNext]_vars => TxInv'
<1> SUFFICES ASSUME TxInv, [TxNext]_vars
             PROVE  TxInv'
  OBVIOUS
<1>0. QuotaTypeOK'
  BY Simulation, TypeStep DEF TxInv, TxTypeOK
<1>1. ASSUME NEW p \in Procs, Begin(p)
      PROVE  TxInv'
  <2>1. /\ pc[p] = "idle" /\ pc'[p] = "begun" /\ req'[p] \in Request
        /\ req'[p].op = "consume" => req'[p].at = now
        /\ \A q \in Procs \ {p} : pc'[q] = pc[q] /\ req'[q] = req[q]
        /\ UNCHANGED <<quota, usage, now, settled, boosted, row, lock>>
    BY <1>1 DEF Begin, quotaVars, TxInv, TxTypeOK
  <2>2. TxTypeOK'
    BY <1>1, <2>1 DEF Begin, TxInv, TxTypeOK, QuotaTypeOK, Answers
  <2>3. LockHeld'
    BY <2>1 DEF TxInv, LockHeld, Holding
  <2>4. SnapshotFresh' /\ WriteSound'
    <3>1. OthersStay(p) /\ WritesOwnRow(p)
      BY <2>1 DEF OthersStay, WritesOwnRow
    <3>2. \A q \in Procs \ {p} :
            /\ pc'[q] \in {"locked", "inserted"} => row'[q] = quota'[req'[q].ws]
            /\ WriteSoundFor(q)'
      BY <3>1, OthersStaySound
    <3>3. WriteSoundFor(p)'
      BY <2>1 DEF WriteSoundFor
    <3>4. QED
      BY <2>1, <3>2, <3>3 DEF SnapshotFresh, WriteSound
  <2>5. EventsFresh'
    BY <2>1 DEF TxInv, TxTypeOK, QuotaTypeOK, EventsFresh, Collides
  <2>6. QED
    BY <2>2, <2>3, <2>4, <2>5 DEF TxInv
<1>2. ASSUME NEW p \in Procs, SelectForUpdate(p)
      PROVE  TxInv'
  <2>1. quota[req[p].ws] \in QuotaRow /\ req[p] \in ConsumeReq
    BY <1>2, RequestFields DEF SelectForUpdate, TxInv, TxTypeOK, QuotaTypeOK
  <2>2. WriteSoundFor(p)'
    BY <1>2, <2>1 DEF SelectForUpdate, Step, WriteSoundFor, TxInv, TxTypeOK, quotaVars
  <2>3. QED
    BY <1>2, <2>1, <2>2, AcquireKeepsInv DEF SelectForUpdate, Holding
<1>3. ASSUME NEW p \in Procs, UpsertQuota(p)
      PROVE  TxInv'
  <2>1. req[p] \in SeedReq
    BY <1>3, RequestFields DEF UpsertQuota, TxInv, TxTypeOK
  <2>2. SeededRow(req[p].plan, req[p].period) \in QuotaRow
    BY <2>1, RowTypes DEF SeedReq
  <2>3. WriteSoundFor(p)'
    BY <1>3, <2>1 DEF UpsertQuota, Step, WriteSoundFor, TxInv, TxTypeOK
  <2>4. QED
    BY <1>3, <2>2, <2>3, AcquireKeepsInv DEF UpsertQuota, Holding
<1>4. ASSUME NEW p \in Procs, AddCredits(p)
      PROVE  TxInv'
  <2>1. quota[req[p].ws] \in QuotaRow /\ req[p] \in GrantReq
    BY <1>4, RequestFields DEF AddCredits, TxInv, TxTypeOK, QuotaTypeOK
  <2>2. [quota[req[p].ws] EXCEPT !.granted = @ + req[p].extra] \in QuotaRow
    BY <1>4, <2>1, RowTypes DEF AddCredits, GrantReq
  <2>3. WriteSoundFor(p)'
    BY <1>4, <2>1 DEF AddCredits, Step, WriteSoundFor, TxInv, TxTypeOK, quotaVars
  <2>4. QED
    BY <1>4, <2>2, <2>3, AcquireKeepsInv DEF AddCredits, Holding
<1>5. ASSUME NEW p \in Procs, MarkRefused(p)
      PROVE  TxInv'
  <2>1. /\ row[p] = quota[req[p].ws] /\ quota[req[p].ws] \in QuotaRow
        /\ req[p] \in ConsumeReq
    BY <1>5, RequestFields
    DEF MarkRefused, TxInv, SnapshotFresh, WriteSound, WriteSoundFor, TxTypeOK, QuotaTypeOK
  <2>2. RefusedRow(row[p]) \in QuotaRow
    BY <2>1, RowTypes DEF ConsumeReq
  <2>3. WriteSoundFor(p)'
    BY <1>5, <2>1, RowIsPresent
    DEF MarkRefused, Step, WriteSoundFor, TxInv, TxTypeOK, quotaVars
  <2>4. QED
    BY <1>5, <2>2, <2>3, PrivateStepKeepsInv DEF MarkRefused, Holding
<1>6. ASSUME NEW p \in Procs, InsertEvent(p)
      PROVE  TxInv'
  <2>1. /\ row[p] = quota[req[p].ws] /\ quota[req[p].ws] \in QuotaRow
        /\ req[p] \in ConsumeReq
    BY <1>6, RequestFields
    DEF InsertEvent, TxInv, SnapshotFresh, WriteSound, WriteSoundFor, TxTypeOK, QuotaTypeOK
  <2>2. WriteSoundFor(p)'
    BY <1>6, <2>1, RowIsPresent
    DEF InsertEvent, Step, WriteSoundFor, TxInv, TxTypeOK, quotaVars
  <2>3. QED
    BY <1>6, <2>1, <2>2, PrivateStepKeepsInv DEF InsertEvent, Holding
<1>7. ASSUME NEW p \in Procs, UpdateConsumed(p)
      PROVE  TxInv'
  <2>1. /\ row[p] = quota[req[p].ws] /\ quota[req[p].ws] \in QuotaRow
        /\ req[p] \in ConsumeReq /\ Fits(quota[req[p].ws], req[p].cost)
    BY <1>7, RequestFields
    DEF UpdateConsumed, TxInv, SnapshotFresh, WriteSound, WriteSoundFor, TxTypeOK, QuotaTypeOK
  <2>2. ChargedRow(row[p], req[p].cost) \in QuotaRow
    BY <1>7, <2>1, RowTypes DEF UpdateConsumed, ConsumeReq
  <2>3. WriteSoundFor(p)'
    BY <1>7, <2>1, RowIsPresent
    DEF UpdateConsumed, Step, WriteSoundFor, TxInv, TxTypeOK, quotaVars
  <2>4. QED
    BY <1>7, <2>2, <2>3, PrivateStepKeepsInv DEF UpdateConsumed, Holding
<1>8. ASSUME NEW p \in Procs,
             \/ NoQuotaRow(p) \/ DuplicateEvent(p) \/ Overflow(p)
             \/ AddNothing(p) \/ Abort(p)
      PROVE  TxInv'
  <2>1. PICK a \in Answers : Finish(p, a)
    BY <1>8 DEF NoQuotaRow, DuplicateEvent, Overflow, AddNothing, Abort, Answers
  <2>2. UNCHANGED quotaVars
    BY <1>8 DEF NoQuotaRow, DuplicateEvent, Overflow, AddNothing, Abort
  <2>3. WritesOwnRow(p) /\ now' = now /\ usage' = usage
    BY <2>2 DEF quotaVars, WritesOwnRow
  <2>4. QED
    BY <1>0, <2>1, <2>3, FinishKeepsInv
<1>9. ASSUME NEW p \in Procs,
             \/ CommitCharge(p) \/ CommitRefusal(p) \/ CommitSeed(p) \/ CommitGrant(p)
      PROVE  TxInv'
  <2>1. PICK a \in Answers : Finish(p, a)
    BY <1>9 DEF CommitCharge, CommitRefusal, CommitSeed, CommitGrant, Answers
  <2>2. pc[p] \in Holding /\ quota' = [quota EXCEPT ![req[p].ws] = row[p]]
    BY <1>9 DEF CommitCharge, CommitRefusal, CommitSeed, CommitGrant, Holding
  <2>3. row[p] \in QuotaRow
    <3>1. \A w \in Workspaces : quota[w] # NoRow => quota[w] \in QuotaRow
      BY DEF TxInv, TxTypeOK, QuotaTypeOK
    <3>2. CASE pc[p] \in {"charged", "refused"}
      <4>1. /\ req[p] \in ConsumeReq /\ quota[req[p].ws] # NoRow
            /\ \/ /\ quota[req[p].ws].consumed + req[p].cost <= IntMax
                  /\ row[p] = ChargedRow(quota[req[p].ws], req[p].cost)
               \/ row[p] = RefusedRow(quota[req[p].ws])
        BY <3>2 DEF TxInv, WriteSound, WriteSoundFor
      <4>2. req[p].cost \in Costs /\ quota[req[p].ws] \in QuotaRow
        BY <3>1, <4>1 DEF ConsumeReq
      <4>3. QED
        BY <4>1, <4>2, RowTypes
    <3>3. CASE pc[p] = "seeded"
      <4>1. req[p] \in SeedReq /\ row[p] = SeededRow(req[p].plan, req[p].period)
        BY <3>3 DEF TxInv, WriteSound, WriteSoundFor
      <4>2. req[p].plan \in Plans /\ req[p].period \in Periods
        BY <4>1 DEF SeedReq
      <4>3. QED
        BY <4>1, <4>2, RowTypes
    <3>4. CASE pc[p] = "granted"
      <4>1. /\ req[p] \in GrantReq /\ quota[req[p].ws] # NoRow
            /\ quota[req[p].ws].granted + req[p].extra <= IntMax
            /\ row[p] = [quota[req[p].ws] EXCEPT !.granted = @ + req[p].extra]
        BY <3>4 DEF TxInv, WriteSound, WriteSoundFor
      <4>2. req[p].extra \in Extras /\ quota[req[p].ws] \in QuotaRow
        BY <3>1, <4>1 DEF GrantReq
      <4>3. QED
        BY <4>1, <4>2, RowTypes
    <3>5. QED
      BY <1>9, <3>2, <3>3, <3>4 DEF CommitCharge, CommitRefusal, CommitSeed, CommitGrant
  <2>4. WritesOwnRow(p)
    BY <2>2, <2>3 DEF WritesOwnRow
  <2>5. /\ now' = now
        /\ \/ usage' = usage
           \/ pc[p] = "charged" /\ usage' = usage \union {EventOf(req[p])}
    BY <1>9 DEF CommitCharge, CommitRefusal, CommitSeed, CommitGrant
  <2>6. QED
    BY <1>0, <2>1, <2>4, <2>5, FinishKeepsInv
<1>10. CASE TxTick
  <2>1. /\ UNCHANGED <<quota, usage, pc, req, row, lock, answer>>
        /\ now \in Nat /\ now' = now + 1
    BY <1>10 DEF TxTick, Tick, txVars, TxInv, TxTypeOK, QuotaTypeOK
  <2>2. TxTypeOK' /\ LockHeld' /\ SnapshotFresh' /\ WriteSound'
    BY <1>0, <2>1 DEF TxInv, TxTypeOK, LockHeld, SnapshotFresh, WriteSound, WriteSoundFor
  <2>3. EventsFresh'
    <3>1. ASSUME NEW p \in Procs, pc[p] # "idle", req[p].op = "consume"
          PROVE  req[p].at <= now'
      <4>1. req[p] \in ConsumeReq
        BY <3>1, RequestFields DEF TxInv, TxTypeOK
      <4>2. req[p].at \in Int /\ req[p].at <= now
        BY <3>1, <4>1, BoundsAssumption DEF ConsumeReq, TxInv, EventsFresh
      <4>3. QED
        BY <2>1, <4>2
    <3>2. QED
      BY <2>1, <3>1 DEF TxInv, EventsFresh, Collides
  <2>4. QED
    BY <2>2, <2>3 DEF TxInv
<1>11. CASE UNCHANGED vars
  BY <1>11 DEF vars, quotaVars, txVars, TxInv, TxTypeOK, QuotaTypeOK, LockHeld,
               SnapshotFresh, WriteSound, WriteSoundFor, EventsFresh, Collides
<1>12. QED
  BY <1>1, <1>2, <1>3, <1>4, <1>5, <1>6, <1>7, <1>8, <1>9, <1>10, <1>11
  DEF TxNext, Acquire, Advance

\* Row locks, snapshots and pending writes are sound in every reachable state.
THEOREM TransactionsSound == TxSpec => []TxInv
<1>1. QED
  BY InvInit, InvStep, PTL DEF TxSpec

\* A writer of a workspace holds its row lock, decides on the committed row and
\* publishes what the atomic operation would (quota.ts:49-121): no update is lost,
\* and no two charges meet in the index on idempotency keys.
THEOREM LocksAndSnapshots ==
  TxSpec => [](LockHeld /\ SnapshotFresh /\ WriteSound /\ EventsFresh)
<1>1. TxInv => LockHeld /\ SnapshotFresh /\ WriteSound /\ EventsFresh
  BY DEF TxInv
<1>2. QED
  BY <1>1, TransactionsSound, PTL

---------------------------------------------------------------------------
\* Every step keeps the answers given so far true: the ledger only grows, and a
\* session's answer changes with the request it answers.
LEMMA AnswersStep == TxInv /\ AnswersTrue /\ [TxNext]_vars => AnswersTrue'
<1> SUFFICES ASSUME TxInv, AnswersTrue, [TxNext]_vars
             PROVE  AnswersTrue'
  OBVIOUS
<1>1. pc \in [Procs -> {"idle", "begun"} \union Holding]
      /\ req \in [Procs -> Request] /\ answer \in [Procs -> Answers]
  BY DEF TxInv, TxTypeOK
<1>2. usage \subseteq usage'
  BY DEF TxNext, Acquire, Advance, Begin, SelectForUpdate, UpsertQuota, AddCredits, AddNothing,
     NoQuotaRow, MarkRefused, InsertEvent, DuplicateEvent, UpdateConsumed, Overflow,
     CommitCharge, CommitRefusal, CommitSeed, CommitGrant, Abort, TxTick, Tick, Step,
     vars, quotaVars
<1>3. CASE UNCHANGED <<req, answer>>
  BY <1>2, <1>3 DEF AnswersTrue
<1>4. ASSUME NEW p \in Procs, Begin(p) PROVE AnswersTrue'
  BY <1>1, <1>2, <1>4 DEF Begin, AnswersTrue
<1>5. ASSUME NEW p \in Procs, NEW a \in Answers, Finish(p, a),
             req[p].op = "consume" /\ a = "ok" => EventOf(req[p]) \in usage',
             req[p].op = "consume" /\ a = "duplicate_event" =>
               \E u \in usage' : u.key = req[p].key
      PROVE  AnswersTrue'
  BY <1>1, <1>2, <1>5 DEF Finish, AnswersTrue
<1>6. ASSUME NEW p \in Procs, CommitCharge(p) PROVE AnswersTrue'
  <2>1. EventOf(req[p]) \in usage'
    BY <1>6 DEF CommitCharge
  <2>2. PICK a \in {"ok", "error"} : Finish(p, a)
    BY <1>6 DEF CommitCharge
  <2> QED
    BY <1>5, <2>1, <2>2 DEF Answers
<1>7. ASSUME NEW p \in Procs, DuplicateEvent(p) PROVE AnswersTrue'
  <2>1. \E u \in usage' : u.key = req[p].key
    BY <1>2, <1>7 DEF DuplicateEvent, Collides
  <2>2. PICK a \in {"duplicate_event", "error"} : Finish(p, a)
    BY <1>7 DEF DuplicateEvent
  <2> QED
    BY <1>5, <2>1, <2>2 DEF Answers
<1>8. ASSUME NEW p \in Procs,
             \/ NoQuotaRow(p) \/ CommitRefusal(p) \/ Overflow(p) \/ Abort(p)
      PROVE  AnswersTrue'
  <2>1. PICK a \in {"no_quota_row", "hard_limit_reached", "error"} : Finish(p, a)
    BY <1>8 DEF NoQuotaRow, CommitRefusal, Overflow, Abort
  <2> QED
    BY <1>5, <2>1 DEF Answers
<1>9. ASSUME NEW p \in Procs, CommitSeed(p) \/ CommitGrant(p) \/ AddNothing(p)
      PROVE  AnswersTrue'
  <2>1. req[p].op # "consume"
    BY <1>9 DEF CommitSeed, CommitGrant, AddNothing, TxInv, WriteSound, WriteSoundFor,
       SeedReq, GrantReq
  <2>2. PICK a \in {"ok", "error"} : Finish(p, a)
    BY <1>9 DEF CommitSeed, CommitGrant, AddNothing
  <2> QED
    BY <1>5, <2>1, <2>2 DEF Answers
<1>10. ASSUME NEW p \in Procs,
              \/ SelectForUpdate(p) \/ UpsertQuota(p) \/ AddCredits(p)
              \/ MarkRefused(p) \/ InsertEvent(p) \/ UpdateConsumed(p)
       PROVE  UNCHANGED <<req, answer>>
  BY <1>10 DEF SelectForUpdate, UpsertQuota, AddCredits, MarkRefused, InsertEvent,
     UpdateConsumed, Step
<1>11. CASE TxTick \/ UNCHANGED vars
  BY <1>3, <1>11 DEF TxTick, txVars, vars
<1> QED
  BY <1>3, <1>4, <1>6, <1>7, <1>8, <1>9, <1>10, <1>11 DEF TxNext, Acquire, Advance

\* consumeCredits tells its caller the truth (quota.ts:99-130), also when replies are
\* lost and sessions race on a key: ok means charged and recorded, duplicate_event
\* means that an event with this key is there.
THEOREM AnswersAreTrue == TxSpec => []AnswersTrue
<1>1. TxInit => AnswersTrue
  BY DEF TxInit, AnswersTrue
<1> QED
  BY <1>1, AnswersStep, TransactionsSound, PTL DEF TxSpec

\* The transactions of quota.ts implement the atomic ledger.
THEOREM TxImplementsLedger == TxSpec => QuotaSpec
<1>1. TxInit => QuotaInit
  BY DEF TxInit
<1>2. QED
  BY <1>1, Simulation, TransactionsSound, PTL DEF TxSpec, QuotaSpec

\* Hence what the ledger guarantees holds under any interleaving of statements,
\* aborts and lost replies.
THEOREM TxNeverOverspends ==
  TxSpec => [](NoOverspend /\ FlagsNeverLate /\ FailClosed /\ LedgerMatches)
<1>1. QED
  BY TxImplementsLedger, NeverOverspent, FlagsAreNeverLate, NeverChargedUnseeded,
     CounterIsLedger, PTL

\* Types of sessions, locks and tables; committed or not, no row leaves the range
\* of its INT columns: the UPDATEs that would are cut off (0008_quota_ledger.sql:6-7).
THEOREM TxTypes == TxSpec => []TxTypeOK
<1>1. TxInv => TxTypeOK
  BY DEF TxInv
<1>2. QED
  BY <1>1, TransactionsSound, PTL

\* Statement by statement, with aborts and lost replies, the sessions keep the
\* promise of Allowance (quota.ts:39-132, 154-177).
THEOREM TxKeepsBudget == TxSpec => BudgetSpec
<1>1. QED
  BY TxImplementsLedger, LedgerKeepsBudget
=============================================================================
