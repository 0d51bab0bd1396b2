---------------------------- MODULE LaunchPolicy ----------------------------
(***************************************************************************)
(* The pure arithmetic of the launch policy (kids-launch-v2/src/policy.rs  *)
(* and the two rounding rules of kids-launch-v3/src/funding_first.rs).     *)
(* Amounts are natural numbers: every product of the code is taken in u128 *)
(* and every sum of the code is checked, so no operation here wraps.       *)
(* An operator that the code lets fail is guarded where it is used, with   *)
(* the condition given by the companion ...Defined operator.               *)
(***************************************************************************)
EXTENDS Integers, FiniteSets, Functions, FiniteSetTheorems, TLAPS

(* Campaign phases; "ABSENT" is the campaign account before its creation.  *)
FUNDING     == "FUNDING"
CLOSED      == "CLOSED"
REFUND_ONLY == "REFUND_ONLY"
LIVE        == "LIVE"
ABSENT      == "ABSENT"
Phases      == {ABSENT, FUNDING, CLOSED, REFUND_ONLY, LIVE}

BpsDenominator == 10000

Least(a, b) == IF a <= b THEN a ELSE b
CeilDiv(a, b) == (a + b - 1) \div b

-----------------------------------------------------------------------------
(* Settlement and refunds.                                                 *)

\* The hard cap leaves at least one percent above the soft cap.
LeastHardCap(soft) == soft + CeilDiv(soft, 100)

\* What of one commitment the launch takes.
Accepted(commit, total, hard) ==
  IF total = 0 THEN 0
  ELSE IF total <= hard THEN commit
  ELSE (commit * hard) \div total

\* Everything a receipt may take back in total.
Refundable(commit, total, hard, failed) ==
  IF failed THEN commit ELSE commit - Accepted(commit, total, hard)

ParticipantTokensDefined(accepted, totalAccepted) ==
  totalAccepted # 0 /\ accepted <= totalAccepted

\* One receipt's share of the participants' reserve.
ParticipantTokens(reserve, accepted, totalAccepted) ==
  (reserve * accepted) \div totalAccepted

-----------------------------------------------------------------------------
(* Lifecycle.                                                              *)

FundingOpen(phase, opensAt, deadline, now) ==
  phase = FUNDING /\ opensAt <= now /\ now < deadline

LaunchNeverTimesOut(phase, total, soft, launchDeadline, now) ==
  phase = REFUND_ONLY \/ total < soft

LiveTimesOut(phase, total, soft, launchDeadline, now) ==
  phase = REFUND_ONLY \/ total < soft \/ now >= launchDeadline

LaunchFailed(phase, total, soft, launchDeadline, now) ==
  \/ phase = REFUND_ONLY
  \/ total < soft
  \/ now >= launchDeadline /\ phase # LIVE

InLaunchWindow(phase, deadline, launchDeadline, now) ==
  deadline <= now /\ now < launchDeadline /\ phase \in {FUNDING, CLOSED}

-----------------------------------------------------------------------------
(* The supply split: five shares in basis points, the dust of the integer  *)
(* division added to the liquidity.                                        *)

Share(supply, bps) == (supply \div BpsDenominator) * bps

SplitOf(supply, b) ==
  LET part == Share(supply, b.participants)
      pa   == Share(supply, b.parentA)
      pb   == Share(supply, b.parentB)
      dev  == Share(supply, b.dev)
      liq  == Share(supply, b.liquidity)
      dust == supply - (part + liq + pa + pb + dev)
  IN  [participants |-> part, parentA |-> pa, parentB |-> pb, dev |-> dev,
       liquidity |-> liq + dust]

SPLIT_STANDARD_V3 ==
  [participants |-> 4750, liquidity |-> 4750, parentA |-> 0, parentB |-> 0, dev |-> 500]

-----------------------------------------------------------------------------

VESTING_STANDARD_V3  == [instant |-> 150, linear |-> 350]

DevEntitled(supply, rule, start, end, now) ==
  Share(supply, rule.instant)
    + (Share(supply, rule.linear) * (Least(now, end) - start)) \div (end - start)

-----------------------------------------------------------------------------
(***************************************************************************)
(* Facts about SumFunctionOnSet (community module Functions) for finite    *)
(* index sets and natural values, for every size of the set.  The campaign *)
(* modules state their money invariants with such sums over the receipts,  *)
(* where the programs only keep running totals.  At the end: what the      *)
(* rounding of the launch policy guarantees, for all amounts.              *)
(*                                                                         *)
(* The fold behind SumFunctionOnSet is a CHOOSEn recursive function.  A    *)
(* function F that adds up f over the subsets of S (Additive) is built one *)
(* element at a time by taking a minimal subset without one; the fold then *)
(* agrees with F by the same argument.                                     *)
(***************************************************************************)

\* Time limits of the provers for every leaf.
USE SMTT(30), ZenonT(20)

\* F adds up f: the sum over every subset of S, one element at a time.
Additive(F, f, S) ==
  /\ F \in [SUBSET S -> Nat]
  /\ F[{}] = 0
  /\ \A T \in SUBSET S : \A x \in S \ T : F[T \cup {x}] = F[T] + f[x]

\* A nonempty family of subsets of a finite set has a minimal member.
LEMMA FiniteMinimal ==
  ASSUME NEW S, IsFiniteSet(S), NEW B \in SUBSET (SUBSET S), B # {}
  PROVE  \E T \in B : \A U \in B : ~(U \subseteq T /\ U # T)
<1>1. IsWellFoundedOn(StrictSubsetOrdering(S), SUBSET S)
  BY Zenon, FS_StrictSubsetOrderingWellFounded, FS_FiniteSubsetsOfFinite
<1>2. \E T \in B : \A U \in B : ~(<<U, T>> \in StrictSubsetOrdering(S))
  BY <1>1, WFMin
<1>3. \A T \in B, U \in B : U \subseteq T /\ U # T => <<U, T>> \in StrictSubsetOrdering(S)
  BY DEF StrictSubsetOrdering
<1> QED BY Zenon, <1>2, <1>3

\* An additive function on S extends to one more element.
LEMMA AdditiveExtends ==
  ASSUME NEW S, NEW y, y \notin S, NEW f, \A x \in S \cup {y} : f[x] \in Nat,
         NEW F, Additive(F, f, S)
  PROVE  \E G : Additive(G, f, S \cup {y})
<1> DEFINE G == [T \in SUBSET (S \cup {y}) |-> IF y \in T THEN F[T \ {y}] + f[y] ELSE F[T]]
<1>1. \A T \in SUBSET (S \cup {y}) : T \ {y} \in SUBSET S /\ (y \notin T => T \in SUBSET S)
  OBVIOUS
<1>2. G \in [SUBSET (S \cup {y}) -> Nat]
  BY <1>1 DEF Additive
<1>3. G[{}] = 0
  BY DEF Additive
<1>4. ASSUME NEW T \in SUBSET (S \cup {y}), NEW x \in (S \cup {y}) \ T
      PROVE  G[T \cup {x}] = G[T] + f[x]
  <2>1. CASE x = y
    <3>1. (T \cup {x}) \ {y} = T
      BY <2>1
    <3>2. T \in SUBSET S
      BY <2>1
    <3> QED BY <2>1, <3>1, <3>2
  <2>2. CASE x # y /\ y \in T
    <3>1. (T \cup {x}) \ {y} = (T \ {y}) \cup {x}
      BY <2>2
    <3>2. F[(T \ {y}) \cup {x}] = F[T \ {y}] + f[x]
      BY <2>2, <1>1 DEF Additive
    <3>3. F[T \ {y}] \in Nat
      BY <1>1 DEF Additive
    <3>4. G[T \cup {x}] = F[(T \cup {x}) \ {y}] + f[y] /\ G[T] = F[T \ {y}] + f[y]
      BY <2>2
    <3>5. f[x] \in Nat /\ f[y] \in Nat
      OBVIOUS
    <3>6. F[(T \cup {x}) \ {y}] = F[(T \ {y}) \cup {x}]
      BY <3>1, Zenon
    <3>7. G[T \cup {x}] = (F[T \ {y}] + f[x]) + f[y]
      BY <3>2, <3>4, <3>6, Zenon
    <3> HIDE DEF G
    <3> QED BY <3>3, <3>4, <3>5, <3>7
  <2>3. CASE x # y /\ y \notin T
    <3>1. F[T \cup {x}] = F[T] + f[x]
      BY <2>3, <1>1 DEF Additive
    <3> QED BY <2>3, <3>1
  <2> QED BY <2>1, <2>2, <2>3
<1> HIDE DEF G
<1>5. Additive(G, f, S \cup {y})
  BY <1>2, <1>3, <1>4 DEF Additive
<1> QED BY <1>5

\* Every natural-valued f on a finite S has an additive function.
LEMMA AdditiveExists ==
  ASSUME NEW S, IsFiniteSet(S), NEW f, \A x \in S : f[x] \in Nat
  PROVE  \E F : Additive(F, f, S)
<1> DEFINE B == {T \in SUBSET S : ~ \E F : Additive(F, f, T)}
<1>1. SUFFICES ASSUME B # {} PROVE FALSE
  OBVIOUS
<1>2. PICK T \in B : \A U \in B : ~(U \subseteq T /\ U # T)
  <2> HIDE DEF B
  <2>1. B \in SUBSET (SUBSET S) BY DEF B
  <2> QED BY <1>1, <2>1, FiniteMinimal
<1>3. CASE T = {}
  <2> DEFINE F0 == [U \in SUBSET {} |-> 0]
  <2>1. Additive(F0, f, {})
    BY DEF Additive
  <2> QED BY <2>1, <1>2, <1>3
<1>4. CASE T # {}
  <2>1. PICK y \in T : TRUE BY <1>4
  <2>2. \E F : Additive(F, f, T \ {y})
    <3>1. T \ {y} \in SUBSET S /\ T \ {y} \subseteq T /\ T \ {y} # T
       BY <1>2
    <3> QED BY <1>2, <3>1
  <2>3. \E G : Additive(G, f, (T \ {y}) \cup {y})
    BY <2>2, AdditiveExtends, <1>2
  <2>4. (T \ {y}) \cup {y} = T
    OBVIOUS
  <2> QED BY Zenon, <2>3, <2>4, <1>2
<1> QED BY <1>3, <1>4

\* The recursive equation of the fold, and the function it chooses.
Unfolds(g, f, S) ==
  g = [T \in SUBSET S |->
         IF T = {} THEN 0
         ELSE f[CHOOSE x \in T : TRUE] + g[T \ {CHOOSE x \in T : TRUE}]]

Iter(f, S) == CHOOSE g : Unfolds(g, f, S)

\* The library sum is the chosen function applied to the whole set.
LEMMA SumUnfold ==
  ASSUME NEW f, NEW S
  PROVE  SumFunctionOnSet(f, S) = Iter(f, S)[S]
BY DEF SumFunctionOnSet, FoldFunctionOnSet, MapThenFoldSet, Iter, Unfolds

\* The chosen function satisfies its recursive equation.
LEMMA IterDefined ==
  ASSUME NEW S, IsFiniteSet(S), NEW f, \A x \in S : f[x] \in Nat
  PROVE  Unfolds(Iter(f, S), f, S)
<1>1. PICK F : Additive(F, f, S)
  BY AdditiveExists
<1> DEFINE R(g) == [T \in SUBSET S |->
                     IF T = {} THEN 0
                     ELSE f[CHOOSE x \in T : TRUE] + g[T \ {CHOOSE x \in T : TRUE}]]
<1>2. ASSUME NEW T \in SUBSET S PROVE F[T] = R(F)[T]
  <2>1. CASE T = {} BY <2>1, <1>1 DEF Additive
  <2>2. CASE T # {}
    <3> DEFINE x == CHOOSE x \in T : TRUE
    <3>1. x \in T BY <2>2
    <3>2. F[(T \ {x}) \cup {x}] = F[T \ {x}] + f[x]
       <4> HIDE DEF x
       <4> QED BY Zenon, <3>1, <1>1 DEF Additive
    <3>3. (T \ {x}) \cup {x} = T BY <3>1
    <3>4. F[T \ {x}] \in Nat /\ f[x] \in Nat
       <4> HIDE DEF x
       <4> QED BY <1>1, <3>1 DEF Additive
    <3>5. R(F)[T] = f[x] + F[T \ {x}] BY <2>2
    <3> HIDE DEF x, R
    <3>6. F[T] = F[T \ {x}] + f[x] BY <3>2, <3>3, Zenon
    <3> QED BY <3>4, <3>5, <3>6
  <2> QED BY <2>1, <2>2
<1>3. F = R(F)
  BY Zenon, <1>1, <1>2 DEF Additive
<1>4. \E g : Unfolds(g, f, S) BY Zenon, <1>3 DEF Unfolds
<1> QED BY <1>4 DEF Iter

\* The value of the chosen function at a subset, one element taken out.
LEMMA IterValue ==
  ASSUME NEW S, IsFiniteSet(S), NEW f, \A x \in S : f[x] \in Nat, NEW T \in SUBSET S
  PROVE  /\ T = {} => Iter(f, S)[T] = 0
         /\ T # {} => \E x \in T : Iter(f, S)[T] = f[x] + Iter(f, S)[T \ {x}]
<1> DEFINE g == Iter(f, S)
<1>1. Unfolds(g, f, S)
  BY IterDefined
<1> HIDE DEF g
<1>2. g[T] = IF T = {} THEN 0 ELSE f[CHOOSE x \in T : TRUE] + g[T \ {CHOOSE x \in T : TRUE}]
  BY <1>1 DEF Unfolds
<1>3. T # {} => (CHOOSE x \in T : TRUE) \in T
  OBVIOUS
<1>4. T = {} => g[T] = 0
  BY <1>2
<1>5. T # {} => \E x \in T : g[T] = f[x] + g[T \ {x}]
  BY Zenon, <1>2, <1>3
<1> QED BY <1>4, <1>5 DEF g

\* The chosen function agrees with every additive function.
LEMMA IterIsAdditive ==
  ASSUME NEW S, IsFiniteSet(S), NEW f, \A x \in S : f[x] \in Nat,
         NEW F, Additive(F, f, S), NEW T \in SUBSET S
  PROVE  Iter(f, S)[T] = F[T]
<1> DEFINE B == {U \in SUBSET S : Iter(f, S)[U] # F[U]}
<1>1. SUFFICES ASSUME B # {} PROVE FALSE
  OBVIOUS
<1>2. PICK U \in B : \A V \in B : ~(V \subseteq U /\ V # U)
  <2>1. B \in SUBSET (SUBSET S) OBVIOUS
  <2> HIDE DEF B
  <2> QED BY <1>1, <2>1, FiniteMinimal
<1>3. CASE U = {}
  <2>1. Iter(f, S)[U] = 0 /\ F[U] = 0
    BY <1>3, IterValue DEF Additive
  <2> QED BY <2>1, <1>2
<1>4. CASE U # {}
  <2>1. PICK x \in U : Iter(f, S)[U] = f[x] + Iter(f, S)[U \ {x}]
    BY <1>2, <1>4, IterValue
  <2>3. U \ {x} \in SUBSET S /\ U \ {x} \subseteq U /\ U \ {x} # U
    BY <2>1, <1>2
  <2>4. Iter(f, S)[U \ {x}] = F[U \ {x}]
    BY <2>3, <1>2
  <2>5. F[(U \ {x}) \cup {x}] = F[U \ {x}] + f[x]
    BY <2>1, <2>3 DEF Additive
  <2>6. (U \ {x}) \cup {x} = U BY <2>1
  <2>7. F[U] = F[U \ {x}] + f[x] BY <2>5, <2>6, Zenon
  <2>8. F[U \ {x}] \in Nat /\ f[x] \in Nat
    BY <2>1, <2>3, <1>2 DEF Additive
  <2>9. Iter(f, S)[U] = F[U] BY <2>1, <2>4, <2>7, <2>8
  <2> QED BY <2>9, <1>2
<1> QED BY <1>3, <1>4

\* The sum over a subset is the value of any additive function there.
LEMMA SumIsAdditive ==
  ASSUME NEW S, IsFiniteSet(S), NEW f, \A x \in S : f[x] \in Nat,
         NEW F, Additive(F, f, S), NEW T \in SUBSET S
  PROVE  SumFunctionOnSet(f, T) = F[T]
<1> DEFINE FT == [U \in SUBSET T |-> F[U]]
<1>1. IsFiniteSet(T) BY FS_Subset
<1>2. Additive(FT, f, T)
  BY DEF Additive
<1>3. Iter(f, T)[T] = FT[T]
  <2> HIDE DEF FT
  <2> QED BY <1>1, <1>2, IterIsAdditive
<1> QED BY <1>3, SumUnfold

\* The empty sum is zero.
LEMMA SumEmpty == ASSUME NEW f PROVE SumFunctionOnSet(f, {}) = 0
<1>1. PICK F : Additive(F, f, {})
  BY AdditiveExists, FS_EmptySet
<1> QED BY <1>1, SumIsAdditive, FS_EmptySet DEF Additive

\* A sum of natural numbers is a natural number.
LEMMA SumType ==
  ASSUME NEW S, IsFiniteSet(S), NEW f, \A x \in S : f[x] \in Nat
  PROVE  SumFunctionOnSet(f, S) \in Nat
<1>1. PICK F : Additive(F, f, S)
  BY AdditiveExists
<1>2. SumFunctionOnSet(f, S) = F[S]
  BY <1>1, SumIsAdditive
<1> QED BY <1>1, <1>2 DEF Additive

\* One summand can be taken out of the sum.
LEMMA SumSplit ==
  ASSUME NEW S, IsFiniteSet(S), NEW f, \A x \in S : f[x] \in Nat, NEW y \in S
  PROVE  SumFunctionOnSet(f, S) = f[y] + SumFunctionOnSet(f, S \ {y})
<1>1. PICK F : Additive(F, f, S)
  BY AdditiveExists
<1>2. SumFunctionOnSet(f, S) = F[S] /\ SumFunctionOnSet(f, S \ {y}) = F[S \ {y}]
  BY <1>1, SumIsAdditive
<1>3. F[(S \ {y}) \cup {y}] = F[S \ {y}] + f[y]
  BY Zenon, <1>1 DEF Additive
<1>4. (S \ {y}) \cup {y} = S OBVIOUS
<1>5. F[S] = F[S \ {y}] + f[y] BY <1>3, <1>4, Zenon
<1>6. F[S \ {y}] \in Nat BY <1>1 DEF Additive
<1> QED BY <1>2, <1>5, <1>6

\* Functions that agree on S have the same sum over S.
LEMMA SumSame ==
  ASSUME NEW S, IsFiniteSet(S), NEW f, NEW g,
         \A x \in S : f[x] \in Nat /\ g[x] = f[x]
  PROVE  SumFunctionOnSet(g, S) = SumFunctionOnSet(f, S)
<1>1. PICK F : Additive(F, f, S)
  BY AdditiveExists
<1>2. Additive(F, g, S)
  BY <1>1 DEF Additive
<1> QED BY <1>1, <1>2, SumIsAdditive

\* Updating one summand moves the sum by the difference: what every handler
\* that updates one receipt and one running total relies on.
LEMMA SumUpdate ==
  ASSUME NEW S, IsFiniteSet(S), NEW f, NEW g, NEW y \in S,
         \A x \in S : f[x] \in Nat /\ g[x] \in Nat,
         \A x \in S \ {y} : g[x] = f[x]
  PROVE  SumFunctionOnSet(g, S) = SumFunctionOnSet(f, S) - f[y] + g[y]
<1>1. IsFiniteSet(S \ {y}) BY FS_RemoveElement
<1>2. SumFunctionOnSet(g, S) = g[y] + SumFunctionOnSet(g, S \ {y})
  BY SumSplit
<1>3. SumFunctionOnSet(f, S) = f[y] + SumFunctionOnSet(f, S \ {y})
  BY SumSplit
<1>4. SumFunctionOnSet(g, S \ {y}) = SumFunctionOnSet(f, S \ {y})
  BY <1>1, SumSame
<1>5. SumFunctionOnSet(f, S \ {y}) \in Nat
  BY <1>1, SumType
<1>6. f[y] \in Nat /\ g[y] \in Nat
  OBVIOUS
<1> QED BY <1>2, <1>3, <1>4, <1>5, <1>6

\* No summand exceeds the sum.
LEMMA SumMember ==
  ASSUME NEW S, IsFiniteSet(S), NEW f, \A x \in S : f[x] \in Nat, NEW y \in S
  PROVE  f[y] <= SumFunctionOnSet(f, S)
<1>1. IsFiniteSet(S \ {y}) BY FS_RemoveElement
<1>2. SumFunctionOnSet(f, S \ {y}) \in Nat BY <1>1, SumType
<1> QED BY <1>2, SumSplit

\* The sum of a pointwise sum.
LEMMA SumPlus ==
  ASSUME NEW S, IsFiniteSet(S), NEW f, NEW g, NEW h,
         \A x \in S : f[x] \in Nat /\ g[x] \in Nat /\ h[x] = f[x] + g[x]
  PROVE  SumFunctionOnSet(h, S) = SumFunctionOnSet(f, S) + SumFunctionOnSet(g, S)
<1>1. PICK F : Additive(F, f, S)
  BY AdditiveExists
<1>2. PICK G : Additive(G, g, S)
  BY AdditiveExists
<1> DEFINE H == [T \in SUBSET S |-> F[T] + G[T]]
<1>3. Additive(H, h, S)
  <2>1. H \in [SUBSET S -> Nat] /\ H[{}] = 0
    BY <1>1, <1>2 DEF Additive
  <2>2. ASSUME NEW T \in SUBSET S, NEW x \in S \ T
        PROVE  H[T \cup {x}] = H[T] + h[x]
    <3>1. F[T \cup {x}] = F[T] + f[x] /\ G[T \cup {x}] = G[T] + g[x]
      BY <1>1, <1>2 DEF Additive
    <3>2. F[T] \in Nat /\ G[T] \in Nat /\ f[x] \in Nat /\ g[x] \in Nat
      BY <1>1, <1>2 DEF Additive
    <3>3. H[T \cup {x}] = F[T \cup {x}] + G[T \cup {x}] /\ H[T] = F[T] + G[T]
      OBVIOUS
    <3> HIDE DEF H
    <3>4. H[T \cup {x}] = (F[T] + f[x]) + (G[T] + g[x])
      BY <3>1, <3>3, Zenon
    <3> QED BY <3>2, <3>3, <3>4
  <2> HIDE DEF H
  <2> QED BY <2>1, <2>2 DEF Additive
<1> HIDE DEF H
<1>4. SumFunctionOnSet(h, S) = H[S]
  <2>1. \A x \in S : h[x] \in Nat OBVIOUS
  <2> QED BY <1>3, <2>1, SumIsAdditive
<1>5. SumFunctionOnSet(f, S) = F[S] /\ SumFunctionOnSet(g, S) = G[S]
  BY <1>1, <1>2, SumIsAdditive
<1> QED BY <1>4, <1>5 DEF H

\* The sum of a pointwise multiple.
LEMMA SumScale ==
  ASSUME NEW S, IsFiniteSet(S), NEW f, NEW h, NEW k \in Nat,
         \A x \in S : f[x] \in Nat /\ h[x] = f[x] * k
  PROVE  SumFunctionOnSet(h, S) = SumFunctionOnSet(f, S) * k
<1>1. PICK F : Additive(F, f, S)
  BY AdditiveExists
<1> DEFINE H == [T \in SUBSET S |-> F[T] * k]
<1>2. Additive(H, h, S)
  <2>0. \A m, n \in Nat : m * n \in Nat
    OBVIOUS
  <2>1. H \in [SUBSET S -> Nat] /\ H[{}] = 0
    BY <1>1, <2>0 DEF Additive
  <2>2. ASSUME NEW T \in SUBSET S, NEW x \in S \ T
        PROVE  H[T \cup {x}] = H[T] + h[x]
    <3>1. F[T \cup {x}] = F[T] + f[x]
      BY <1>1 DEF Additive
    <3>2. F[T] \in Nat /\ f[x] \in Nat
      BY <1>1 DEF Additive
    <3>3. H[T \cup {x}] = F[T \cup {x}] * k /\ H[T] = F[T] * k
      OBVIOUS
    <3> HIDE DEF H
    <3>4. H[T \cup {x}] = (F[T] + f[x]) * k
      BY <3>1, <3>3, Zenon
    <3>5. \A p, q \in Nat : (p + q) * k = p * k + q * k
      OBVIOUS
    <3>6. (F[T] + f[x]) * k = F[T] * k + f[x] * k
      BY <3>2, <3>5
    <3> QED BY <3>3, <3>4, <3>6
  <2> HIDE DEF H
  <2> QED BY <2>1, <2>2 DEF Additive
<1> HIDE DEF H
<1>3. \A x \in S : h[x] \in Nat
  OBVIOUS
<1>4. SumFunctionOnSet(h, S) = H[S]
  BY <1>2, <1>3, SumIsAdditive
<1>5. SumFunctionOnSet(f, S) = F[S]
  BY <1>1, SumIsAdditive
<1> QED BY <1>4, <1>5 DEF H

\* Sums are monotone, and equal sums of ordered functions mean equal
\* functions.
LEMMA SumLeq ==
  ASSUME NEW S, IsFiniteSet(S), NEW f, NEW g,
         \A x \in S : f[x] \in Nat /\ g[x] \in Nat /\ f[x] <= g[x]
  PROVE  /\ SumFunctionOnSet(f, S) <= SumFunctionOnSet(g, S)
         /\ SumFunctionOnSet(f, S) = SumFunctionOnSet(g, S)
              => \A x \in S : f[x] = g[x]
<1> DEFINE d == [x \in S |-> g[x] - f[x]]
<1>1. \A x \in S : d[x] \in Nat /\ g[x] = f[x] + d[x] /\ d[x] = g[x] - f[x]
  OBVIOUS
<1> HIDE DEF d
<1>2. SumFunctionOnSet(g, S) = SumFunctionOnSet(f, S) + SumFunctionOnSet(d, S)
  BY <1>1, SumPlus
<1>3. SumFunctionOnSet(f, S) \in Nat /\ SumFunctionOnSet(d, S) \in Nat
  BY <1>1, SumType
<1>4. \A x \in S : d[x] <= SumFunctionOnSet(d, S)
  BY <1>1, SumMember
<1> QED BY <1>1, <1>2, <1>3, <1>4

\* A sum of zeros is zero.
LEMMA SumZero ==
  ASSUME NEW S, IsFiniteSet(S), NEW f, \A x \in S : f[x] = 0
  PROVE  SumFunctionOnSet(f, S) = 0
<1> DEFINE H == [T \in SUBSET S |-> 0]
<1>1. Additive(H, f, S)
  BY DEF Additive
<1> HIDE DEF H
<1>2. SumFunctionOnSet(f, S) = H[S]
  BY <1>1, SumIsAdditive
<1> QED BY <1>2 DEF H

\* Rounding: when a[x] is c[x]*A/T rounded down, with an error of at most
\* n[x]*E, the sums obey the same two bounds.
LEMMA SumFloor ==
  ASSUME NEW S, IsFiniteSet(S), NEW c, NEW a, NEW n, NEW A \in Nat, NEW T \in Nat, NEW E \in Nat,
         \A x \in S : c[x] \in Nat /\ a[x] \in Nat /\ n[x] \in Nat,
         \A x \in S : a[x] * T <= c[x] * A /\ c[x] * A <= a[x] * T + n[x] * E
  PROVE  /\ SumFunctionOnSet(a, S) * T <= SumFunctionOnSet(c, S) * A
         /\ SumFunctionOnSet(c, S) * A
              <= SumFunctionOnSet(a, S) * T + SumFunctionOnSet(n, S) * E
<1> DEFINE aT == [x \in S |-> a[x] * T]
           nE == [x \in S |-> n[x] * E]
           cA == [x \in S |-> c[x] * A]
           up == [x \in S |-> a[x] * T + n[x] * E]
<1>0. \A p, q \in Nat : p * q \in Nat
  OBVIOUS
<1>1. \A x \in S : /\ aT[x] = a[x] * T /\ nE[x] = n[x] * E /\ cA[x] = c[x] * A
                   /\ up[x] = aT[x] + nE[x]
  OBVIOUS
<1>2. \A x \in S : aT[x] \in Nat /\ nE[x] \in Nat /\ cA[x] \in Nat /\ up[x] \in Nat
  <2> SUFFICES ASSUME NEW x \in S
               PROVE  aT[x] \in Nat /\ nE[x] \in Nat /\ cA[x] \in Nat /\ up[x] \in Nat
    OBVIOUS
  <2> HIDE DEF aT, nE, cA, up
  <2>1. aT[x] \in Nat /\ nE[x] \in Nat /\ cA[x] \in Nat
    BY <1>0, <1>1
  <2> QED BY <1>1, <2>1
<1>3. \A x \in S : aT[x] <= cA[x] /\ cA[x] <= up[x]
  OBVIOUS
<1> HIDE DEF aT, nE, cA, up
<1>4. /\ SumFunctionOnSet(aT, S) = SumFunctionOnSet(a, S) * T
      /\ SumFunctionOnSet(nE, S) = SumFunctionOnSet(n, S) * E
      /\ SumFunctionOnSet(cA, S) = SumFunctionOnSet(c, S) * A
  BY <1>1, SumScale
<1>5. SumFunctionOnSet(up, S) = SumFunctionOnSet(aT, S) + SumFunctionOnSet(nE, S)
  BY <1>1, <1>2, SumPlus
<1>6. /\ SumFunctionOnSet(aT, S) <= SumFunctionOnSet(cA, S)
      /\ SumFunctionOnSet(cA, S) <= SumFunctionOnSet(up, S)
  BY <1>2, <1>3, SumLeq
<1> QED BY <1>4, <1>5, <1>6

-----------------------------------------------------------------------------
(* What the rounding of the launch policy guarantees.                      *)

\* Floor division: the quotient of naturals and its two bounds.
LEMMA DivBounds ==
  ASSUME NEW a \in Nat, NEW b \in Nat \ {0}
  PROVE  /\ a \div b \in Nat
         /\ (a \div b) * b <= a
         /\ a <= (a \div b) * b + (b - 1)
OBVIOUS

\* A product of naturals is a natural number, and monotone in each factor.
LEMMA MulNat ==
  ASSUME NEW a \in Nat, NEW b \in Nat, NEW c \in Nat
  PROVE  /\ a * b \in Nat
         /\ a <= c => a * b <= c * b /\ b * a <= b * c
OBVIOUS

\* A multiple of a positive number is bounded only by bounded factors.
LEMMA MulCancel ==
  ASSUME NEW a \in Nat, NEW b \in Nat, NEW t \in Nat \ {0}, a * t <= b * t
  PROVE  a <= b
OBVIOUS

\* Floor division is monotone in the dividend.
LEMMA DivMonotone ==
  ASSUME NEW a \in Nat, NEW c \in Nat, NEW b \in Nat \ {0}, a <= c
  PROVE  a \div b <= c \div b
OBVIOUS

\* One receipt: what Accepted takes of a commitment c out of a total t, against
\* the accepted target, is c's share rounded down by less than one lamport.
LEMMA AcceptedBounds ==
  ASSUME NEW c \in Nat, NEW t \in Nat \ {0}, NEW h \in Nat, c <= t
  PROVE  /\ Accepted(c, t, h) \in Nat
         /\ Accepted(c, t, h) <= c
         /\ Accepted(c, t, h) <= Least(t, h)
         /\ Accepted(c, t, h) * t <= c * Least(t, h)
         /\ c * Least(t, h) <= Accepted(c, t, h) * t + (IF c > 0 THEN 1 ELSE 0) * (t - 1)
<1>1. CASE t <= h
  BY <1>1 DEF Accepted, Least
<1>2. CASE h < t
  <2> DEFINE a == (c * h) \div t
  <2>1. c * h \in Nat
    BY MulNat
  <2>2. a \in Nat /\ a * t <= c * h /\ c * h <= a * t + (t - 1)
    BY Zenon, <2>1, DivBounds
  <2>3. Accepted(c, t, h) = a /\ Least(t, h) = h
    BY <1>2 DEF Accepted, Least
  <2> HIDE DEF a
  <2>4. c * h <= c * t /\ c * h <= t * h /\ t * h = h * t
    BY <1>2, MulNat
  <2>5. a <= c
    <3>1. a * t <= c * t BY <2>1, <2>2, <2>4, MulNat
    <3> QED BY <2>2, <3>1, MulCancel
  <2>6. a <= h
    <3>1. a * t <= h * t BY <2>1, <2>2, <2>4, MulNat
    <3> QED BY <2>2, <3>1, MulCancel
  <2>7. CASE c > 0
    BY <2>2, <2>3, <2>5, <2>6, <2>7
  <2>8. CASE c = 0
    BY <2>2, <2>3, <2>5, <2>6, <2>8
  <2> QED BY <2>7, <2>8
<1> QED BY <1>1, <1>2

\* All receipts: with s the sum of the shares of a total t among n receipts,
\* the dust that the rounding leaves is less than the number of receipts.
LEMMA DustBound ==
  ASSUME NEW s \in Nat, NEW t \in Nat \ {0}, NEW A \in Nat, NEW n \in Nat \ {0},
         s * t <= t * A, t * A <= s * t + n * (t - 1)
  PROVE  s <= A /\ A < s + n
<1>1. s <= A
  <2>1. t * A = A * t OBVIOUS
  <2> QED BY <2>1, MulCancel
<1>2. A < s + n
  <2> SUFFICES ASSUME s + n <= A PROVE FALSE
    OBVIOUS
  <2>1. (s + n) * t <= A * t
    BY MulNat
  <2>2. (s + n) * t = s * t + n * t /\ n * (t - 1) = n * t - n /\ A * t = t * A
    OBVIOUS
  <2>3. s * t \in Nat /\ n * t \in Nat /\ A * t \in Nat
    BY MulNat
  <2> QED BY <2>1, <2>2, <2>3
<1> QED BY <1>1, <1>2

\* The margin: with a soft cap of at least 100 lamports per possible receipt, the
\* least hard cap exceeds the soft cap by at least one lamport per receipt.
LEMMA MarginBound ==
  ASSUME NEW soft \in Nat, NEW m \in Nat, soft >= 100 * m
  PROVE  LeastHardCap(soft) >= soft + m
BY DEF LeastHardCap, CeilDiv

\* Any sealed split policy leaves room for the participants' and the dev's share
\* next to the liquidity: nothing of the supply is promised twice (split).
LEMMA SplitShares ==
  ASSUME NEW supply \in Nat, NEW b,
         b.participants \in Nat, b.liquidity \in Nat, b.parentA \in Nat, b.parentB \in Nat,
         b.dev \in Nat,
         b.participants + b.liquidity + b.parentA + b.parentB + b.dev = BpsDenominator
  PROVE  LET sp == SplitOf(supply, b)
         IN  /\ sp.participants \in Nat /\ sp.dev \in Nat /\ sp.liquidity \in Nat
             /\ sp.dev = Share(supply, b.dev)
             /\ sp.participants + sp.dev <= supply - sp.liquidity
             /\ b.parentA = 0 /\ b.parentB = 0
                  => sp.participants + sp.dev = supply - sp.liquidity
<1> DEFINE q == supply \div 10000
           p == q * b.participants
           l == q * b.liquidity
           x == q * b.parentA
           y == q * b.parentB
           d == q * b.dev
<1>1. q \in Nat /\ q * 10000 <= supply
  BY DivBounds
<1>2. \A n \in Nat : Share(supply, n) = q * n
  BY DEF Share, BpsDenominator
<1> HIDE DEF q
<1>3. p \in Nat /\ l \in Nat /\ x \in Nat /\ y \in Nat /\ d \in Nat
  BY <1>1, MulNat
<1>4. p + l + x + y + d = q * 10000
  <2>1. p + l + x + y + d
          = q * (b.participants + b.liquidity + b.parentA + b.parentB + b.dev)
    BY <1>1
  <2> QED BY <2>1 DEF BpsDenominator
<1>5. b.parentA = 0 /\ b.parentB = 0 => x = 0 /\ y = 0
  BY <1>1
<1>6. SplitOf(supply, b) = [participants |-> p, parentA |-> x, parentB |-> y, dev |-> d,
                            liquidity |-> l + (supply - (p + l + x + y + d))]
  BY <1>2 DEF SplitOf
<1>7. Share(supply, b.dev) = d
  BY <1>2
<1> HIDE DEF p, l, x, y, d
<1> QED BY <1>1, <1>3, <1>4, <1>5, <1>6, <1>7

\* The split of the version-3 policy.
LEMMA SplitRoom ==
  ASSUME NEW supply \in Nat
  PROVE  LET sp == SplitOf(supply, SPLIT_STANDARD_V3)
         IN  /\ sp.participants \in Nat /\ sp.dev \in Nat /\ sp.liquidity \in Nat
             /\ sp.dev = Share(supply, 500)
             /\ sp.participants + sp.dev = supply - sp.liquidity
<1> DEFINE b == SPLIT_STANDARD_V3
<1>1. /\ b.participants \in Nat /\ b.liquidity \in Nat /\ b.parentA = 0 /\ b.parentB = 0
      /\ b.dev \in Nat /\ b.dev = 500
      /\ b.participants + b.liquidity + b.parentA + b.parentB + b.dev = BpsDenominator
  BY DEF SPLIT_STANDARD_V3, BpsDenominator
<1> HIDE DEF b
<1>2. SplitOf(supply, b).dev = Share(supply, b.dev)
  BY <1>1, SplitShares
<1>3. LET sp == SplitOf(supply, b)
      IN  /\ sp.participants \in Nat /\ sp.dev \in Nat /\ sp.liquidity \in Nat
          /\ sp.participants + sp.dev = supply - sp.liquidity
  BY <1>1, SplitShares
<1> QED BY <1>1, <1>2, <1>3 DEF b

\* Under any vesting rule the dev's entitlement never shrinks and never exceeds the
\* rule's instant and linear shares (dev_entitled).
LEMMA VestedBounds ==
  ASSUME NEW supply \in Nat, NEW r, r.instant \in Nat, r.linear \in Nat,
         NEW start \in Nat, NEW end \in Nat, start < end,
         NEW n1 \in Nat, NEW n2 \in Nat, start <= n1, n1 <= n2
  PROVE  /\ DevEntitled(supply, r, start, end, n1) \in Nat
         /\ DevEntitled(supply, r, start, end, n2) \in Nat
         /\ DevEntitled(supply, r, start, end, n1) <= DevEntitled(supply, r, start, end, n2)
         /\ DevEntitled(supply, r, start, end, n2) <= Share(supply, r.instant + r.linear)
<1> DEFINE span == end - start
           q == supply \div 10000
           e(n) == DevEntitled(supply, r, start, end, n)
           k(n) == Least(n, end) - start
           I == q * r.instant
           L == q * r.linear
<1>1. q \in Nat /\ span \in Nat \ {0}
  BY DivBounds
<1>2. \A n \in Nat : Share(supply, n) = q * n
  BY DEF Share, BpsDenominator
<1>3. \A n : e(n) = I + (L * k(n)) \div span
  <2> HIDE DEF q
  <2> QED BY <1>2 DEF DevEntitled
<1>4. k(n1) \in Nat /\ k(n2) \in Nat /\ k(n1) <= k(n2) /\ k(n2) <= span
  BY DEF Least
<1> HIDE DEF q
<1>5. L \in Nat /\ I \in Nat
  BY <1>1, MulNat
<1>6. Share(supply, r.instant + r.linear) = I + L
  <2>1. Share(supply, r.instant + r.linear) = q * (r.instant + r.linear)
    BY <1>2
  <2> QED BY <1>1, <2>1
<1> HIDE DEF e, k, L, I, span
<1>7. /\ L * k(n1) \in Nat /\ L * k(n2) \in Nat /\ L * span \in Nat
      /\ L * k(n1) <= L * k(n2) /\ L * k(n2) <= L * span
  BY <1>1, <1>4, <1>5, MulNat
<1>8. /\ (L * k(n1)) \div span \in Nat
      /\ (L * k(n1)) \div span <= (L * k(n2)) \div span
      /\ (L * k(n2)) \div span \in Nat
      /\ ((L * k(n2)) \div span) * span <= L * k(n2)
  BY Zenon, <1>1, <1>7, DivBounds, DivMonotone
<1>9. (L * k(n2)) \div span <= L
  <2>1. ((L * k(n2)) \div span) * span <= L * span
    BY <1>1, <1>7, <1>8, MulNat
  <2> QED BY <1>1, <1>5, <1>8, <2>1, MulCancel
<1>10. e(n1) = I + (L * k(n1)) \div span /\ e(n2) = I + (L * k(n2)) \div span
  BY <1>3
<1> QED BY <1>5, <1>6, <1>8, <1>9, <1>10 DEF e

\* The dev's entitlement under the version-3 rule.
LEMMA DevEntitledBounds ==
  ASSUME NEW supply \in Nat, NEW start \in Nat, NEW end \in Nat, start < end,
         NEW n1 \in Nat, NEW n2 \in Nat, start <= n1, n1 <= n2
  PROVE  /\ DevEntitled(supply, VESTING_STANDARD_V3, start, end, n1) \in Nat
         /\ DevEntitled(supply, VESTING_STANDARD_V3, start, end, n2) \in Nat
         /\ DevEntitled(supply, VESTING_STANDARD_V3, start, end, n1)
              <= DevEntitled(supply, VESTING_STANDARD_V3, start, end, n2)
         /\ DevEntitled(supply, VESTING_STANDARD_V3, start, end, n2) <= Share(supply, 500)
<1> DEFINE r == VESTING_STANDARD_V3
<1>1. r.instant \in Nat /\ r.linear \in Nat /\ r.instant + r.linear = 500
  BY DEF VESTING_STANDARD_V3
<1> HIDE DEF r
<1>2. /\ DevEntitled(supply, r, start, end, n1) \in Nat
      /\ DevEntitled(supply, r, start, end, n2) \in Nat
      /\ DevEntitled(supply, r, start, end, n1) <= DevEntitled(supply, r, start, end, n2)
      /\ DevEntitled(supply, r, start, end, n2) <= Share(supply, r.instant + r.linear)
  <2>1. r.instant \in Nat /\ r.linear \in Nat
    BY <1>1
  <2> QED BY Zenon, <2>1, VestedBounds
<1> QED BY <1>1, <1>2 DEF r
=============================================================================
