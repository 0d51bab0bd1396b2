------------------------- MODULE FundingFirstProofs -------------------------
(***************************************************************************)
(* The properties of FundingFirst, for every set of owners, all amounts,   *)
(* terms and bounds: the induction for IndInv first (one lemma for each    *)
(* conjunct, one step in it for each instruction that can disturb it),     *)
(* then the properties, which follow from it with the rounding lemmas      *)
(* (dust below the number of receipts).                                    *)
(***************************************************************************)
EXTENDS FundingFirst, FiniteSetTheorems, TLAPS

\* Time limits of the provers for every leaf.
USE SMTT(30), ZenonT(20)

-----------------------------------------------------------------------------
(* Types, terms and the running totals.                                    *)

\* Sums over the receipts: the library lemmas at the set of owners.
LEMMA OwnersSum ==
  /\ IsFiniteSet(Owners)
  /\ \A f \in [Owners -> Nat] : Sum(f) \in Nat
  /\ \A f, g \in [Owners -> Nat], o \in Owners :
       (\A x \in Owners \ {o} : g[x] = f[x]) => Sum(g) = Sum(f) - f[o] + g[o]
  /\ \A f \in [Owners -> Nat], o \in Owners : f[o] <= Sum(f)
<1>1. IsFiniteSet(Owners)
  BY Zenon, FundingFirstConstants
<1>2. \A f \in [Owners -> Nat] : Sum(f) \in Nat
  BY Zenon, <1>1, SumType DEF Sum
<1>3. \A f, g \in [Owners -> Nat], o \in Owners :
        (\A x \in Owners \ {o} : g[x] = f[x]) => Sum(g) = Sum(f) - f[o] + g[o]
  BY <1>1, SumUpdate DEF Sum
<1>4. \A f \in [Owners -> Nat], o \in Owners : f[o] <= Sum(f)
  BY Zenon, <1>1, SumMember DEF Sum
<1> QED BY Zenon, <1>1, <1>2, <1>3, <1>4

\* The sum of the zero function.
LEMMA ZeroSum == \A f : (\A o \in Owners : f[o] = 0) => Sum(f) = 0
BY Zenon, FundingFirstConstants, SumZero DEF Sum

\* Every receipt's share is a natural number of at most its commitment and the
\* accepted target; with the sealed total the same share is used by account_v2.
LEMMA ShareBounds ==
  ASSUME TypeOK, LedgerInv, NEW o \in Owners
  PROVE  /\ committed[o] <= total
         /\ Accepted(committed[o], total, hard) \in Nat
         /\ Accepted(committed[o], total, hard) <= committed[o]
         /\ Accepted(committed[o], total, hard) <= Least(total, hard)
<1>1. committed[o] <= total /\ committed[o] \in Nat /\ total \in Nat /\ hard \in Nat
  BY Zenon, OwnersSum DEF TypeOK, LedgerInv
<1>2. CASE total = 0
  BY <1>1, <1>2 DEF Accepted, Least
<1>3. CASE total # 0
  BY Zenon, <1>1, <1>3, AcceptedBounds
<1> QED BY Zenon, <1>1, <1>2, <1>3

\* All shares together: never above the accepted target, short of it by less
\* than the number of receipts, and everything when the hard cap is not reached.
LEMMA SharesSum ==
  ASSUME TypeOK, LedgerInv
  PROVE  /\ Shares \in [Owners -> Nat]
         /\ Sum(Shares) \in Nat
         /\ Sum(Shares) <= Least(total, hard)
         /\ Least(total, hard) <= Sum(Shares) + receiptCount
         /\ total > 0 => Least(total, hard) < Sum(Shares) + receiptCount
         /\ total <= hard => Sum(Shares) = total
<1>1. Shares \in [Owners -> Nat]
  BY Zenon, ShareBounds DEF Shares
<1>2. Sum(Shares) \in Nat
  BY Zenon, <1>1, OwnersSum
<1>3. total \in Nat /\ hard \in Nat /\ receiptCount \in Nat /\ committed \in [Owners -> Nat]
  BY Zenon DEF TypeOK
<1>4. total <= hard => Sum(Shares) = total
  <2> SUFFICES ASSUME total <= hard PROVE Sum(Shares) = total
    OBVIOUS
  <2>1. \A o \in Owners : committed[o] \in Nat /\ Shares[o] = committed[o]
    <3> TAKE o \in Owners
    <3>1. committed[o] <= total /\ committed[o] \in Nat
      BY Zenon, <1>3, ShareBounds
    <3> QED BY <1>3, <3>1 DEF Shares, Accepted
  <2>2. Sum(Shares) = Sum(committed)
    BY Zenon, <2>1, OwnersSum, SumSame DEF Sum
  <2> QED BY Zenon, <2>2 DEF LedgerInv
<1>5. CASE total = 0
  <2>1. Sum(Shares) = 0
    BY <1>3, <1>4, <1>5
  <2> QED BY <1>1, <1>3, <1>4, <1>5, <2>1 DEF Least
<1>6. CASE total # 0
  <2> DEFINE A == Least(total, hard)
  <2>1. A \in Nat
    BY Zenon, <1>3 DEF Least
  <2>2. \A o \in Owners : /\ committed[o] \in Nat /\ Shares[o] \in Nat /\ HasReceipt[o] \in Nat
                          /\ Shares[o] * total <= committed[o] * A
                          /\ committed[o] * A <= Shares[o] * total + HasReceipt[o] * (total - 1)
    <3> TAKE o \in Owners
    <3>1. committed[o] \in Nat /\ committed[o] <= total
      BY Zenon, <1>3, ShareBounds
    <3>2. /\ Shares[o] = Accepted(committed[o], total, hard)
          /\ HasReceipt[o] = IF committed[o] > 0 THEN 1 ELSE 0
      BY Zenon DEF Shares, HasReceipt
    <3>3. total \in Nat \ {0}
      BY Zenon, <1>3, <1>6
    <3>4. /\ Accepted(committed[o], total, hard) \in Nat
          /\ Accepted(committed[o], total, hard) * total <= committed[o] * A
          /\ committed[o] * A <= Accepted(committed[o], total, hard) * total
                                  + (IF committed[o] > 0 THEN 1 ELSE 0) * (total - 1)
      BY <1>3, <3>1, <3>3, AcceptedBounds, Zenon
    <3>5. HasReceipt[o] \in Nat
      BY <3>2
    <3> QED BY <3>1, <3>2, <3>4, <3>5, Zenon
  <2> HIDE DEF A
  <2>3. total - 1 \in Nat
    BY <1>3, <1>6
  <2>4. /\ Sum(Shares) * total <= Sum(committed) * A
        /\ Sum(committed) * A <= Sum(Shares) * total + Sum(HasReceipt) * (total - 1)
    BY Zenon, <1>3, <2>1, <2>2, <2>3, OwnersSum, SumFloor DEF Sum
  <2>5. /\ Sum(Shares) * total <= total * A
        /\ total * A <= Sum(Shares) * total + receiptCount * (total - 1)
    BY Zenon, <2>4 DEF LedgerInv
  <2>6. receiptCount # 0
    <3> SUFFICES ASSUME receiptCount = 0 PROVE FALSE
      OBVIOUS
    <3>1. HasReceipt \in [Owners -> Nat]
      BY Zenon DEF HasReceipt
    <3>2. \A o \in Owners : HasReceipt[o] = 0
      <4> TAKE o \in Owners
      <4>1. HasReceipt[o] \in Nat /\ HasReceipt[o] <= Sum(HasReceipt)
        BY Zenon, <3>1, OwnersSum
      <4> QED BY <4>1 DEF LedgerInv
    <3>3. \A o \in Owners : committed[o] = 0
      BY <3>2, <1>3 DEF HasReceipt
    <3> QED BY Zenon, <3>3, ZeroSum, <1>6 DEF LedgerInv
  <2>7. Sum(Shares) <= A /\ A < Sum(Shares) + receiptCount
    BY Zenon, <1>2, <1>3, <1>6, <2>1, <2>5, <2>6, DustBound
  <2> QED BY <1>1, <1>2, <1>3, <1>4, <2>1, <2>7 DEF A
<1> QED BY Zenon, <1>3, <1>5, <1>6

-----------------------------------------------------------------------------
\* The constants as the proofs use them.
LEMMA ConstantTypes ==
  /\ COLLATERAL_V2 \in Nat \ {0} /\ COLLATERAL_V2 = MAX_RECEIPTS_V2
  /\ Supply \in Nat /\ VestingSpan \in Nat \ {0} /\ LaunchCost \in Nat
  /\ \A t \in OfferedTerms : /\ t.soft \in Nat /\ t.hard \in Nat /\ t.opensAt \in Nat
                             /\ t.funding \in Nat /\ t.window \in Nat
<1>1. \A t \in OfferedTerms : /\ t.soft \in Nat /\ t.hard \in Nat /\ t.opensAt \in Nat
                             /\ t.funding \in Nat /\ t.window \in Nat
  <2> TAKE t \in OfferedTerms
  <2>1. /\ DOMAIN t = {"soft", "hard", "opensAt", "funding", "window"}
        /\ \A f \in DOMAIN t : t[f] \in Nat
    BY Zenon, FundingFirstConstants
  <2> QED BY Zenon, <2>1
<1> QED BY Zenon, <1>1, FundingFirstConstants

\* The amounts the handlers compute are natural numbers.
LEMMA Computed ==
  ASSUME IndInv
  PROVE  /\ Least(total, hard) \in Nat
         /\ \A o \in Owners : Entitled(o) \in Nat
         /\ sealed => \A o \in Owners : AcceptedOf(o) = Accepted(committed[o], total, hard)
         /\ sealed => \A o \in Owners : AcceptedOf(o) \in Nat
         /\ sealed /\ acceptedTarget # 0 => \A o \in Owners : AllocationQ(o) \in Nat
         /\ launchTime <= now => DevEntitledNow \in Nat /\ DevEntitledNow <= Split.dev
         /\ Split.participants \in Nat /\ Split.dev \in Nat /\ Split.liquidity \in Nat
         /\ Split.participants + Split.dev = Supply - Split.liquidity
<1> USE DEF IndInv
<1>1. Least(total, hard) \in Nat
  BY Zenon DEF TypeOK, Least
<1>2. \A o \in Owners : Entitled(o) \in Nat
  <2> TAKE o \in Owners
  <2>1. committed[o] \in Nat
    BY Zenon DEF TypeOK
  <2> QED BY <2>1, ShareBounds DEF Entitled, Refundable
<1>3. sealed => \A o \in Owners : AcceptedOf(o) = Accepted(committed[o], total, hard)
  BY Zenon DEF AcceptedOf, PhaseInv
<1>4. sealed => \A o \in Owners : AcceptedOf(o) \in Nat
  BY Zenon, <1>3, ShareBounds
<1>5. /\ Split.participants \in Nat /\ Split.dev \in Nat /\ Split.liquidity \in Nat
      /\ Split.dev = Share(Supply, 500)
      /\ Split.participants + Split.dev = Supply - Split.liquidity
  BY Zenon, ConstantTypes, SplitRoom DEF Split
<1>6. sealed /\ acceptedTarget # 0 => \A o \in Owners : AllocationQ(o) \in Nat
  <2> SUFFICES ASSUME sealed, acceptedTarget # 0, NEW o \in Owners PROVE AllocationQ(o) \in Nat
    OBVIOUS
  <2>1. AcceptedOf(o) \in Nat /\ acceptedTarget \in Nat \ {0}
    BY Zenon, <1>4 DEF TypeOK
  <2>2. Split.participants * AcceptedOf(o) \in Nat
    BY <1>5, <2>1, MulNat
  <2> QED BY Zenon, <2>1, <2>2, DivBounds DEF AllocationQ
<1>7. launchTime <= now => DevEntitledNow \in Nat /\ DevEntitledNow <= Split.dev
  <2> SUFFICES ASSUME launchTime <= now PROVE DevEntitledNow \in Nat /\ DevEntitledNow <= Split.dev
    OBVIOUS
  <2>1. launchTime \in Nat /\ now \in Nat
    BY Zenon DEF TypeOK
  <2> DEFINE end == launchTime + VestingSpan
  <2>2. now <= now /\ end \in Nat /\ launchTime < end
    BY <2>1, ConstantTypes
  <2>3. DevEntitledNow = DevEntitled(Supply, VESTING_STANDARD_V3, launchTime, end, now)
    BY Zenon DEF DevEntitledNow
  <2> HIDE DEF end
  <2>4. DevEntitledNow \in Nat /\ DevEntitledNow <= Share(Supply, 500)
    BY <2>1, <2>2, <2>3, ConstantTypes, DevEntitledBounds
  <2> QED BY Zenon, <2>4, <1>5
<1> QED BY Zenon, <1>1, <1>2, <1>3, <1>4, <1>5, <1>6, <1>7

\* Init establishes the invariant.
LEMMA InitInd == Init => IndInv
<1> SUFFICES ASSUME Init PROVE IndInv
  OBVIOUS
<1>1. TypeOK
  BY Zenon DEF Init, TypeOK, Zero, Phases
<1>2. Sum(committed) = 0 /\ Sum(paid) = 0 /\ Sum(HasReceipt) = 0 /\ Sum(claimedTokens) = 0
  BY ZeroSum DEF Init, Zero, HasReceipt
<1>3. Sum(Accounted01) = 0 /\ Sum(AccountedShares) = 0
  BY Zenon, ZeroSum DEF Init, Accounted01, AccountedShares
<1>4. LedgerInv
  BY <1>2, ConstantTypes DEF Init, LedgerInv, Exists
<1>5. TermsInv /\ PhaseInv /\ PaidInv /\ CollateralInv
  BY DEF Init, TermsInv, PhaseInv, PaidInv, CollateralInv, Exists, Zero,
         ABSENT, FUNDING, CLOSED, REFUND_ONLY, LIVE
<1>6. AccountInv
  BY Zenon, <1>3 DEF Init, AccountInv
<1>7. ClaimInv
  BY Zenon, <1>2 DEF Init, ClaimInv, Zero, ABSENT, LIVE
<1> QED BY Zenon, <1>1, <1>4, <1>5, <1>6, <1>7 DEF IndInv

-----------------------------------------------------------------------------
\* Types are preserved: no subtraction of a handler goes below zero.
LEMMA TypeStep ==
  ASSUME IndInv, [Next]_vars
  PROVE  TypeOK'
<1> USE DEF termVars, fundVars, refundVars, sealVars, accountVars, claimVars, launchVars
<1>t. TypeOK
  BY Zenon DEF IndInv
<1>1. ASSUME NEW t \in OfferedTerms, OpenFunding(t) PROVE TypeOK'
  BY <1>t, <1>1, ConstantTypes DEF OpenFunding, TypeOK, Phases
<1>2. ASSUME NEW o \in Owners, NEW a \in Amounts, NEW q, Commit(o, a, q) PROVE TypeOK'
  <2>1. a \in Nat
    BY Zenon, FundingFirstConstants
  <2> QED BY <1>t, <1>2, <2>1 DEF Commit, TypeOK
<1>3. ASSUME CloseV2 PROVE TypeOK'
  BY Zenon, <1>t, <1>3, Computed DEF CloseV2, SealTotals, TypeOK, Phases
<1>4. ASSUME NEW o \in Owners, RefundV2(o) PROVE TypeOK'
  <2>1. Entitled(o) \in Nat /\ Least(total, hard) \in Nat
    BY Zenon, Computed
  <2>2. /\ phase' \in Phases /\ sealed' \in BOOLEAN /\ sealedReceipts' \in Nat
        /\ sealedTotal' \in Nat /\ acceptedTarget' \in Nat
    BY Zenon, <1>t, <1>4, <2>1 DEF RefundV2, SealTotals, TypeOK, Phases
  <2>3. lamports' \in Nat /\ refunded' \in Nat
    BY <1>t, <1>4, <2>1 DEF RefundV2, TypeOK
  <2>4. paid' \in [Owners -> Nat]
    BY Zenon, <1>t, <1>4, <2>1 DEF RefundV2, PaidAfter, TypeOK
  <2> QED BY Zenon, <1>t, <1>4, <2>2, <2>3, <2>4 DEF RefundV2, TypeOK
<1>5. ASSUME NEW o \in Owners, AccountV2(o) PROVE TypeOK'
  <2>1. AcceptedOf(o) \in Nat
    BY Zenon, <1>5, Computed DEF AccountV2
  <2> QED BY <1>t, <1>5, <2>1 DEF AccountV2, TypeOK
<1>6. ASSUME ReturnCollateralV2 PROVE TypeOK'
  <2>1. CollateralDue \in Nat /\ CollateralFloor \in Nat
    BY <1>t, <1>6, ConstantTypes
    DEF ReturnCollateralV2, CollateralDue, CollateralFloor, Dust, TypeOK, LIVE, REFUND_ONLY
  <2> QED BY <1>t, <1>6, <2>1 DEF ReturnCollateralV2, TypeOK
<1>7. ASSUME LaunchFundingFirst PROVE TypeOK'
  <2>1. /\ Least(total, hard) \in Nat /\ Supply - Split.liquidity \in Nat
        /\ LiabilityV2 \in Int
    BY <1>t, Computed, ConstantTypes DEF LiabilityV2, TypeOK
  <2> QED BY <1>t, <1>7, <2>1, ConstantTypes DEF LaunchFundingFirst, LaunchFundsOK, SetupCovers, SealTotals, TypeOK, Phases
<1>8. ASSUME NEW o \in Owners, ClaimV2(o) PROVE TypeOK'
  <2>1. AllocationQ(o) \in Nat /\ AcceptedOf(o) \in Nat
    BY Zenon, <1>8, Computed DEF ClaimV2, ClaimOK
  <2> QED BY <1>t, <1>8, <2>1 DEF ClaimV2, ClaimOK, TypeOK
<1>9. ASSUME ClaimDev PROVE TypeOK'
  <2>1. DevEntitledNow \in Nat
    BY Zenon, <1>9, Computed DEF ClaimDev, DevClaimOK
  <2> QED BY <1>t, <1>9, <2>1 DEF ClaimDev, DevClaimOK, TypeOK
<1>10. ASSUME ReturnSetup \/ Donate \/ FundSetup \/ Tick PROVE TypeOK'
  BY <1>t, <1>10 DEF ReturnSetup, Donate, FundSetup, Tick, TypeOK
<1>11. ASSUME UNCHANGED vars PROVE TypeOK'
  BY Zenon, <1>t, <1>11 DEF vars, TypeOK
<1> QED BY Zenon, <1>1, <1>2, <1>3, <1>4, <1>5, <1>6, <1>7, <1>8, <1>9, <1>10, <1>11 DEF Next

\* The sealed terms stay valid: only the opening writes them.
LEMMA TermsStep ==
  ASSUME IndInv, [Next]_vars
  PROVE  TermsInv'
<1> USE DEF termVars, fundVars, refundVars, sealVars, accountVars, claimVars, launchVars
<1>t. TypeOK /\ TermsInv
  BY Zenon DEF IndInv
<1>1. ASSUME NEW t \in OfferedTerms, OpenFunding(t) PROVE TermsInv'
  BY <1>1, ConstantTypes DEF OpenFunding, ScheduleValid, CapsValid, TermsInv
<1>2. CASE UNCHANGED termVars /\ (Exists' => Exists)
  BY Zenon, <1>t, <1>2 DEF TermsInv, CapsValid
<1>3. ASSUME CloseV2 PROVE UNCHANGED termVars /\ (Exists' => Exists)
  BY Zenon, <1>3 DEF CloseV2, AfterDeadline
<1>4. ASSUME NEW o \in Owners, RefundV2(o) PROVE UNCHANGED termVars /\ (Exists' => Exists)
  BY Zenon, <1>4 DEF RefundV2, AfterDeadline
<1>5. ASSUME LaunchFundingFirst PROVE UNCHANGED termVars /\ (Exists' => Exists)
  BY Zenon, <1>5 DEF LaunchFundingFirst, ReadyV2, InLaunchWindow, Exists, FUNDING, CLOSED, ABSENT
<1>6. CASE UNCHANGED <<termVars, phase>>
  BY Zenon, <1>2, <1>6 DEF Exists
<1> QED
  BY Zenon, <1>1, <1>2, <1>3, <1>4, <1>5, <1>6
  DEF Next, Commit, AccountV2, ReturnCollateralV2, ClaimV2, ClaimDev, ReturnSetup, Donate,
      FundSetup, Tick, vars

\* The running totals follow the receipts and no lamport is lost or made.
LEMMA LedgerStep ==
  ASSUME IndInv, [Next]_vars
  PROVE  LedgerInv'
<1> USE DEF termVars, fundVars, refundVars, sealVars, accountVars, claimVars, launchVars
<1>t. TypeOK /\ LedgerInv /\ PhaseInv /\ TypeOK'
  BY Zenon, TypeStep DEF IndInv
<1>s. /\ committed \in [Owners -> Nat] /\ committed' \in [Owners -> Nat]
      /\ paid \in [Owners -> Nat] /\ paid' \in [Owners -> Nat]
      /\ total \in Nat /\ refunded \in Nat /\ receiptCount \in Nat /\ lamports \in Nat
      /\ pool \in Nat /\ collateralReturned \in Nat /\ donated \in Nat
      /\ COLLATERAL_V2 \in Nat /\ MAX_RECEIPTS_V2 \in Nat
  BY Zenon, <1>t, ConstantTypes, FundingFirstConstants DEF TypeOK
<1>h. HasReceipt \in [Owners -> Nat] /\ HasReceipt' \in [Owners -> Nat]
  BY Zenon DEF HasReceipt
<1>1. ASSUME NEW t \in OfferedTerms, OpenFunding(t) PROVE LedgerInv'
  <2>1. HasReceipt' = HasReceipt
    BY Zenon, <1>1 DEF OpenFunding, HasReceipt
  <2> QED BY <1>t, <1>s, <1>1, <2>1 DEF OpenFunding, LedgerInv, Exists, Sum, ABSENT, FUNDING
<1>2. ASSUME NEW o \in Owners, NEW a \in Amounts, NEW q, Commit(o, a, q) PROVE LedgerInv'
  <2>0. a \in Nat /\ a > 0 /\ committed[o] \in Nat
    BY Zenon, <1>2, <1>s, FundingFirstConstants DEF Commit
  <2>1. Sum(committed') = Sum(committed) + a
    <3>1. committed'[o] = committed[o] + a /\ \A x \in Owners \ {o} : committed'[x] = committed[x]
      BY Zenon, <1>2, <1>s DEF Commit
    <3>2. Sum(committed') = Sum(committed) - committed[o] + committed'[o] /\ Sum(committed) \in Nat
      BY Zenon, <1>s, <3>1, OwnersSum
    <3> QED BY <2>0, <3>1, <3>2
  <2>2. receiptCount' = Sum(HasReceipt') /\ receiptCount' <= MAX_RECEIPTS_V2
    <3>1. /\ HasReceipt'[o] = 1 /\ HasReceipt[o] = IF Fresh(o) THEN 0 ELSE 1
          /\ \A x \in Owners \ {o} : HasReceipt'[x] = HasReceipt[x]
      BY <1>2, <1>s, <2>0 DEF Commit, HasReceipt, Fresh
    <3>2. Sum(HasReceipt') = Sum(HasReceipt) - HasReceipt[o] + HasReceipt'[o]
      BY Zenon, <1>h, <3>1, OwnersSum
    <3>3. receiptCount = Sum(HasReceipt) /\ receiptCount <= MAX_RECEIPTS_V2
      BY Zenon, <1>t DEF LedgerInv
    <3>4. receiptCount' = IF Fresh(o) THEN receiptCount + 1 ELSE receiptCount
      BY Zenon, <1>2 DEF Commit
    <3>5. Fresh(o) => receiptCount < MAX_RECEIPTS_V2
      BY Zenon, <1>2 DEF Commit, CommitLimits
    <3> QED BY <1>s, <3>1, <3>2, <3>3, <3>4, <3>5
  <2>3. UNCHANGED <<phase, refunded, paid, pool, collateralReturned, donated>>
    BY Zenon, <1>2 DEF Commit
  <2>4. total' = total + a /\ lamports' = lamports + a
    BY Zenon, <1>2 DEF Commit
  <2>5. refunded' = Sum(paid')
    BY Zenon, <1>t, <2>3 DEF LedgerInv
  <2>6. total' = Sum(committed')
    BY Zenon, <1>t, <2>1, <2>4 DEF LedgerInv
  <2> QED BY <1>t, <1>s, <2>0, <2>2, <2>3, <2>4, <2>5, <2>6 DEF LedgerInv, Exists, Sum
<1>3. CASE UNCHANGED <<total, committed, refunded, paid, receiptCount, pool, collateralReturned,
                       lamports, donated>> /\ Exists' = Exists
  <2>1. HasReceipt' = HasReceipt
    BY Zenon, <1>3 DEF HasReceipt
  <2> QED BY Zenon, <1>t, <1>3, <2>1 DEF LedgerInv, Sum
<1>4. ASSUME CloseV2 PROVE LedgerInv'
  BY Zenon, <1>3, <1>4 DEF CloseV2, AfterDeadline, Exists, ABSENT, CLOSED, REFUND_ONLY
<1>5. ASSUME NEW o \in Owners, RefundV2(o) PROVE LedgerInv'
  <2>0. Entitled(o) \in Nat /\ paid[o] \in Nat
    BY Zenon, <1>s, Computed
  <2>1. Sum(paid') = Sum(paid) - paid[o] + Entitled(o)
    <3>1. paid'[o] = Entitled(o) /\ \A x \in Owners \ {o} : paid'[x] = paid[x]
      BY Zenon, <1>5, <1>s DEF RefundV2, PaidAfter
    <3>2. Sum(paid') = Sum(paid) - paid[o] + paid'[o]
      BY <1>s, <3>1, OwnersSum
    <3> QED BY Zenon, <3>1, <3>2
  <2>2. /\ refunded' = refunded + (Entitled(o) - paid[o])
        /\ lamports' = lamports - (Entitled(o) - paid[o])
        /\ UNCHANGED <<total, receiptCount, committed, pool, collateralReturned, donated>>
    BY Zenon, <1>5 DEF RefundV2
  <2>3. Exists' = Exists
    BY Zenon, <1>5 DEF RefundV2, AfterDeadline, Exists, ABSENT, CLOSED, REFUND_ONLY
  <2>4. refunded' = Sum(paid')
    <3>1. refunded = Sum(paid)
      BY Zenon, <1>t DEF LedgerInv
    <3> QED BY <1>s, <2>0, <2>1, <2>2, <3>1
  <2>5. HasReceipt' = HasReceipt
    BY Zenon, <2>2 DEF HasReceipt
  <2>6. total' = Sum(committed') /\ receiptCount' = Sum(HasReceipt') /\ receiptCount' <= MAX_RECEIPTS_V2
    BY Zenon, <1>t, <2>2, <2>5 DEF LedgerInv
  <2> QED BY <1>t, <1>s, <2>0, <2>2, <2>3, <2>4, <2>6 DEF LedgerInv, Sum
<1>6. ASSUME ReturnCollateralV2 PROVE LedgerInv'
  <2>1. CollateralDue \in Int
    BY <1>t, <1>s DEF CollateralDue, Dust, TypeOK
  <2>2. HasReceipt' = HasReceipt
    BY Zenon, <1>6 DEF ReturnCollateralV2, HasReceipt
  <2> QED BY <1>t, <1>s, <1>6, <2>1, <2>2 DEF ReturnCollateralV2, LedgerInv, Exists, Sum
<1>7. ASSUME LaunchFundingFirst PROVE LedgerInv'
  <2>1. Least(total, hard) \in Nat
    BY Zenon, Computed
  <2>2. HasReceipt' = HasReceipt
    BY Zenon, <1>7 DEF LaunchFundingFirst, HasReceipt
  <2>3. phase # ABSENT /\ pool = 0 /\ phase' # ABSENT
    BY Zenon, <1>t, <1>7 DEF LaunchFundingFirst, ReadyV2, InLaunchWindow, PhaseInv, ABSENT, FUNDING, CLOSED, LIVE
  <2> QED BY <1>t, <1>s, <1>7, <2>1, <2>2, <2>3 DEF LaunchFundingFirst, LedgerInv, Exists, Sum
<1>8. ASSUME Donate PROVE LedgerInv'
  <2>1. HasReceipt' = HasReceipt
    BY Zenon, <1>8 DEF Donate, HasReceipt
  <2> QED BY <1>t, <1>s, <1>8, <2>1 DEF Donate, LedgerInv, Exists, Sum
<1> QED
  BY Zenon, <1>1, <1>2, <1>3, <1>4, <1>5, <1>6, <1>7, <1>8
  DEF Next, AccountV2, ClaimV2, ClaimDev, ReturnSetup, FundSetup, Tick, vars, Exists

-----------------------------------------------------------------------------
(* Phases, refunds, accounting, collateral and claims.                     *)

\* A live campaign has not failed: its total reached the soft cap.
LEMMA LiveNotFailed ==
  ASSUME IndInv, phase = LIVE
  PROVE  ~Failed
BY DEF IndInv, TypeOK, PhaseInv, Failed, LaunchFailed, LIVE, REFUND_ONLY, CLOSED

\* What each phase means is preserved; sealed totals stay the totals.
LEMMA PhaseStep ==
  ASSUME IndInv, [Next]_vars
  PROVE  PhaseInv'
<1> USE DEF termVars, fundVars, refundVars, sealVars, accountVars, claimVars, launchVars,
            ABSENT, FUNDING, CLOSED, REFUND_ONLY, LIVE
<1>t. TypeOK /\ PhaseInv
  BY Zenon DEF IndInv
<1>1. ASSUME NEW t \in OfferedTerms, OpenFunding(t) PROVE PhaseInv'
  BY Zenon, <1>t, <1>1 DEF OpenFunding, PhaseInv, Exists
<1>2. ASSUME NEW o \in Owners, NEW a \in Amounts, NEW q, Commit(o, a, q) PROVE PhaseInv'
  BY Zenon, <1>t, <1>2 DEF Commit, FundingOpen, PhaseInv, Exists
<1>3. ASSUME CloseV2 PROVE PhaseInv'
  <2>1. ~Failed => total >= soft
    BY <1>t DEF Failed, LaunchFailed, TypeOK
  <2> QED BY Zenon, <1>t, <1>3, <2>1 DEF CloseV2, SealTotals, AfterDeadline, PhaseInv, Exists, TypeOK
<1>4. ASSUME NEW o \in Owners, RefundV2(o) PROVE PhaseInv'
  <2>1. ~Failed => total >= soft
    BY <1>t DEF Failed, LaunchFailed, TypeOK
  <2>2. phase = LIVE => ~Failed
    BY Zenon, LiveNotFailed
  <2>3. phase # ABSENT /\ now >= deadline /\ phase' \notin {ABSENT, FUNDING}
    BY Zenon, <1>t, <1>4 DEF RefundV2, AfterDeadline, Exists, TypeOK, Phases
  <2> QED BY Zenon, <1>t, <1>4, <2>1, <2>2, <2>3 DEF RefundV2, SealTotals, PhaseInv, Exists
<1>5. ASSUME LaunchFundingFirst PROVE PhaseInv'
  BY <1>t, <1>5 DEF LaunchFundingFirst, ReadyV2, InLaunchWindow, SealTotals, PhaseInv, Exists, TypeOK
<1>6. ASSUME Tick PROVE PhaseInv'
  BY <1>t, <1>6 DEF Tick, PhaseInv, Exists, TypeOK
<1>7. CASE UNCHANGED <<now, phase, termVars, fundVars, refundVars, sealVars, launchVars>>
  BY Zenon, <1>t, <1>7 DEF PhaseInv, Exists
<1> QED
  BY Zenon, <1>1, <1>2, <1>3, <1>4, <1>5, <1>6, <1>7
  DEF Next, AccountV2, ReturnCollateralV2, ClaimV2, ClaimDev, ReturnSetup, Donate, FundSetup, vars

\* No receipt is paid more than its excess while the round may still launch or
\* has launched, and never more than its commitment.
LEMMA PaidStep ==
  ASSUME IndInv, [Next]_vars
  PROVE  PaidInv'
<1> USE DEF termVars, fundVars, refundVars, sealVars, accountVars, claimVars, launchVars,
            ABSENT, FUNDING, CLOSED, REFUND_ONLY, LIVE
<1>t. TypeOK /\ PhaseInv /\ PaidInv
  BY Zenon DEF IndInv
<1>s. \A o \in Owners : /\ committed[o] \in Nat /\ paid[o] \in Nat
                        /\ Accepted(committed[o], total, hard) \in Nat
                        /\ Accepted(committed[o], total, hard) <= committed[o]
  BY Zenon, <1>t, ShareBounds DEF TypeOK, IndInv
<1>z. phase \in {ABSENT, FUNDING} => \A o \in Owners : paid[o] = 0
  BY Zenon, <1>t DEF PhaseInv, Zero
<1>1. ASSUME NEW t \in OfferedTerms, OpenFunding(t) PROVE PaidInv'
  BY Zenon, <1>t, <1>1 DEF OpenFunding, PaidInv
<1>2. ASSUME NEW o \in Owners, NEW a \in Amounts, NEW q, Commit(o, a, q) PROVE PaidInv'
  <2>1. a \in Nat
    BY Zenon, FundingFirstConstants
  <2>2. phase = FUNDING /\ phase' = FUNDING /\ paid' = paid
    BY Zenon, <1>2 DEF Commit, FundingOpen
  <2>3. \A x \in Owners : committed'[x] \in Nat
    BY <1>t, <1>2, <2>1 DEF Commit, TypeOK
  <2> QED BY <1>s, <1>z, <2>2, <2>3 DEF PaidInv
<1>3. CASE UNCHANGED <<termVars, fundVars, paid>> /\ (phase' # phase => phase \in {ABSENT, FUNDING, CLOSED})
  <2>1. \A o \in Owners : phase \in {ABSENT, FUNDING, CLOSED, LIVE} =>
          paid[o] + Accepted(committed[o], total, hard) <= committed[o]
    BY <1>t, <1>s, <1>z DEF PaidInv
  <2> QED BY Zenon, <1>t, <1>3, <2>1 DEF PaidInv
<1>4. ASSUME CloseV2 PROVE PaidInv'
  <2>1. phase' # phase => phase \in {ABSENT, FUNDING, CLOSED}
    BY Zenon, <1>t, <1>4 DEF CloseV2, TypeOK, Phases, Failed, LaunchFailed
  <2> QED BY Zenon, <1>3, <1>4, <2>1 DEF CloseV2
<1>5. ASSUME NEW o \in Owners, RefundV2(o) PROVE PaidInv'
  <2>1. /\ UNCHANGED <<total, hard, committed>>
        /\ paid'[o] = Entitled(o) /\ \A x \in Owners \ {o} : paid'[x] = paid[x]
    BY Zenon, <1>t, <1>5 DEF RefundV2, PaidAfter, TypeOK
  <2>2. CASE Failed
    <3>1. phase' = REFUND_ONLY /\ Entitled(o) = committed[o]
      BY Zenon, <1>5, <2>2 DEF RefundV2, Entitled, Refundable
    <3> QED BY <1>t, <1>s, <2>1, <3>1 DEF PaidInv
  <2>3. CASE ~Failed
    <3>1. Entitled(o) = committed[o] - Accepted(committed[o], total, hard)
      BY Zenon, <2>3 DEF Entitled, Refundable
    <3>2. phase \in {FUNDING, CLOSED, LIVE}
      BY Zenon, <1>t, <1>5, <2>3 DEF RefundV2, AfterDeadline, Exists, TypeOK, Phases, Failed, LaunchFailed
    <3>3. \A x \in Owners : paid[x] + Accepted(committed[x], total, hard) <= committed[x]
      BY <1>t, <1>s, <1>z, <3>2 DEF PaidInv
    <3>4. \A x \in Owners : paid'[x] + Accepted(committed[x], total, hard) <= committed[x]
      BY <1>s, <2>1, <3>1, <3>3
    <3>5. \A x \in Owners : paid'[x] \in Nat
      BY Zenon, TypeStep DEF TypeOK
    <3> QED BY <1>s, <2>1, <3>4, <3>5 DEF PaidInv
  <2> QED BY Zenon, <2>2, <2>3
<1>6. ASSUME LaunchFundingFirst PROVE PaidInv'
  BY Zenon, <1>3, <1>6 DEF LaunchFundingFirst, ReadyV2, InLaunchWindow
<1> QED
  BY Zenon, <1>1, <1>2, <1>3, <1>4, <1>5, <1>6
  DEF Next, AccountV2, ReturnCollateralV2, ClaimV2, ClaimDev, ReturnSetup, Donate, FundSetup,
      Tick, vars

\* The accounted count and sum follow the accounted receipts.
LEMMA AccountStep ==
  ASSUME IndInv, [Next]_vars
  PROVE  AccountInv'
<1> USE DEF termVars, fundVars, refundVars, sealVars, accountVars, claimVars, launchVars,
            ABSENT, FUNDING, CLOSED, REFUND_ONLY, LIVE
<1>t. TypeOK /\ PhaseInv /\ AccountInv
  BY Zenon DEF IndInv
<1>0. CASE ~sealed /\ UNCHANGED accountVars
  <2>1. \A o \in Owners : ~accounted[o]
    BY Zenon, <1>t, <1>0 DEF AccountInv
  <2>2. AccountedShares' = AccountedShares /\ Accounted01' = Accounted01
    BY Zenon, <1>0, <2>1 DEF AccountedShares, Accounted01
  <2> QED BY Zenon, <1>t, <1>0, <2>1, <2>2 DEF AccountInv, Sum
<1>1. ASSUME NEW t \in OfferedTerms, OpenFunding(t) PROVE AccountInv'
  BY Zenon, <1>t, <1>0, <1>1 DEF OpenFunding, PhaseInv
<1>2. ASSUME NEW o \in Owners, NEW a \in Amounts, NEW q, Commit(o, a, q) PROVE AccountInv'
  BY Zenon, <1>t, <1>0, <1>2 DEF Commit, FundingOpen, PhaseInv
<1>3. CASE UNCHANGED <<accountVars, termVars, fundVars>> /\ (sealed => sealed')
  <2>1. AccountedShares' = AccountedShares /\ Accounted01' = Accounted01
    BY Zenon, <1>3 DEF AccountedShares, Accounted01
  <2> QED BY Zenon, <1>t, <1>3, <2>1 DEF AccountInv, Sum
<1>4. ASSUME NEW o \in Owners, AccountV2(o) PROVE AccountInv'
  <2>0. /\ sealed /\ ~accounted[o] /\ committed[o] # 0 /\ committed[o] \in Nat
        /\ AcceptedOf(o) = Accepted(committed[o], total, hard) /\ AcceptedOf(o) \in Nat
        /\ UNCHANGED <<sealed, committed, total, hard>>
        /\ accountedCount' = accountedCount + 1
        /\ accountedAccepted' = accountedAccepted + AcceptedOf(o)
    BY Zenon, <1>t, <1>4, Computed DEF AccountV2, Accountable, Fresh, TypeOK
  <2>1. accounted'[o] /\ \A x \in Owners \ {o} : accounted'[x] = accounted[x]
    BY Zenon, <1>t, <1>4 DEF AccountV2, TypeOK
  <2>2. Sum(Accounted01') = Sum(Accounted01) + 1
    <3>1. /\ Accounted01 \in [Owners -> Nat] /\ Accounted01' \in [Owners -> Nat]
          /\ Accounted01[o] = 0 /\ Accounted01'[o] = 1
          /\ \A x \in Owners \ {o} : Accounted01'[x] = Accounted01[x]
      BY Zenon, <2>0, <2>1 DEF Accounted01
    <3>2. Sum(Accounted01') = Sum(Accounted01) - Accounted01[o] + Accounted01'[o]
          /\ Sum(Accounted01) \in Nat
      BY Zenon, <3>1, OwnersSum
    <3> QED BY <3>1, <3>2
  <2>3. Sum(AccountedShares') = Sum(AccountedShares) + AcceptedOf(o)
    <3>1. /\ AccountedShares \in [Owners -> Nat] /\ AccountedShares' \in [Owners -> Nat]
          /\ AccountedShares[o] = 0 /\ AccountedShares'[o] = AcceptedOf(o)
          /\ \A x \in Owners \ {o} : AccountedShares'[x] = AccountedShares[x]
      BY Zenon, <2>0, <2>1, ShareBounds DEF AccountedShares, IndInv
    <3>2. Sum(AccountedShares') = Sum(AccountedShares) - AccountedShares[o] + AccountedShares'[o]
          /\ Sum(AccountedShares) \in Nat
      BY Zenon, <3>1, OwnersSum
    <3> QED BY <2>0, <3>1, <3>2
  <2>4. \A x \in Owners : accounted'[x] => sealed' /\ committed'[x] > 0
    BY <1>t, <2>0, <2>1 DEF AccountInv
  <2> QED BY Zenon, <1>t, <2>0, <2>2, <2>3, <2>4 DEF AccountInv, Sum
<1>5. ASSUME CloseV2 PROVE AccountInv'
  BY Zenon, <1>3, <1>5 DEF CloseV2, SealTotals
<1>6. ASSUME NEW o \in Owners, RefundV2(o) PROVE AccountInv'
  BY Zenon, <1>3, <1>6 DEF RefundV2, SealTotals
<1>7. ASSUME LaunchFundingFirst PROVE AccountInv'
  BY Zenon, <1>3, <1>7 DEF LaunchFundingFirst, SealTotals
<1>8. CASE UNCHANGED <<accountVars, termVars, fundVars, sealVars>>
  BY Zenon, <1>3, <1>8
<1> QED
  BY Zenon, <1>1, <1>2, <1>4, <1>5, <1>6, <1>7, <1>8
  DEF Next, ReturnCollateralV2, ClaimV2, ClaimDev, ReturnSetup, Donate, FundSetup, Tick, vars

\* The collateral goes back whole after a failure, less the dust of all
\* receipts in a live round, and only then.
LEMMA CollateralStep ==
  ASSUME IndInv, [Next]_vars
  PROVE  CollateralInv'
<1> USE DEF termVars, fundVars, refundVars, sealVars, accountVars, claimVars, launchVars,
            ABSENT, FUNDING, CLOSED, REFUND_ONLY, LIVE
<1>t. TypeOK /\ PhaseInv /\ CollateralInv
  BY Zenon DEF IndInv
<1>1. ASSUME NEW t \in OfferedTerms, OpenFunding(t) PROVE CollateralInv'
  BY Zenon, <1>t, <1>1 DEF OpenFunding, CollateralInv
<1>2. CASE UNCHANGED <<phase, collateralReturned, sealVars, accountVars>>
  BY Zenon, <1>t, <1>2 DEF CollateralInv, Dust
<1>3. ASSUME CloseV2 PROVE CollateralInv'
  BY Zenon, <1>t, <1>2, <1>3 DEF CloseV2, Failed, LaunchFailed, CollateralInv, TypeOK, Phases
<1>4. ASSUME NEW o \in Owners, RefundV2(o) PROVE CollateralInv'
  <2>1. phase = LIVE => ~Failed
    BY Zenon, LiveNotFailed
  <2> QED BY Zenon, <1>t, <1>2, <1>4, <2>1 DEF RefundV2, CollateralInv, TypeOK, Phases
<1>5. ASSUME NEW o \in Owners, AccountV2(o) PROVE CollateralInv'
  BY <1>t, <1>5 DEF AccountV2, CollateralInv, TypeOK
<1>6. ASSUME ReturnCollateralV2 PROVE CollateralInv'
  BY Zenon, <1>t, <1>6 DEF ReturnCollateralV2, CollateralDue, CollateralInv, Dust
<1>7. ASSUME LaunchFundingFirst PROVE CollateralInv'
  BY Zenon, <1>t, <1>7 DEF LaunchFundingFirst, ReadyV2, InLaunchWindow, CollateralInv
<1> QED
  BY Zenon, <1>1, <1>2, <1>3, <1>4, <1>5, <1>6, <1>7
  DEF Next, Commit, ClaimV2, ClaimDev, ReturnSetup, Donate, FundSetup, Tick, vars

\* Custody follows the claims: what claim_v2 paid is each claimed receipt's
\* allocation, what claim_dev paid never exceeds the vested entitlement.
LEMMA ClaimStep ==
  ASSUME IndInv, [Next]_vars
  PROVE  ClaimInv'
<1> USE DEF termVars, fundVars, refundVars, sealVars, accountVars, claimVars, launchVars,
            ABSENT, FUNDING, CLOSED, REFUND_ONLY, LIVE
<1>t. TypeOK /\ TypeOK' /\ PhaseInv /\ ClaimInv
  BY Zenon, TypeStep DEF IndInv
<1>s. /\ custody \in Nat /\ participantClaimed \in Nat /\ devClaimed \in Nat
      /\ now \in Nat /\ launchTime \in Nat
      /\ claimedTokens \in [Owners -> Nat] /\ claimed \in [Owners -> BOOLEAN]
      /\ Supply - Split.liquidity \in Nat
  BY <1>t, Computed DEF TypeOK
<1>0. ASSUME phase # LIVE, UNCHANGED <<claimVars, custody, devClaimed>>, phase' # LIVE
      PROVE  ClaimInv'
  BY Zenon, <1>t, <1>0 DEF ClaimInv, Sum
<1>1. ASSUME phase = LIVE, UNCHANGED <<phase, sealVars, termVars, fundVars, claimVars, custody,
                                       devClaimed, launchVars, now>>
      PROVE  ClaimInv'
  <2>1. DevEntitledNow' = DevEntitledNow /\ \A o \in Owners : AllocationQ(o)' = AllocationQ(o)
    BY Zenon, <1>1 DEF DevEntitledNow, AllocationQ, AcceptedOf
  <2> QED BY Zenon, <1>t, <1>1, <2>1 DEF ClaimInv, Sum
<1>2. ASSUME NEW t \in OfferedTerms, OpenFunding(t) PROVE ClaimInv'
  BY Zenon, <1>0, <1>2 DEF OpenFunding
<1>3. ASSUME NEW o \in Owners, NEW a \in Amounts, NEW q, Commit(o, a, q) PROVE ClaimInv'
  BY Zenon, <1>0, <1>3 DEF Commit, FundingOpen
<1>4. ASSUME CloseV2 PROVE ClaimInv'
  BY Zenon, <1>0, <1>1, <1>4 DEF CloseV2
<1>5. ASSUME NEW o \in Owners, RefundV2(o) PROVE ClaimInv'
  <2>1. phase = LIVE => ~Failed
    BY Zenon, LiveNotFailed
  <2> QED BY Zenon, <1>0, <1>1, <1>5, <2>1 DEF RefundV2
<1>6. ASSUME LaunchFundingFirst PROVE ClaimInv'
  <2>1. phase # LIVE /\ phase' = LIVE /\ launchTime' = now /\ now' = now /\ devClaimed = 0
        /\ custody' = Supply - Split.liquidity /\ UNCHANGED <<claimVars, devClaimed>>
    BY Zenon, <1>t, <1>6 DEF LaunchFundingFirst, ReadyV2, InLaunchWindow, ClaimInv
  <2>2. \A o \in Owners : ~claimed[o] /\ claimedTokens[o] = 0
    BY Zenon, <1>t, <2>1 DEF ClaimInv
  <2>3. participantClaimed = 0
    BY Zenon, <1>t, <2>2, ZeroSum DEF ClaimInv
  <2>4. 0 <= DevEntitledNow'
    <3> DEFINE end == now + VestingSpan
    <3>1. end \in Nat /\ now < end /\ now <= now
      BY <1>s, ConstantTypes
    <3>2. DevEntitledNow' = DevEntitled(Supply, VESTING_STANDARD_V3, now, end, now)
      BY Zenon, <2>1 DEF DevEntitledNow
    <3> HIDE DEF end
    <3>3. DevEntitled(Supply, VESTING_STANDARD_V3, now, end, now) \in Nat
      BY <1>s, <3>1, ConstantTypes, DevEntitledBounds
    <3> QED BY <3>2, <3>3
  <2> QED BY <1>t, <1>s, <2>1, <2>2, <2>3, <2>4 DEF ClaimInv, Sum
<1>7. ASSUME NEW o \in Owners, ClaimV2(o) PROVE ClaimInv'
  <2>1. /\ phase = LIVE /\ ~claimed[o] /\ AllocationQ(o) \in Nat
        /\ UNCHANGED <<phase, now, termVars, fundVars, sealVars, launchVars, devClaimed>>
        /\ custody' = custody - AllocationQ(o)
        /\ participantClaimed' = participantClaimed + AllocationQ(o)
    BY Zenon, <1>7, Computed DEF ClaimV2, ClaimOK
  <2>2. /\ claimed'[o] /\ claimedTokens'[o] = AllocationQ(o)
        /\ \A x \in Owners \ {o} : claimed'[x] = claimed[x] /\ claimedTokens'[x] = claimedTokens[x]
        /\ claimedTokens' \in [Owners -> Nat]
    BY Zenon, <1>s, <1>7, <2>1 DEF ClaimV2
  <2>3. DevEntitledNow' = DevEntitledNow /\ \A x \in Owners : AllocationQ(x)' = AllocationQ(x)
    BY Zenon, <2>1 DEF DevEntitledNow, AllocationQ, AcceptedOf
  <2>4. claimedTokens[o] = 0
    BY Zenon, <1>t, <2>1 DEF ClaimInv
  <2>5. Sum(claimedTokens') = Sum(claimedTokens) + AllocationQ(o)
    <3>1. Sum(claimedTokens') = Sum(claimedTokens) - claimedTokens[o] + claimedTokens'[o]
          /\ Sum(claimedTokens) \in Nat
      BY Zenon, <1>s, <2>2, OwnersSum
    <3> QED BY <2>1, <2>2, <2>4, <3>1
  <2>6. \A x \in Owners : claimedTokens'[x] = IF claimed'[x] THEN AllocationQ(x)' ELSE 0
    BY Zenon, <1>t, <2>2, <2>3 DEF ClaimInv
  <2>7. participantClaimed' = Sum(claimedTokens')
    BY Zenon, <1>t, <2>1, <2>5 DEF ClaimInv
  <2>8. custody' + participantClaimed' + devClaimed' = Supply - Split.liquidity
        /\ devClaimed' <= DevEntitledNow'
    BY <1>t, <1>s, <2>1, <2>3 DEF ClaimInv
  <2> QED BY Zenon, <2>1, <2>6, <2>7, <2>8 DEF ClaimInv, Sum, Split
<1>8. ASSUME ClaimDev PROVE ClaimInv'
  <2>1. /\ phase = LIVE /\ phase' = LIVE /\ DevEntitledNow' = DevEntitledNow
        /\ DevEntitledNow \in Nat /\ devClaimed' = DevEntitledNow
        /\ custody' = custody - (DevEntitledNow - devClaimed)
        /\ UNCHANGED claimVars
        /\ \A o \in Owners : AllocationQ(o)' = AllocationQ(o)
    BY Zenon, <1>8, Computed DEF ClaimDev, DevClaimOK, DevEntitledNow, AllocationQ, AcceptedOf
  <2> QED BY <1>t, <1>s, <2>1 DEF ClaimInv, Sum
<1>9. ASSUME Tick PROVE ClaimInv'
  <2>1. CASE phase # LIVE
    BY Zenon, <1>0, <1>9, <2>1 DEF Tick
  <2>2. CASE phase = LIVE
    <3>1. /\ phase' = phase /\ UNCHANGED <<custody, devClaimed, claimVars, launchVars>>
          /\ now' = now + 1 /\ launchTime <= now
          /\ \A o \in Owners : AllocationQ(o)' = AllocationQ(o)
      BY Zenon, <1>t, <1>9, <2>2 DEF Tick, PhaseInv, AllocationQ, AcceptedOf
    <3>2. DevEntitledNow <= DevEntitledNow' /\ DevEntitledNow \in Nat /\ DevEntitledNow' \in Nat
      <4> DEFINE end == launchTime + VestingSpan
                 next == now + 1
      <4>1. end \in Nat /\ launchTime < end /\ next \in Nat /\ now <= next
        BY <1>s, ConstantTypes
      <4>2. /\ DevEntitledNow = DevEntitled(Supply, VESTING_STANDARD_V3, launchTime, end, now)
            /\ DevEntitledNow' = DevEntitled(Supply, VESTING_STANDARD_V3, launchTime, end, next)
        BY Zenon, <3>1 DEF DevEntitledNow
      <4> HIDE DEF end, next
      <4> QED BY <1>s, <3>1, <4>1, <4>2, ConstantTypes, DevEntitledBounds
    <3> QED BY <1>t, <1>s, <2>2, <3>1, <3>2 DEF ClaimInv, Sum
  <2> QED BY Zenon, <2>1, <2>2
<1>10. CASE UNCHANGED <<phase, sealVars, termVars, fundVars, claimVars, custody,
                        devClaimed, launchVars, now>>
  BY Zenon, <1>0, <1>1, <1>10
<1> QED
  BY Zenon, <1>2, <1>3, <1>4, <1>5, <1>6, <1>7, <1>8, <1>9, <1>10
  DEF Next, AccountV2, ReturnCollateralV2, ReturnSetup, Donate, FundSetup, vars

-----------------------------------------------------------------------------
\* The invariant holds in every reachable state of every campaign.
THEOREM Inductive == Spec => []IndInv
<1>1. Init => IndInv
  BY Zenon, InitInd
<1>2. IndInv /\ [Next]_vars => IndInv'
  BY Zenon, TypeStep, TermsStep, LedgerStep, PhaseStep, PaidStep, AccountStep, CollateralStep, ClaimStep
  DEF IndInv
<1> QED BY <1>1, <1>2, PTL DEF Spec

-----------------------------------------------------------------------------
(* From the invariant to the properties.                                   *)

\* What the receipts may still take back, added up, is the total less the
\* shares the launch keeps (none after a failure) and the refunds paid.
LEMMA Outstanding ==
  ASSUME IndInv, NEW keep \in [Owners -> Nat], NEW rest,
         \A o \in Owners : /\ keep[o] + paid[o] <= committed[o]
                           /\ rest[o] = committed[o] - keep[o] - paid[o]
  PROVE  /\ \A o \in Owners : rest[o] \in Nat
         /\ Sum(rest) \in Nat /\ Sum(keep) \in Nat
         /\ Sum(rest) = total - Sum(keep) - refunded
<1> DEFINE both == [o \in Owners |-> keep[o] + paid[o]]
<1>1. /\ committed \in [Owners -> Nat] /\ paid \in [Owners -> Nat]
      /\ total = Sum(committed) /\ refunded = Sum(paid)
  BY Zenon DEF IndInv, TypeOK, LedgerInv
<1>2. \A o \in Owners : rest[o] \in Nat /\ both[o] \in Nat /\ committed[o] = rest[o] + both[o]
  BY <1>1
<1>3. \A o \in Owners : keep[o] \in Nat /\ paid[o] \in Nat /\ both[o] = keep[o] + paid[o]
  BY Zenon, <1>1
<1> HIDE DEF both
<1>4. Sum(committed) = Sum(rest) + Sum(both)
  BY <1>2, OwnersSum, SumPlus DEF Sum
<1>5. Sum(both) = Sum(keep) + Sum(paid)
  BY <1>3, OwnersSum, SumPlus DEF Sum
<1>6. Sum(rest) \in Nat /\ Sum(keep) \in Nat /\ Sum(paid) \in Nat
  BY Zenon, <1>2, <1>3, OwnersSum, SumType DEF Sum
<1> QED BY <1>1, <1>2, <1>4, <1>5, <1>6

\* The refunds paid so far leave every kept share in the campaign.
LEMMA KeptShares ==
  ASSUME IndInv, phase # REFUND_ONLY
  PROVE  /\ \A o \in Owners : Shares[o] + paid[o] <= committed[o]
         /\ Sum(Shares) \in Nat /\ refunded <= total - Sum(Shares)
<1> USE DEF ABSENT, FUNDING, CLOSED, REFUND_ONLY, LIVE
<1>1. Shares \in [Owners -> Nat] /\ \A o \in Owners : Shares[o] <= committed[o] /\ committed[o] \in Nat
  BY Zenon, SharesSum, ShareBounds DEF IndInv, Shares, TypeOK
<1>2. \A o \in Owners : paid[o] \in Nat
  BY Zenon DEF IndInv, TypeOK
<1>3. \A o \in Owners : Shares[o] + paid[o] <= committed[o]
  <2>1. CASE phase \in {CLOSED, LIVE}
    <3>1. \A o \in Owners : paid[o] + Shares[o] <= committed[o]
      BY Zenon, <2>1 DEF IndInv, PaidInv, Shares
    <3> QED BY <1>1, <1>2, <3>1
  <2>2. CASE phase \in {ABSENT, FUNDING}
    BY <1>1, <1>2, <2>2 DEF IndInv, PhaseInv, Zero
  <2> QED BY Zenon, <2>1, <2>2 DEF IndInv, TypeOK, Phases
<1> DEFINE rest == [o \in Owners |-> committed[o] - Shares[o] - paid[o]]
<1>4. \A o \in Owners : rest[o] = committed[o] - Shares[o] - paid[o]
  OBVIOUS
<1> HIDE DEF rest
<1>5. Sum(rest) \in Nat /\ Sum(Shares) \in Nat /\ Sum(rest) = total - Sum(Shares) - refunded
  BY Zenon, <1>1, <1>3, <1>4, Outstanding
<1> QED BY <1>3, <1>5 DEF IndInv, TypeOK

\* Accounted shares never exceed all shares; accounting every receipt counts all.
LEMMA AllAccounted ==
  ASSUME IndInv
  PROVE  /\ accountedAccepted <= Sum(Shares)
         /\ accountedCount = receiptCount => accountedAccepted = Sum(Shares)
<1>1. \A o \in Owners : /\ AccountedShares[o] \in Nat /\ Shares[o] \in Nat
                        /\ AccountedShares[o] <= Shares[o]
  <2>1. \A o \in Owners : Shares[o] \in Nat
    BY Zenon, ShareBounds DEF IndInv, Shares
  <2>2. \A o \in Owners : AccountedShares[o] = IF accounted[o] THEN Shares[o] ELSE 0
    BY Zenon DEF AccountedShares, Shares
  <2> QED BY <2>1, <2>2
<1>2. accountedAccepted = Sum(AccountedShares) /\ accountedCount = Sum(Accounted01)
      /\ receiptCount = Sum(HasReceipt)
  BY Zenon DEF IndInv, AccountInv, LedgerInv
<1>3. Sum(AccountedShares) <= Sum(Shares)
  BY Zenon, <1>1, OwnersSum, SumLeq DEF Sum
<1>4. ASSUME accountedCount = receiptCount PROVE accountedAccepted = Sum(Shares)
  <2>1. \A o \in Owners : /\ Accounted01[o] \in Nat /\ HasReceipt[o] \in Nat
                          /\ Accounted01[o] <= HasReceipt[o]
    <3>1. \A o \in Owners : accounted[o] => committed[o] > 0
      BY Zenon DEF IndInv, AccountInv
    <3> QED BY <3>1 DEF Accounted01, HasReceipt
  <2>2. \A o \in Owners : Accounted01[o] = HasReceipt[o]
    <3>1. SumFunctionOnSet(Accounted01, Owners) = SumFunctionOnSet(HasReceipt, Owners)
      BY Zenon, <1>2, <1>4 DEF Sum
    <3> QED BY <2>1, <3>1, OwnersSum, SumLeq
  <2>3. \A o \in Owners : AccountedShares[o] = Shares[o]
    <3> TAKE o \in Owners
    <3>1. CASE accounted[o]
      BY Zenon, <3>1 DEF AccountedShares, Shares
    <3>2. CASE ~accounted[o]
      <4>1. committed[o] = 0
        BY <2>2, <3>2 DEF Accounted01, HasReceipt, IndInv, TypeOK
      <4>2. Shares[o] \in Nat /\ Shares[o] <= committed[o]
        BY Zenon, ShareBounds DEF IndInv, Shares
      <4> QED BY <3>2, <4>1, <4>2 DEF AccountedShares
    <3> QED BY Zenon, <3>1, <3>2
  <2> QED BY Zenon, <1>1, <1>2, <2>3, OwnersSum, SumSame DEF Sum
<1> QED BY Zenon, <1>2, <1>3, <1>4

\* The balances and totals the solvency lemmas compute with are integers.
LEMMA BalanceTypes ==
  ASSUME IndInv
  PROVE  /\ lamports \in Nat /\ total \in Nat /\ refunded \in Nat /\ pool \in Nat
         /\ donated \in Nat /\ collateralReturned \in Nat /\ receiptCount \in Nat
         /\ soft \in Nat /\ hard \in Nat /\ accountedAccepted \in Nat
         /\ Least(total, hard) \in Nat /\ COLLATERAL_V2 \in Nat /\ receiptCount <= COLLATERAL_V2
         /\ Exists => lamports + refunded + pool + collateralReturned
                        = total + donated + COLLATERAL_V2
BY Zenon, ConstantTypes, Computed DEF IndInv, TypeOK, LedgerInv

\* Under IndInv the lamports cover every refund that refund_v2 still owes.
LEMMA RefundsCoveredInd == ASSUME IndInv PROVE RefundsCovered
<1> USE DEF ABSENT, FUNDING, CLOSED, REFUND_ONLY, LIVE
<1> SUFFICES ASSUME AfterDeadline
             PROVE  /\ \A o \in Owners : paid[o] <= Entitled(o)
                    /\ Sum([o \in Owners |-> Entitled(o) - paid[o]]) <= lamports
  BY Zenon DEF RefundsCovered
<1> DEFINE rest == [o \in Owners |-> Entitled(o) - paid[o]]
<1>b. lamports + refunded + pool + collateralReturned = total + donated + COLLATERAL_V2
  BY Zenon, BalanceTypes DEF AfterDeadline
<1>t. \A o \in Owners : committed[o] \in Nat /\ paid[o] \in Nat
  BY Zenon DEF IndInv, TypeOK
<1>1. CASE Failed
  <2>1. \A o \in Owners : Entitled(o) = committed[o]
    BY Zenon, <1>1 DEF Entitled, Refundable
  <2>2. \A o \in Owners : Zero[o] + paid[o] <= committed[o] /\ Zero[o] = 0
    BY <1>t DEF IndInv, PaidInv, Zero
  <2>3. \A o \in Owners : rest[o] = committed[o] - Zero[o] - paid[o]
    BY <1>t, <2>1 DEF Zero
  <2>4. Zero \in [Owners -> Nat] /\ Sum(Zero) = 0
    BY Zenon, ZeroSum DEF Zero
  <2> HIDE DEF rest
  <2>5. Sum(rest) = total - Sum(Zero) - refunded
    BY Zenon, <2>2, <2>3, <2>4, Outstanding
  <2>6. pool = 0 /\ collateralReturned <= COLLATERAL_V2
    <3>1. /\ pool = 0 /\ collateralReturned \in {0, COLLATERAL_V2}
      BY Zenon, <1>1, LiveNotFailed DEF IndInv, PhaseInv, CollateralInv, TypeOK, Phases
    <3> QED BY <3>1, ConstantTypes
  <2>7. Sum(rest) <= lamports
    BY <1>b, <2>4, <2>5, <2>6, BalanceTypes
  <2> QED BY <1>t, <2>1, <2>2, <2>7 DEF rest
<1>2. CASE ~Failed
  <2>0. phase # REFUND_ONLY
    BY Zenon, <1>2 DEF Failed, LaunchFailed
  <2>1. \A o \in Owners : Entitled(o) = committed[o] - Shares[o]
    BY Zenon, <1>2 DEF Entitled, Refundable, Shares
  <2>2. /\ Shares \in [Owners -> Nat] /\ Sum(Shares) \in Nat
        /\ \A o \in Owners : Shares[o] + paid[o] <= committed[o]
    BY Zenon, <2>0, KeptShares, SharesSum DEF IndInv
  <2>3. \A o \in Owners : rest[o] = committed[o] - Shares[o] - paid[o]
    BY Zenon, <2>1
  <2> HIDE DEF rest
  <2>4. Sum(rest) = total - Sum(Shares) - refunded /\ Sum(rest) \in Nat
    BY Zenon, <2>2, <2>3, Outstanding
  <2>5. pool + collateralReturned <= Sum(Shares) + COLLATERAL_V2
    <3>1. CASE phase = LIVE
      <4>1. pool = Least(total, hard) /\ acceptedTarget = Least(total, hard)
        BY Zenon, <3>1 DEF IndInv, PhaseInv
      <4>2. CASE collateralReturned = 0
        <5>1. /\ Least(total, hard) <= Sum(Shares) + receiptCount
              /\ receiptCount \in Nat /\ COLLATERAL_V2 \in Nat /\ receiptCount <= COLLATERAL_V2
              /\ Least(total, hard) \in Nat
          BY Zenon, SharesSum, BalanceTypes DEF IndInv
        <5> QED BY <2>2, <4>1, <4>2, <5>1
      <4>3. CASE collateralReturned # 0
        <5>1. collateralReturned = COLLATERAL_V2 - (Least(total, hard) - accountedAccepted)
          BY Zenon, <3>1, <4>1, <4>3 DEF IndInv, CollateralInv, Dust
        <5>2. /\ accountedAccepted <= Sum(Shares) /\ accountedAccepted \in Nat
              /\ Least(total, hard) \in Nat /\ COLLATERAL_V2 \in Nat
          BY Zenon, AllAccounted, BalanceTypes
        <5> QED BY <2>2, <4>1, <5>1, <5>2
      <4> QED BY Zenon, <4>2, <4>3
    <3>2. CASE phase # LIVE
      <4>1. pool = 0 /\ collateralReturned = 0
        BY Zenon, <2>0, <3>2 DEF IndInv, PhaseInv, CollateralInv, TypeOK, Phases
      <4> QED BY <2>2, <4>1, BalanceTypes
    <3> QED BY Zenon, <3>1, <3>2
  <2>6. Sum(rest) <= lamports
    <3>1. /\ lamports \in Nat /\ total \in Nat /\ refunded \in Nat /\ pool \in Nat
          /\ donated \in Nat /\ collateralReturned \in Nat /\ COLLATERAL_V2 \in Nat
      BY Zenon, BalanceTypes
    <3> QED BY <1>b, <2>2, <2>4, <2>5, <3>1
  <2>7. \A o \in Owners : paid[o] <= Entitled(o)
    BY <1>t, <2>1, <2>2
  <2> QED BY Zenon, <2>6, <2>7 DEF rest
<1> QED BY Zenon, <1>1, <1>2

\* Under IndInv a ready campaign passes the funds checks of the launch (launch_body).
LEMMA LaunchNeverShortInd == ASSUME IndInv PROVE LaunchNeverShort
<1> USE DEF ABSENT, FUNDING, CLOSED, REFUND_ONLY, LIVE
<1> SUFFICES ASSUME ReadyV2 PROVE LaunchFundsOK
  BY Zenon DEF LaunchNeverShort
<1>1. phase \in {FUNDING, CLOSED} /\ Exists
  BY Zenon DEF ReadyV2, InLaunchWindow, Exists
<1>2. pool = 0 /\ collateralReturned = 0
  BY Zenon, <1>1 DEF IndInv, PhaseInv, CollateralInv
<1>3. refunded <= total - Sum(Shares) /\ Sum(Shares) \in Nat
  BY Zenon, <1>1, KeptShares
<1>4. Least(total, hard) <= Sum(Shares) + receiptCount
  BY Zenon, SharesSum DEF IndInv
<1> QED BY <1>1, <1>2, <1>3, <1>4, BalanceTypes, ConstantTypes DEF LaunchFundsOK, LiabilityV2

\* Each share loses less than a lamport, which the margin between the caps absorbs.
LEMMA RoundingMarginInd == ASSUME IndInv PROVE RoundingMargin
<1> SUFFICES ASSUME Exists, total >= soft PROVE Sum(Shares) >= soft
  BY Zenon DEF RoundingMargin
<1>1. /\ Sum(Shares) \in Nat /\ Least(total, hard) <= Sum(Shares) + receiptCount
      /\ total <= hard => Sum(Shares) = total
  BY Zenon, SharesSum DEF IndInv
<1>2. hard >= soft + MAX_RECEIPTS_V2
  <2>1. hard >= LeastHardCap(soft) /\ soft >= 100 * MAX_RECEIPTS_V2 /\ MAX_RECEIPTS_V2 \in Nat
    BY Zenon, FundingFirstConstants DEF IndInv, TermsInv, CapsValid
  <2>2. LeastHardCap(soft) >= soft + MAX_RECEIPTS_V2 /\ LeastHardCap(soft) \in Int
    BY <2>1, MarginBound, BalanceTypes DEF LeastHardCap, CeilDiv
  <2> QED BY <2>1, <2>2, BalanceTypes
<1> QED BY <1>1, <1>2, BalanceTypes, ConstantTypes DEF Least

\* Under IndInv return_collateral_v2 finds a positive amount that the balance covers.
LEMMA CollateralReturnableInd == ASSUME IndInv PROVE CollateralReturnable
<1> USE DEF ABSENT, FUNDING, CLOSED, REFUND_ONLY, LIVE
<1>1. ASSUME collateralReturned = 0, phase = REFUND_ONLY
      PROVE  /\ CollateralDue > 0 /\ total >= refunded
             /\ lamports - CollateralDue >= CollateralFloor
  <2>1. \A o \in Owners : paid[o] \in Nat /\ committed[o] \in Nat /\ paid[o] <= committed[o]
    BY Zenon DEF IndInv, TypeOK, PaidInv
  <2>2. Sum(paid) <= Sum(committed)
    BY Zenon, <2>1, OwnersSum, SumLeq DEF Sum
  <2>3. total >= refunded /\ pool = 0 /\ Exists
    BY Zenon, <1>1, <2>2 DEF IndInv, LedgerInv, PhaseInv, Exists
  <2> QED BY <1>1, <2>3, BalanceTypes, ConstantTypes DEF CollateralDue, CollateralFloor
<1>2. ASSUME collateralReturned = 0, phase = LIVE, accountedCount = sealedReceipts
      PROVE  /\ CollateralDue > 0 /\ Dust >= 0
             /\ lamports - CollateralDue >= CollateralFloor
  <2>1. /\ acceptedTarget = Least(total, hard) /\ sealedReceipts = receiptCount
        /\ pool = Least(total, hard) /\ total >= soft /\ soft > 0 /\ Exists
    BY Zenon, <1>2 DEF IndInv, PhaseInv, TermsInv, CapsValid, Exists
  <2>2. accountedAccepted = Sum(Shares)
    BY Zenon, <1>2, <2>1, AllAccounted
  <2>3. refunded <= total - Sum(Shares) /\ Sum(Shares) \in Nat
    BY Zenon, <1>2, KeptShares
  <2>4. Sum(Shares) <= Least(total, hard) /\ Least(total, hard) < Sum(Shares) + receiptCount
    BY <2>1, SharesSum, BalanceTypes DEF IndInv
  <2> QED BY <1>2, <2>1, <2>2, <2>3, <2>4, BalanceTypes DEF CollateralDue, CollateralFloor, Dust
<1> QED BY Zenon, <1>1, <1>2 DEF CollateralReturnable

\* The allocations of all receipts fit the participants' reserve.
LEMMA AllocationsFit ==
  ASSUME IndInv, phase = LIVE
  PROVE  /\ sealed /\ acceptedTarget \in Nat \ {0}
         /\ \A o \in Owners : /\ AllocationQ(o) \in Nat /\ AcceptedOf(o) \in Nat
                              /\ AcceptedOf(o) <= acceptedTarget
         /\ \A q \in [Owners -> Nat] : (\A o \in Owners : q[o] = AllocationQ(o))
                                         => Sum(q) <= Split.participants
<1>1. /\ sealed /\ acceptedTarget = Least(total, hard) /\ total >= soft
      /\ soft > 0 /\ hard >= LeastHardCap(soft)
  BY Zenon DEF IndInv, PhaseInv, TermsInv, CapsValid, Exists, LIVE, ABSENT
<1>2. acceptedTarget \in Nat \ {0}
  <2>1. LeastHardCap(soft) >= soft + 0 /\ LeastHardCap(soft) \in Int
    BY <1>1, MarginBound, BalanceTypes DEF LeastHardCap, CeilDiv
  <2> QED BY <1>1, <2>1, BalanceTypes DEF Least
<1>3. \A o \in Owners : /\ AllocationQ(o) \in Nat /\ AcceptedOf(o) = Shares[o]
                        /\ Shares[o] \in Nat /\ Shares[o] <= acceptedTarget
  BY Zenon, <1>1, <1>2, Computed, ShareBounds DEF IndInv, Shares
<1>4. Sum(Shares) \in Nat /\ Sum(Shares) <= acceptedTarget
  BY Zenon, <1>1, SharesSum DEF IndInv
<1>p. Split.participants \in Nat
  BY Zenon, Computed
<1>5. ASSUME NEW q \in [Owners -> Nat], \A o \in Owners : q[o] = AllocationQ(o)
      PROVE  Sum(q) <= Split.participants
  <2> DEFINE P == Split.participants
             one == [o \in Owners |-> 1]
  <2>1. \A o \in Owners : /\ Shares[o] \in Nat /\ q[o] \in Nat /\ one[o] \in Nat
                          /\ q[o] * acceptedTarget <= Shares[o] * P
                          /\ Shares[o] * P <= q[o] * acceptedTarget + one[o] * acceptedTarget
    <3> TAKE o \in Owners
    <3> DEFINE n == P * Shares[o]
    <3>1. Shares[o] \in Nat /\ q[o] \in Nat /\ one[o] = 1
      BY Zenon, <1>3
    <3>2. n \in Nat /\ n = Shares[o] * P
      BY <1>p, <3>1, MulNat
    <3>3. q[o] = n \div acceptedTarget
      BY Zenon, <1>3, <1>5 DEF AllocationQ
    <3> HIDE DEF n
    <3>4. q[o] * acceptedTarget <= n /\ n <= q[o] * acceptedTarget + (acceptedTarget - 1)
      BY <1>2, <3>2, <3>3, DivBounds, Zenon
    <3>5. q[o] * acceptedTarget \in Nat
      BY Zenon, <1>2, <3>1, MulNat
    <3>6. one[o] * acceptedTarget = acceptedTarget
      BY <1>2, <3>1
    <3> HIDE DEF one, P
    <3> QED BY <1>2, <3>1, <3>2, <3>4, <3>5, <3>6
  <2> HIDE DEF one
  <2>2. Sum(q) * acceptedTarget <= Sum(Shares) * P
    BY Zenon, <1>2, <1>p, <2>1, OwnersSum, SumFloor DEF Sum
  <2>3. Sum(q) \in Nat
    BY Zenon, OwnersSum
  <2> HIDE DEF P
  <2>p. P \in Nat
    BY Zenon, <1>p DEF P
  <2>4. Sum(Shares) * P <= acceptedTarget * P
    BY <1>2, <1>4, <2>p
  <2>5. Sum(q) * acceptedTarget <= P * acceptedTarget
    BY <1>2, <1>4, <2>p, <2>2, <2>3, <2>4
  <2>6. Sum(q) <= P
    BY Zenon, <1>2, <2>3, <2>p, <2>5, MulCancel
  <2> QED BY Zenon, <2>6 DEF P
<1> QED BY Zenon, <1>1, <1>2, <1>3, <1>5

\* Under IndInv the token reserve and custody cover every open claim (claim_v2, claim_dev).
LEMMA ClaimsCoveredInd == ASSUME IndInv PROVE ClaimsCovered
<1> USE DEF ABSENT, FUNDING, CLOSED, REFUND_ONLY, LIVE
<1> SUFFICES ASSUME phase = LIVE
             PROVE  /\ \A o \in Owners : ~Fresh(o) /\ ~claimed[o] => ClaimOK(o)
                    /\ DevClaimOK
                    /\ Sum([o \in Owners |-> IF claimed[o] THEN 0 ELSE AllocationQ(o)])
                         + (Split.dev - devClaimed) <= custody
  BY Zenon DEF ClaimsCovered
<1> DEFINE q == [o \in Owners |-> AllocationQ(o)]
           open == [o \in Owners |-> IF claimed[o] THEN 0 ELSE AllocationQ(o)]
<1>1. /\ acceptedTarget \in Nat \ {0}
      /\ \A o \in Owners : /\ AllocationQ(o) \in Nat /\ AcceptedOf(o) <= acceptedTarget
  BY Zenon, AllocationsFit
<1>2. q \in [Owners -> Nat] /\ open \in [Owners -> Nat] /\ \A o \in Owners : q[o] = AllocationQ(o)
  BY Zenon, <1>1
<1>3. \A o \in Owners : /\ claimedTokens[o] \in Nat /\ open[o] \in Nat
                        /\ q[o] = claimedTokens[o] + open[o]
                        /\ ~claimed[o] => open[o] = AllocationQ(o)
  <2>1. \A o \in Owners : claimedTokens[o] = IF claimed[o] THEN AllocationQ(o) ELSE 0
    BY Zenon DEF IndInv, ClaimInv
  <2> QED BY <1>1, <2>1
<1> HIDE DEF q
<1>4. Sum(q) <= Split.participants
  BY Zenon, <1>2, AllocationsFit
<1> HIDE DEF open
<1>5. Sum(q) = Sum(claimedTokens) + Sum(open) /\ Sum(open) \in Nat
  BY <1>2, <1>3, OwnersSum, SumPlus DEF Sum
<1>6. /\ participantClaimed = Sum(claimedTokens) /\ participantClaimed \in Nat
      /\ custody \in Nat /\ devClaimed \in Nat
      /\ custody + participantClaimed + devClaimed = Supply - Split.liquidity
      /\ devClaimed <= DevEntitledNow
      /\ launchTime > 0 /\ now >= launchTime
  <2>1. /\ 0 < opensAt /\ opensAt < deadline /\ deadline <= launchTime /\ launchTime <= now
        /\ opensAt \in Nat /\ deadline \in Nat /\ launchTime \in Nat /\ now \in Nat
    <3>1. Exists
      BY DEF Exists, ABSENT, LIVE
    <3> QED BY Zenon, <3>1 DEF IndInv, PhaseInv, TermsInv, TypeOK
  <2>2. launchTime > 0 /\ now >= launchTime
    BY <2>1
  <2> QED BY Zenon, <2>2 DEF IndInv, ClaimInv, TypeOK
<1>7. /\ Split.participants \in Nat /\ Split.dev \in Nat /\ DevEntitledNow \in Nat
      /\ DevEntitledNow <= Split.dev
      /\ Split.participants + Split.dev = Supply - Split.liquidity
  BY Zenon, <1>6, Computed
<1>8. participantClaimed + Sum(open) <= Split.participants
  BY Zenon, <1>4, <1>5, <1>6
<1>9. Sum(open) + (Split.dev - devClaimed) <= custody
  BY <1>5, <1>6, <1>7, <1>8
<1>10. DevClaimOK
  BY <1>5, <1>6, <1>7, <1>9 DEF DevClaimOK
<1>11. ASSUME NEW o \in Owners, ~claimed[o] PROVE ClaimOK(o)
  <2>1. AllocationQ(o) <= Sum(open) /\ AllocationQ(o) \in Nat
    BY Zenon, <1>1, <1>2, <1>3, <1>11, OwnersSum
  <2> QED BY <1>1, <1>5, <1>6, <1>7, <1>8, <1>9, <2>1 DEF ClaimOK
<1> QED BY Zenon, <1>9, <1>10, <1>11 DEF open

\* Sealing again changes nothing.
LEMMA SealOnce ==
  ASSUME IndInv, SealTotals, sealed
  PROVE  UNCHANGED sealVars
<1>1. sealed' = TRUE /\ sealed \in BOOLEAN
  BY Zenon DEF SealTotals, IndInv, TypeOK
<1>2. sealed' = sealed
  BY Zenon, <1>1
<1>3. UNCHANGED <<sealedReceipts, sealedTotal, acceptedTarget>>
  BY Zenon DEF SealTotals
<1> QED BY Zenon, <1>2, <1>3 DEF sealVars

\* No step undoes a decision, a sealed total or a payment (DecisionsAreFinal).
LEMMA DecidedStep ==
  ASSUME IndInv, [Next]_vars
  PROVE  [Decided]_vars
<1> USE DEF termVars, fundVars, refundVars, sealVars, accountVars, claimVars, launchVars,
            ABSENT, FUNDING, CLOSED, REFUND_ONLY, LIVE
<1> SUFFICES ASSUME Next PROVE Decided
  OBVIOUS
<1>t. PhaseInv /\ \A o \in Owners : paid[o] \in Nat
  BY Zenon DEF IndInv, TypeOK
<1>p. \A o \in Owners : paid[o] <= paid[o]
  BY <1>t
<1>0. CASE UNCHANGED <<phase, sealVars, fundVars, paid, claimedTokens>>
  BY Zenon, <1>p, <1>0 DEF Decided
<1>1. ASSUME NEW t \in OfferedTerms, OpenFunding(t) PROVE Decided
  <2>1. phase \notin {LIVE, REFUND_ONLY}
    BY <1>1 DEF OpenFunding
  <2> QED BY Zenon, <1>p, <1>1, <2>1 DEF OpenFunding, Decided
<1>2. ASSUME NEW o \in Owners, NEW a \in Amounts, NEW q, Commit(o, a, q) PROVE Decided
  <2>1. phase = FUNDING /\ UNCHANGED <<phase, paid, claimedTokens>>
    BY Zenon, <1>2 DEF Commit, FundingOpen
  <2>2. ~sealed
    BY Zenon, <1>t, <2>1 DEF PhaseInv
  <2> QED BY Zenon, <1>p, <2>1, <2>2 DEF Decided
<1>3. ASSUME CloseV2 PROVE Decided
  <2>1. sealed => UNCHANGED sealVars
    BY Zenon, <1>3, SealOnce DEF CloseV2
  <2>2. phase \in {LIVE, REFUND_ONLY} => phase' = phase
    BY Zenon, <1>3 DEF CloseV2, Failed, LaunchFailed
  <2>3. UNCHANGED <<total, receiptCount, committed, paid, claimedTokens>>
    BY Zenon, <1>3 DEF CloseV2
  <2> QED BY Zenon, <1>p, <2>1, <2>2, <2>3 DEF Decided
<1>4. ASSUME NEW o \in Owners, RefundV2(o) PROVE Decided
  <2>1. phase = LIVE => ~Failed
    BY Zenon, LiveNotFailed
  <2>2. \A x \in Owners : paid[x] <= paid'[x]
    <3>1. Entitled(o) \in Nat /\ Entitled(o) - paid[o] >= 0
      BY Zenon, <1>4, Computed DEF RefundV2
    <3>2. \A x \in Owners : paid'[x] = IF x = o THEN Entitled(o) ELSE paid[x]
      BY Zenon, <1>4 DEF RefundV2, PaidAfter, IndInv, TypeOK
    <3> QED BY <1>t, <3>1, <3>2
  <2>3. sealed => UNCHANGED sealVars
    BY Zenon, <1>4, SealOnce DEF RefundV2
  <2> QED BY Zenon, <1>4, <2>1, <2>2, <2>3 DEF RefundV2, Failed, LaunchFailed, Decided
<1>5. ASSUME LaunchFundingFirst PROVE Decided
  <2>1. sealed => UNCHANGED sealVars
    BY Zenon, <1>5, SealOnce DEF LaunchFundingFirst
  <2>2. phase \notin {LIVE, REFUND_ONLY}
    BY Zenon, <1>5 DEF LaunchFundingFirst, ReadyV2, InLaunchWindow
  <2>3. UNCHANGED <<total, receiptCount, committed, paid, claimedTokens>>
    BY Zenon, <1>5 DEF LaunchFundingFirst
  <2> QED BY Zenon, <1>p, <2>1, <2>2, <2>3 DEF Decided
<1>6. ASSUME NEW o \in Owners, ClaimV2(o) PROVE Decided
  <2>1. /\ UNCHANGED <<phase, sealVars, total, receiptCount, committed, paid>>
        /\ ~claimed[o] /\ claimedTokens' = [claimedTokens EXCEPT ![o] = AllocationQ(o)]
    BY Zenon, <1>6 DEF ClaimV2
  <2>2. \A x \in Owners : claimed[x] => claimedTokens'[x] = claimedTokens[x]
    BY Zenon, <2>1 DEF IndInv, TypeOK
  <2> QED BY Zenon, <1>p, <2>1, <2>2 DEF Decided
<1> QED
  BY Zenon, <1>0, <1>1, <1>2, <1>3, <1>4, <1>5, <1>6
  DEF Next, AccountV2, ReturnCollateralV2, ClaimDev, ReturnSetup, Donate, FundSetup, Tick

-----------------------------------------------------------------------------
\* Every field keeps its type: the checked arithmetic of the handlers never
\* leaves a negative amount in an account.
THEOREM TypeCorrect == Spec => []TypeOK
BY Inductive, PTL DEF IndInv

\* Totals, refunds and balance of the campaign always agree with its receipts.
THEOREM BooksBalanceAlways == Spec => []BooksBalance
<1>1. IndInv => BooksBalance
  BY Zenon DEF IndInv, LedgerInv, BooksBalance
<1> QED BY <1>1, Inductive, PTL

\* After the deadline the campaign holds what refund_v2 still owes to all
\* receipts together, before and after launch and collateral return.
THEOREM RefundsAlwaysCovered == Spec => []RefundsCovered
BY RefundsCoveredInd, Inductive, PTL

\* launch_funding_first never refuses a ready campaign for lack of funds.
THEOREM LaunchAlwaysFunded == Spec => []LaunchNeverShort
BY LaunchNeverShortInd, Inductive, PTL

\* No commitment is spent twice, on the pool and on its refund.
THEOREM SharesKept == Spec => []LaunchKeepsShares
<1>1. IndInv => LaunchKeepsShares
  <2> SUFFICES ASSUME IndInv, phase = LIVE, NEW o \in Owners
               PROVE  paid[o] + AcceptedOf(o) <= committed[o]
    BY Zenon DEF LaunchKeepsShares
  <2>1. AcceptedOf(o) = Accepted(committed[o], total, hard)
    BY Zenon, Computed DEF IndInv, PhaseInv
  <2> QED BY Zenon, <2>1 DEF IndInv, PaidInv
<1> QED BY <1>1, Inductive, PTL

\* claim_v2 and claim_dev never run out of reserve or custody.
THEOREM ClaimsAlwaysCovered == Spec => []ClaimsCovered
BY ClaimsCoveredInd, Inductive, PTL

\* return_collateral_v2 always finds the collateral it promises.
THEOREM CollateralAlwaysReturnable == Spec => []CollateralReturnable
BY CollateralReturnableInd, Inductive, PTL

\* The margin between the caps absorbs the rounding of all receipts.
THEOREM MarginAbsorbsRounding == Spec => []RoundingMargin
BY RoundingMarginInd, Inductive, PTL

\* Launched and failed campaigns stay so; sealed totals and payments are final.
THEOREM DecisionsFinal == Spec => DecisionsAreFinal
<1>1. IndInv /\ [Next]_vars => [Decided]_vars
  BY Zenon, DecidedStep
<1> QED BY <1>1, Inductive, PTL DEF Spec, DecisionsAreFinal
=============================================================================
