----------------------- MODULE SettledCampaignProofs ------------------------
(***************************************************************************)
(* The properties of SettledCampaign for every set of owners, every split  *)
(* policy and vesting rule, all amounts, terms and bounds: the induction   *)
(* for SettledInv (one lemma for each conjunct, one step in it for each    *)
(* instruction that can disturb it), then the properties, which follow     *)
(* from it with the rounding lemmas.                                       *)
(***************************************************************************)
EXTENDS SettledCampaign, FiniteSetTheorems, TLAPS

\* Time limits of the provers for every leaf.
USE SMTT(30), ZenonT(20)

-----------------------------------------------------------------------------
(* Sums, shares and constants.                                             *)

\* Sums over the receipts: the library lemmas at the set of owners.
LEMMA OwnersSum ==
  /\ IsFiniteSet(Owners)
  /\ \A f \in [Owners -> Nat] : Sum(f) \in Nat
  /\ \A f, g \in [Owners -> Nat], o \in Owners :
       (\A x \in Owners \ {o} : g[x] = f[x]) => Sum(g) = Sum(f) - f[o] + g[o]
  /\ \A f \in [Owners -> Nat], o \in Owners : f[o] <= Sum(f)
  /\ \A f, g \in [Owners -> Nat] :
       (\A o \in Owners : f[o] <= g[o]) =>
         /\ Sum(f) <= Sum(g)
         /\ Sum(f) = Sum(g) => \A o \in Owners : f[o] = g[o]
<1>1. IsFiniteSet(Owners)
  BY Zenon, SettledConstants
<1>2. \A f \in [Owners -> Nat] : Sum(f) \in Nat
  BY Zenon, <1>1, SumType DEF Sum
<1>3. \A f, g \in [Owners -> Nat], o \in Owners :
        (\A x \in Owners \ {o} : g[x] = f[x]) => Sum(g) = Sum(f) - f[o] + g[o]
  BY <1>1, SumUpdate DEF Sum
<1>4. \A f \in [Owners -> Nat], o \in Owners : f[o] <= Sum(f)
  BY Zenon, <1>1, SumMember DEF Sum
<1>5. ASSUME NEW f \in [Owners -> Nat], NEW g \in [Owners -> Nat], \A o \in Owners : f[o] <= g[o]
      PROVE  Sum(f) <= Sum(g) /\ (Sum(f) = Sum(g) => \A o \in Owners : f[o] = g[o])
  <2>1. \A o \in Owners : f[o] \in Nat /\ g[o] \in Nat /\ f[o] <= g[o]
    BY Zenon, <1>5
  <2> QED BY <1>1, <2>1, SumLeq DEF Sum
<1> QED BY Zenon, <1>1, <1>2, <1>3, <1>4, <1>5

\* The sum of the zero function.
LEMMA ZeroSum == \A f : (\A o \in Owners : f[o] = 0) => Sum(f) = 0
BY Zenon, SettledConstants, SumZero DEF Sum

\* The constants as the proofs use them: the split leaves room for the claims.
LEMMA ConstantTypes ==
  /\ Supply \in Nat /\ VestingSpan \in Nat \ {0}
  /\ \A a \in Amounts : a \in Nat
  /\ \A t \in OfferedTerms : /\ t.soft \in Nat /\ t.hard \in Nat /\ t.opensAt \in Nat
                             /\ t.deadline \in Nat /\ t.launchDeadline \in Nat
  /\ Split.participants \in Nat /\ Split.dev \in Nat /\ Split.liquidity \in Nat
  /\ Split.participants + Split.dev <= Supply - Split.liquidity
<1>1. \A t \in OfferedTerms : /\ t.soft \in Nat /\ t.hard \in Nat /\ t.opensAt \in Nat
                              /\ t.deadline \in Nat /\ t.launchDeadline \in Nat
  <2> TAKE t \in OfferedTerms
  <2>1. /\ DOMAIN t = {"soft", "hard", "opensAt", "deadline", "launchDeadline"}
        /\ \A f \in DOMAIN t : t[f] \in Nat
    BY Zenon, SettledConstants
  <2> QED BY Zenon, <2>1
<1>2. /\ SplitBps.participants \in Nat /\ SplitBps.liquidity \in Nat
      /\ SplitBps.parentA \in Nat /\ SplitBps.parentB \in Nat /\ SplitBps.dev \in Nat
  <2>1. /\ DOMAIN SplitBps = {"participants", "liquidity", "parentA", "parentB", "dev"}
        /\ \A f \in DOMAIN SplitBps : SplitBps[f] \in Nat
    BY Zenon, SettledConstants
  <2> QED BY Zenon, <2>1
<1>3. /\ Supply \in Nat
      /\ SplitBps.participants + SplitBps.liquidity + SplitBps.parentA + SplitBps.parentB
           + SplitBps.dev = BpsDenominator
  BY Zenon, SettledConstants
<1>4. /\ Split.participants \in Nat /\ Split.dev \in Nat /\ Split.liquidity \in Nat
      /\ Split.participants + Split.dev <= Supply - Split.liquidity
  BY Zenon, <1>2, <1>3, SplitShares DEF Split
<1> QED BY Zenon, <1>1, <1>4, SettledConstants

\* The dev's entitlement grows with the time and stays within the dev share.
LEMMA DevVested ==
  ASSUME NEW start \in Nat, NEW n1 \in Nat, NEW n2 \in Nat, start <= n1, n1 <= n2
  PROVE  LET e(n) == DevEntitled(Supply, Vesting, start, start + VestingSpan, n)
         IN  e(n1) \in Nat /\ e(n2) \in Nat /\ e(n1) <= e(n2) /\ e(n2) <= Split.dev
<1> DEFINE end == start + VestingSpan
<1>1. Vesting.instant \in Nat /\ Vesting.linear \in Nat
  <2>1. DOMAIN Vesting = {"instant", "linear"} /\ \A f \in DOMAIN Vesting : Vesting[f] \in Nat
    BY Zenon, SettledConstants
  <2> QED BY Zenon, <2>1
<1>2. /\ SplitBps.participants \in Nat /\ SplitBps.liquidity \in Nat
      /\ SplitBps.parentA \in Nat /\ SplitBps.parentB \in Nat /\ SplitBps.dev \in Nat
  <2>1. /\ DOMAIN SplitBps = {"participants", "liquidity", "parentA", "parentB", "dev"}
        /\ \A f \in DOMAIN SplitBps : SplitBps[f] \in Nat
    BY Zenon, SettledConstants
  <2> QED BY Zenon, <2>1
<1>3. /\ Supply \in Nat
      /\ SplitBps.participants + SplitBps.liquidity + SplitBps.parentA + SplitBps.parentB
           + SplitBps.dev = BpsDenominator
      /\ Vesting.instant + Vesting.linear = SplitBps.dev
  BY Zenon, SettledConstants
<1>4. Split.dev = Share(Supply, SplitBps.dev)
  BY Zenon, <1>2, <1>3, SplitShares DEF Split
<1>5. end \in Nat /\ start < end
  BY ConstantTypes
<1> HIDE DEF end
<1>6. /\ DevEntitled(Supply, Vesting, start, end, n1) \in Nat
      /\ DevEntitled(Supply, Vesting, start, end, n2) \in Nat
      /\ DevEntitled(Supply, Vesting, start, end, n1) <= DevEntitled(Supply, Vesting, start, end, n2)
      /\ DevEntitled(Supply, Vesting, start, end, n2) <= Share(Supply, Vesting.instant + Vesting.linear)
  BY Zenon, <1>1, <1>3, <1>5, VestedBounds
<1> QED BY Zenon, <1>3, <1>4, <1>6 DEF end

\* Every receipt's share is a natural number of at most its commitment.
LEMMA ShareBounds ==
  ASSUME TypeOK, LedgerInv, NEW o \in Owners
  PROVE  /\ committed[o] \in Nat /\ committed[o] <= total
         /\ AcceptedOf(o) \in Nat /\ AcceptedOf(o) <= committed[o]
<1>1. committed[o] <= total /\ committed[o] \in Nat /\ total \in Nat /\ hard \in Nat
  BY Zenon, OwnersSum DEF TypeOK, LedgerInv
<1>2. CASE total = 0
  BY <1>1, <1>2 DEF AcceptedOf, Accepted
<1>3. CASE total # 0
  BY Zenon, <1>1, <1>3, AcceptedBounds DEF AcceptedOf
<1> QED BY Zenon, <1>1, <1>2, <1>3

\* All shares together never exceed the total or the hard cap.
LEMMA SharesSum ==
  ASSUME TypeOK, LedgerInv
  PROVE  /\ Shares \in [Owners -> Nat] /\ Sum(Shares) \in Nat
         /\ Sum(Shares) <= total /\ Sum(Shares) <= Least(total, hard)
<1>1. Shares \in [Owners -> Nat] /\ \A o \in Owners : Shares[o] <= committed[o]
  BY Zenon, ShareBounds DEF Shares
<1>2. Sum(Shares) \in Nat
  BY Zenon, <1>1, OwnersSum
<1>3. total \in Nat /\ hard \in Nat /\ committed \in [Owners -> Nat]
  BY Zenon DEF TypeOK
<1>4. Sum(Shares) <= total
  BY Zenon, <1>1, <1>3, OwnersSum DEF LedgerInv
<1>5. CASE total <= hard \/ total = 0
  BY <1>1, <1>2, <1>3, <1>4, <1>5 DEF Least
<1>6. CASE total > hard /\ total # 0
  <2> DEFINE A == Least(total, hard)
             n == [o \in Owners |-> 1]
  <2>1. A \in Nat /\ A = hard
    BY <1>3, <1>6 DEF Least
  <2>2. total \in Nat \ {0}
    BY Zenon, <1>3, <1>6
  <2>3. \A o \in Owners : /\ committed[o] \in Nat /\ Shares[o] \in Nat /\ n[o] \in Nat
                          /\ Shares[o] * total <= committed[o] * A
                          /\ committed[o] * A <= Shares[o] * total + n[o] * total
    <3> TAKE o \in Owners
    <3>1. committed[o] \in Nat /\ committed[o] <= total /\ Shares[o] \in Nat
      BY Zenon, <1>1, ShareBounds
    <3>2. Shares[o] = Accepted(committed[o], total, hard)
      BY Zenon DEF Shares, AcceptedOf
    <3> DEFINE e == IF committed[o] > 0 THEN 1 ELSE 0
    <3>3. /\ Shares[o] * total <= committed[o] * A
          /\ committed[o] * A <= Shares[o] * total + e * (total - 1)
      BY <1>3, <2>2, <3>1, <3>2, AcceptedBounds, Zenon
    <3>4. e * (total - 1) <= n[o] * total /\ e * (total - 1) \in Nat /\ n[o] * total = total
      BY <2>2
    <3>5. Shares[o] * total \in Nat /\ committed[o] * A \in Nat
      BY Zenon, <2>1, <2>2, <3>1, MulNat
    <3> HIDE DEF e, A
    <3> QED BY <2>2, <3>1, <3>3, <3>4, <3>5
  <2> HIDE DEF A, n
  <2>4. Sum(Shares) * total <= Sum(committed) * A
    BY Zenon, <1>3, <2>1, <2>3, OwnersSum, SumFloor DEF Sum
  <2>5. Sum(Shares) * total <= A * total
    BY <1>2, <1>3, <2>1, <2>4 DEF LedgerInv
  <2>6. Sum(Shares) <= A
    BY Zenon, <1>2, <2>1, <2>2, <2>5, MulCancel
  <2> QED BY Zenon, <1>1, <1>2, <1>4, <2>6 DEF A
<1> QED BY <1>3, <1>5, <1>6

\* A live campaign has not failed: its total reached the soft cap.
LEMMA LiveNotFailed ==
  ASSUME SettledInv, phase = LIVE
  PROVE  ~Failed
BY DEF SettledInv, TypeOK, PhaseInv, Failed, LaunchFailed, LIVE, REFUND_ONLY, CLOSED

\* Once as many receipts are settled as there are, every receipt is settled.
LEMMA AllSettled ==
  ASSUME SettledInv, settledCount = receiptCount
  PROVE  /\ \A o \in Owners : settled[o] = ~Fresh(o)
         /\ \A o \in Owners : accepted[o] = AcceptedOf(o)
         /\ settledAccepted = Sum(Shares)
<1>t. /\ committed \in [Owners -> Nat] /\ settled \in [Owners -> BOOLEAN]
      /\ accepted \in [Owners -> Nat]
  BY Zenon DEF SettledInv, TypeOK
<1>1. Settled01 \in [Owners -> Nat] /\ HasReceipt \in [Owners -> Nat]
  BY Zenon DEF Settled01, HasReceipt
<1>2. \A o \in Owners : Settled01[o] <= HasReceipt[o]
  BY <1>t DEF SettledInv, SettleInv, Settled01, HasReceipt
<1>3. \A o \in Owners : Settled01[o] = HasReceipt[o]
  <2>1. Sum(Settled01) = Sum(HasReceipt)
    BY Zenon DEF SettledInv, SettleInv, LedgerInv
  <2> QED BY Zenon, <1>1, <1>2, <2>1, OwnersSum
<1>4. \A o \in Owners : settled[o] = ~Fresh(o)
  BY <1>t, <1>3 DEF Settled01, HasReceipt, Fresh
<1>5. \A o \in Owners : accepted[o] = AcceptedOf(o)
  <2> TAKE o \in Owners
  <2>1. CASE settled[o]
    BY Zenon, <2>1 DEF SettledInv, SettleInv
  <2>2. CASE ~settled[o]
    <3>1. accepted[o] = 0 /\ committed[o] = 0
      BY Zenon, <1>4, <2>2 DEF SettledInv, SettleInv, Fresh
    <3>2. AcceptedOf(o) \in Nat /\ AcceptedOf(o) <= 0
      BY Zenon, <3>1, ShareBounds DEF SettledInv
    <3> QED BY <3>1, <3>2
  <2> QED BY Zenon, <2>1, <2>2
<1>6. Sum(accepted) = Sum(Shares)
  <2>1. \A o \in Owners : accepted[o] \in Nat /\ Shares[o] = accepted[o]
    BY Zenon, <1>t, <1>5 DEF Shares
  <2> QED BY Zenon, <2>1, OwnersSum, SumSame DEF Sum
<1> QED BY Zenon, <1>4, <1>5, <1>6 DEF SettledInv, SettleInv

\* The amounts the handlers compute are natural numbers.
LEMMA Computed ==
  ASSUME SettledInv
  PROVE  /\ \A o \in Owners : Entitled(o) \in Nat
         /\ phase = LIVE => /\ settledAccepted \in Nat \ {0}
                            /\ DevEntitledNow \in Nat /\ DevEntitledNow <= Split.dev
                            /\ \A o \in Owners : Tokens(o) \in Nat
<1>1. \A o \in Owners : Entitled(o) \in Nat
  <2> TAKE o \in Owners
  <2>1. /\ committed[o] \in Nat /\ AcceptedOf(o) \in Nat /\ AcceptedOf(o) <= committed[o]
    BY Zenon, ShareBounds DEF SettledInv
  <2> QED BY <2>1 DEF Entitled, Refundable, AcceptedOf
<1>2. ASSUME phase = LIVE
      PROVE  /\ settledAccepted \in Nat \ {0}
             /\ DevEntitledNow \in Nat /\ DevEntitledNow <= Split.dev
             /\ \A o \in Owners : Tokens(o) \in Nat
  <2>1. settledAccepted \in Nat \ {0}
    BY <1>2 DEF SettledInv, TypeOK, PhaseInv, TermsInv, Exists, ABSENT, LIVE
  <2>2. launchTime \in Nat /\ now \in Nat /\ launchTime <= now /\ now <= now
    BY <1>2 DEF SettledInv, TypeOK, PhaseInv
  <2>3. DevEntitledNow \in Nat /\ DevEntitledNow <= Split.dev
    BY Zenon, <2>2, DevVested DEF DevEntitledNow
  <2>4. \A o \in Owners : Tokens(o) \in Nat
    <3> TAKE o \in Owners
    <3>1. accepted[o] \in Nat
      BY Zenon DEF SettledInv, TypeOK
    <3>2. Split.participants * accepted[o] \in Nat
      BY Zenon, <3>1, ConstantTypes, MulNat
    <3> QED BY Zenon, <2>1, <3>2, DivBounds DEF Tokens, ParticipantTokens
  <2> QED BY Zenon, <2>1, <2>3, <2>4
<1> QED BY Zenon, <1>1, <1>2

-----------------------------------------------------------------------------
(* The induction.                                                          *)

\* Init establishes the invariant.
LEMMA InitInd == Init => SettledInv
<1> SUFFICES ASSUME Init PROVE SettledInv
  OBVIOUS
<1>1. TypeOK
  BY Zenon DEF Init, TypeOK, Zero, None, Phases
<1>2. Sum(committed) = 0 /\ Sum(paid) = 0 /\ Sum(HasReceipt) = 0 /\ Sum(claimedTokens) = 0
      /\ Sum(accepted) = 0 /\ Sum(Settled01) = 0
  BY ZeroSum DEF Init, Zero, None, HasReceipt, Settled01
<1>3. Cardinality({o \in Owners : settled[o]}) = 0
  <2>1. {o \in Owners : settled[o]} = {}
    BY Zenon DEF Init, None
  <2> QED BY Zenon, <2>1, FS_EmptySet
<1>4. LedgerInv
  BY <1>2 DEF Init, LedgerInv
<1>5. TermsInv /\ PhaseInv /\ PaidInv
  BY DEF Init, TermsInv, PhaseInv, PaidInv, Exists, Zero, ABSENT, FUNDING, CLOSED, REFUND_ONLY, LIVE
<1>6. SettleInv
  BY Zenon, <1>2, <1>3 DEF Init, SettleInv, Zero, None
<1>7. ClaimInv
  BY Zenon, <1>2 DEF Init, ClaimInv, Zero, None, ABSENT, LIVE
<1> QED BY Zenon, <1>1, <1>4, <1>5, <1>6, <1>7 DEF SettledInv

\* Types are preserved: no subtraction of a handler goes below zero.
LEMMA TypeStep ==
  ASSUME SettledInv, [Next]_vars
  PROVE  TypeOK'
<1> USE DEF termVars, fundVars, refundVars, settleVars, claimVars, launchVars
<1>t. TypeOK
  BY Zenon DEF SettledInv
<1>1. ASSUME NEW t \in OfferedTerms, Create(t) PROVE TypeOK'
  BY Zenon, <1>t, <1>1, ConstantTypes DEF Create, TypeOK, Phases
<1>2. ASSUME NEW o \in Owners, NEW a \in Amounts, NEW q, Commit(o, a, q) PROVE TypeOK'
  <2>1. a \in Nat
    BY Zenon, ConstantTypes
  <2> QED BY <1>t, <1>2, <2>1 DEF Commit, TypeOK
<1>3. ASSUME Finalize PROVE TypeOK'
  BY Zenon, <1>t, <1>3 DEF Finalize, TypeOK, Phases
<1>4. ASSUME NEW o \in Owners, Settle(o) PROVE TypeOK'
  <2>1. AcceptedOf(o) \in Nat
    BY Zenon, ShareBounds DEF SettledInv
  <2> QED BY <1>t, <1>4, <2>1 DEF Settle, TypeOK
<1>5. ASSUME NEW o \in Owners, Refund(o) PROVE TypeOK'
  <2>1. Entitled(o) \in Nat
    BY Zenon, Computed
  <2>2. phase' \in Phases
    BY Zenon, <1>t, <1>5 DEF Refund, TypeOK, Phases
  <2>3. lamports' \in Nat /\ refunded' \in Nat
    BY <1>t, <1>5, <2>1 DEF Refund, TypeOK
  <2>4. paid' \in [Owners -> Nat]
    BY Zenon, <1>t, <1>5, <2>1 DEF Refund, PaidAfter, TypeOK
  <2> QED BY Zenon, <1>t, <1>5, <2>2, <2>3, <2>4 DEF Refund, TypeOK
<1>6. ASSUME Launch PROVE TypeOK'
  <2>1. Supply - Split.liquidity \in Nat
    BY ConstantTypes
  <2> QED BY <1>t, <1>6, <2>1 DEF Launch, LaunchFundsOK, Liability, TypeOK, Phases
<1>7. ASSUME NEW o \in Owners, ClaimParticipant(o) PROVE TypeOK'
  <2>1. Tokens(o) \in Nat
    BY Zenon, <1>7, Computed DEF ClaimParticipant
  <2> QED BY <1>t, <1>7, <2>1 DEF ClaimParticipant, ClaimOK, TypeOK
<1>8. ASSUME ClaimDev PROVE TypeOK'
  <2>1. DevEntitledNow \in Nat
    BY Zenon, <1>8, Computed DEF ClaimDev
  <2> QED BY <1>t, <1>8, <2>1 DEF ClaimDev, DevClaimOK, TypeOK
<1>9. ASSUME Donate \/ Tick PROVE TypeOK'
  BY <1>t, <1>9 DEF Donate, Tick, TypeOK
<1>10. ASSUME UNCHANGED vars PROVE TypeOK'
  BY Zenon, <1>t, <1>10 DEF vars, TypeOK
<1> QED BY Zenon, <1>1, <1>2, <1>3, <1>4, <1>5, <1>6, <1>7, <1>8, <1>9, <1>10 DEF Next

\* The sealed terms stay valid: only init_campaign writes them.
LEMMA TermsStep ==
  ASSUME SettledInv, [Next]_vars
  PROVE  TermsInv'
<1> USE DEF termVars, fundVars, refundVars, settleVars, claimVars, launchVars
<1>t. TypeOK /\ TermsInv
  BY Zenon DEF SettledInv
<1>1. ASSUME NEW t \in OfferedTerms, Create(t) PROVE TermsInv'
  BY Zenon, <1>1, ConstantTypes DEF Create, TermsValid, TermsInv
<1>2. CASE UNCHANGED termVars /\ (Exists' => Exists)
  BY Zenon, <1>t, <1>2 DEF TermsInv
<1>3. ASSUME Finalize PROVE UNCHANGED termVars /\ (Exists' => Exists)
  BY Zenon, <1>3 DEF Finalize, AfterDeadline
<1>4. ASSUME NEW o \in Owners, Refund(o) PROVE UNCHANGED termVars /\ (Exists' => Exists)
  BY Zenon, <1>4 DEF Refund, AfterDeadline
<1>5. ASSUME Launch PROVE UNCHANGED termVars /\ (Exists' => Exists)
  BY Zenon, <1>5 DEF Launch, Ready, InLaunchWindow, Exists, FUNDING, CLOSED, ABSENT
<1>6. CASE UNCHANGED <<termVars, phase>>
  BY Zenon, <1>2, <1>6 DEF Exists
<1> QED
  BY Zenon, <1>1, <1>2, <1>3, <1>4, <1>5, <1>6
  DEF Next, Commit, Settle, ClaimParticipant, ClaimDev, Donate, Tick, vars

\* The running totals follow the receipts and no lamport is lost or made.
LEMMA LedgerStep ==
  ASSUME SettledInv, [Next]_vars
  PROVE  LedgerInv'
<1> USE DEF termVars, fundVars, refundVars, settleVars, claimVars, launchVars
<1>t. TypeOK /\ LedgerInv /\ PhaseInv /\ TypeOK'
  BY Zenon, TypeStep DEF SettledInv
<1>s. /\ committed \in [Owners -> Nat] /\ committed' \in [Owners -> Nat]
      /\ paid \in [Owners -> Nat] /\ paid' \in [Owners -> Nat]
      /\ total \in Nat /\ refunded \in Nat /\ receiptCount \in Nat /\ lamports \in Nat
      /\ pool \in Nat /\ donated \in Nat /\ settledAccepted \in Nat
  BY Zenon, <1>t DEF TypeOK
<1>h. HasReceipt \in [Owners -> Nat] /\ HasReceipt' \in [Owners -> Nat]
  BY Zenon DEF HasReceipt
<1>1. CASE UNCHANGED <<fundVars, refundVars, pool, lamports, donated>>
  <2>1. HasReceipt' = HasReceipt
    BY Zenon, <1>1 DEF HasReceipt
  <2> QED BY Zenon, <1>t, <1>1, <2>1 DEF LedgerInv, Sum
<1>2. ASSUME NEW o \in Owners, NEW a \in Amounts, NEW q, Commit(o, a, q) PROVE LedgerInv'
  <2>0. a \in Nat /\ a > 0 /\ committed[o] \in Nat
    BY Zenon, <1>2, <1>s, ConstantTypes DEF Commit
  <2>1. Sum(committed') = Sum(committed) + a
    <3>1. committed'[o] = committed[o] + a /\ \A x \in Owners \ {o} : committed'[x] = committed[x]
      BY Zenon, <1>2, <1>s DEF Commit
    <3>2. Sum(committed') = Sum(committed) - committed[o] + committed'[o] /\ Sum(committed) \in Nat
      BY Zenon, <1>s, <3>1, OwnersSum
    <3> QED BY <2>0, <3>1, <3>2
  <2>2. receiptCount' = Sum(HasReceipt')
    <3>1. /\ HasReceipt'[o] = 1 /\ HasReceipt[o] = IF Fresh(o) THEN 0 ELSE 1
          /\ \A x \in Owners \ {o} : HasReceipt'[x] = HasReceipt[x]
      BY <1>2, <1>s, <2>0 DEF Commit, HasReceipt, Fresh
    <3>2. Sum(HasReceipt') = Sum(HasReceipt) - HasReceipt[o] + HasReceipt'[o]
      BY Zenon, <1>h, <3>1, OwnersSum
    <3>3. receiptCount = Sum(HasReceipt)
      BY Zenon, <1>t DEF LedgerInv
    <3>4. receiptCount' = IF Fresh(o) THEN receiptCount + 1 ELSE receiptCount
      BY Zenon, <1>2 DEF Commit
    <3> QED BY <1>s, <3>1, <3>2, <3>3, <3>4
  <2>3. UNCHANGED <<refunded, paid, pool, donated>>
    BY Zenon, <1>2 DEF Commit
  <2>4. total' = total + a /\ lamports' = lamports + a
    BY Zenon, <1>2 DEF Commit
  <2>5. refunded' = Sum(paid') /\ total' = Sum(committed')
    BY Zenon, <1>t, <2>1, <2>3, <2>4 DEF LedgerInv
  <2> QED BY <1>t, <1>s, <2>0, <2>2, <2>3, <2>4, <2>5 DEF LedgerInv, Sum
<1>3. ASSUME NEW o \in Owners, Refund(o) PROVE LedgerInv'
  <2>0. Entitled(o) \in Nat /\ paid[o] \in Nat
    BY Zenon, <1>s, Computed
  <2>1. Sum(paid') = Sum(paid) - paid[o] + Entitled(o)
    <3>1. paid'[o] = Entitled(o)
      BY Zenon, <1>3, <1>s DEF Refund, PaidAfter
    <3>2. \A x \in Owners \ {o} : paid'[x] = paid[x]
      BY Zenon, <1>3, <1>s DEF Refund, PaidAfter
    <3>3. Sum(paid') = Sum(paid) - paid[o] + paid'[o]
      BY Zenon, <1>s, <3>2, OwnersSum
    <3> QED BY Zenon, <3>1, <3>3
  <2>2. /\ refunded' = refunded + (Entitled(o) - paid[o])
        /\ lamports' = lamports - (Entitled(o) - paid[o])
        /\ UNCHANGED <<total, receiptCount, committed, pool, donated>>
    BY Zenon, <1>3 DEF Refund
  <2>3. refunded' = Sum(paid')
    <3>1. refunded = Sum(paid)
      BY Zenon, <1>t DEF LedgerInv
    <3> QED BY <1>s, <2>0, <2>1, <2>2, <3>1
  <2>4. HasReceipt' = HasReceipt
    BY Zenon, <2>2 DEF HasReceipt
  <2>5. total' = Sum(committed') /\ receiptCount' = Sum(HasReceipt')
    BY Zenon, <1>t, <2>2, <2>4 DEF LedgerInv
  <2> QED BY <1>t, <1>s, <2>0, <2>2, <2>3, <2>5 DEF LedgerInv, Sum
<1>4. ASSUME Launch PROVE LedgerInv'
  <2>1. HasReceipt' = HasReceipt
    BY Zenon, <1>4 DEF Launch, HasReceipt
  <2>2. pool = 0
    BY Zenon, <1>t, <1>4 DEF Launch, Ready, InLaunchWindow, PhaseInv, FUNDING, CLOSED, LIVE
  <2> QED BY <1>t, <1>s, <1>4, <2>1, <2>2 DEF Launch, LedgerInv, Sum
<1>5. ASSUME Donate PROVE LedgerInv'
  <2>1. HasReceipt' = HasReceipt
    BY Zenon, <1>5 DEF Donate, HasReceipt
  <2> QED BY <1>t, <1>s, <1>5, <2>1 DEF Donate, LedgerInv, Sum
<1> QED
  BY Zenon, <1>1, <1>2, <1>3, <1>4, <1>5
  DEF Next, Create, Finalize, Settle, ClaimParticipant, ClaimDev, Tick, vars

\* What each phase means is preserved; a live campaign settles no more receipts.
LEMMA PhaseStep ==
  ASSUME SettledInv, [Next]_vars
  PROVE  PhaseInv'
<1> USE DEF termVars, fundVars, refundVars, settleVars, claimVars, launchVars,
            ABSENT, FUNDING, CLOSED, REFUND_ONLY, LIVE
<1>t. TypeOK /\ PhaseInv
  BY Zenon DEF SettledInv
<1>1. ASSUME NEW t \in OfferedTerms, Create(t) PROVE PhaseInv'
  BY Zenon, <1>t, <1>1 DEF Create, PhaseInv
<1>2. ASSUME NEW o \in Owners, NEW a \in Amounts, NEW q, Commit(o, a, q) PROVE PhaseInv'
  BY Zenon, <1>t, <1>2 DEF Commit, FundingOpen, PhaseInv
<1>3. ASSUME Finalize PROVE PhaseInv'
  BY <1>t, <1>3 DEF Finalize, AfterDeadline, PhaseInv, Exists, TypeOK, Phases
<1>4. ASSUME NEW o \in Owners, Settle(o) PROVE PhaseInv'
  <2>1. phase # LIVE
    BY Zenon, <1>t, <1>4, AllSettled DEF Settle, Settleable, PhaseInv
  <2> QED BY Zenon, <1>t, <1>4, <2>1 DEF Settle, PhaseInv
<1>5. ASSUME NEW o \in Owners, Refund(o) PROVE PhaseInv'
  <2>1. ~Failed => total >= soft
    BY <1>t DEF Failed, LaunchFailed, TypeOK
  <2>2. phase = LIVE => ~Failed
    BY Zenon, LiveNotFailed
  <2>3. phase # ABSENT /\ phase' \notin {ABSENT, FUNDING}
    BY Zenon, <1>t, <1>5 DEF Refund, AfterDeadline, Exists, TypeOK, Phases
  <2> QED BY Zenon, <1>t, <1>5, <2>1, <2>2, <2>3 DEF Refund, PhaseInv
<1>6. ASSUME Launch PROVE PhaseInv'
  BY <1>t, <1>6 DEF Launch, Ready, InLaunchWindow, PhaseInv, TypeOK
<1>7. ASSUME Tick PROVE PhaseInv'
  BY <1>t, <1>7 DEF Tick, PhaseInv, TypeOK
<1>8. CASE UNCHANGED <<now, phase, termVars, fundVars, refundVars, settleVars, launchVars>>
  BY Zenon, <1>t, <1>8 DEF PhaseInv
<1> QED
  BY Zenon, <1>1, <1>2, <1>3, <1>4, <1>5, <1>6, <1>7, <1>8
  DEF Next, ClaimParticipant, ClaimDev, Donate, vars

\* No receipt is paid more than its excess while the round may still launch or
\* has launched, and never more than its commitment.
LEMMA PaidStep ==
  ASSUME SettledInv, [Next]_vars
  PROVE  PaidInv'
<1> USE DEF termVars, fundVars, refundVars, settleVars, claimVars, launchVars,
            ABSENT, FUNDING, CLOSED, REFUND_ONLY, LIVE
<1>t. TypeOK /\ PhaseInv /\ PaidInv
  BY Zenon DEF SettledInv
<1>s. \A o \in Owners : /\ committed[o] \in Nat /\ paid[o] \in Nat
                        /\ AcceptedOf(o) \in Nat /\ AcceptedOf(o) <= committed[o]
  BY Zenon, <1>t, ShareBounds DEF TypeOK, SettledInv
<1>z. phase \in {ABSENT, FUNDING} => \A o \in Owners : paid[o] = 0
  BY Zenon, <1>t DEF PhaseInv, Zero
<1>1. ASSUME NEW t \in OfferedTerms, Create(t) PROVE PaidInv'
  BY Zenon, <1>t, <1>1 DEF Create, PaidInv
<1>2. ASSUME NEW o \in Owners, NEW a \in Amounts, NEW q, Commit(o, a, q) PROVE PaidInv'
  <2>1. a \in Nat
    BY Zenon, ConstantTypes
  <2>2. phase = FUNDING /\ phase' = FUNDING /\ paid' = paid
    BY Zenon, <1>2 DEF Commit, FundingOpen
  <2>3. \A x \in Owners : committed'[x] \in Nat
    BY <1>t, <1>2, <2>1 DEF Commit, TypeOK
  <2> QED BY <1>s, <1>z, <2>2, <2>3 DEF PaidInv
<1>3. CASE UNCHANGED <<termVars, fundVars, paid>> /\ (phase' # phase => phase \in {ABSENT, FUNDING, CLOSED})
  <2>1. \A o \in Owners : phase \in {ABSENT, FUNDING, CLOSED, LIVE} => paid[o] + AcceptedOf(o) <= committed[o]
    BY <1>t, <1>s, <1>z DEF PaidInv
  <2>2. \A o \in Owners : AcceptedOf(o)' = AcceptedOf(o)
    BY Zenon, <1>3 DEF AcceptedOf
  <2> QED BY Zenon, <1>t, <1>3, <2>1, <2>2 DEF PaidInv
<1>4. ASSUME Finalize PROVE PaidInv'
  <2>1. phase' # phase => phase \in {ABSENT, FUNDING, CLOSED}
    BY Zenon, <1>t, <1>4 DEF Finalize, TypeOK, Phases
  <2> QED BY Zenon, <1>3, <1>4, <2>1 DEF Finalize
<1>5. ASSUME NEW o \in Owners, Refund(o) PROVE PaidInv'
  <2>1. /\ UNCHANGED <<total, hard, committed>>
        /\ paid'[o] = Entitled(o) /\ \A x \in Owners \ {o} : paid'[x] = paid[x]
    BY Zenon, <1>t, <1>5 DEF Refund, PaidAfter, TypeOK
  <2>a. \A x \in Owners : AcceptedOf(x)' = AcceptedOf(x)
    BY Zenon, <2>1 DEF AcceptedOf
  <2>2. CASE Failed
    <3>1. phase' = REFUND_ONLY /\ Entitled(o) = committed[o]
      BY Zenon, <1>5, <2>2 DEF Refund, Entitled, Refundable
    <3> QED BY <1>t, <1>s, <2>1, <3>1 DEF PaidInv
  <2>3. CASE ~Failed
    <3>1. Entitled(o) = committed[o] - AcceptedOf(o)
      BY Zenon, <2>3 DEF Entitled, Refundable, AcceptedOf
    <3>2. phase \in {FUNDING, CLOSED, LIVE}
      BY Zenon, <1>t, <1>5, <2>3 DEF Refund, AfterDeadline, Exists, TypeOK, Phases, Failed, LaunchFailed
    <3>3. \A x \in Owners : paid[x] + AcceptedOf(x) <= committed[x]
      BY <1>t, <1>s, <1>z, <3>2 DEF PaidInv
    <3>4. \A x \in Owners : paid'[x] + AcceptedOf(x) <= committed[x]
      BY <1>s, <2>1, <3>1, <3>3
    <3>5. \A x \in Owners : paid'[x] \in Nat
      BY Zenon, TypeStep DEF TypeOK
    <3>6. \A x \in Owners : paid'[x] <= committed[x]
      BY <1>s, <3>4, <3>5
    <3> QED BY Zenon, <2>1, <2>a, <3>4, <3>6 DEF PaidInv
  <2> QED BY Zenon, <2>2, <2>3
<1>6. ASSUME Launch PROVE PaidInv'
  BY Zenon, <1>3, <1>6 DEF Launch, Ready, InLaunchWindow
<1> QED
  BY Zenon, <1>1, <1>2, <1>3, <1>4, <1>5, <1>6
  DEF Next, Settle, ClaimParticipant, ClaimDev, Donate, Tick, vars

\* The settled count and sum follow the settled receipts, and a settled receipt
\* keeps the share it was settled at.
LEMMA SettleStep ==
  ASSUME SettledInv, [Next]_vars
  PROVE  SettleInv'
<1> USE DEF termVars, fundVars, refundVars, settleVars, claimVars, launchVars
<1>t. TypeOK /\ TypeOK' /\ SettleInv
  BY Zenon, TypeStep DEF SettledInv
<1>0. CASE UNCHANGED settleVars /\ \A o \in Owners : settled[o] =>
             AfterDeadline' /\ committed'[o] = committed[o] /\ AcceptedOf(o)' = AcceptedOf(o)
  <2>1. Settled01' = Settled01
    BY Zenon, <1>0 DEF Settled01
  <2> QED BY Zenon, <1>t, <1>0, <2>1 DEF SettleInv, Sum
<1>1. CASE UNCHANGED settleVars /\ \A o \in Owners : ~settled[o]
  BY Zenon, <1>0, <1>1
<1>2. ASSUME NEW t \in OfferedTerms, Create(t) PROVE SettleInv'
  BY Zenon, <1>t, <1>1, <1>2 DEF Create, SettleInv, AfterDeadline, Exists
<1>3. ASSUME NEW o \in Owners, NEW a \in Amounts, NEW q, Commit(o, a, q) PROVE SettleInv'
  BY <1>t, <1>1, <1>3 DEF Commit, FundingOpen, SettleInv, AfterDeadline, TypeOK
<1>4. CASE UNCHANGED <<settleVars, termVars, fundVars>> /\ (AfterDeadline => AfterDeadline')
  <2>1. \A o \in Owners : AcceptedOf(o)' = AcceptedOf(o)
    BY Zenon, <1>4 DEF AcceptedOf
  <2> QED BY Zenon, <1>t, <1>0, <1>4, <2>1 DEF SettleInv
<1>5. ASSUME Finalize PROVE SettleInv'
  BY Zenon, <1>4, <1>5 DEF Finalize, AfterDeadline, Exists, ABSENT, CLOSED, REFUND_ONLY
<1>6. ASSUME NEW o \in Owners, Refund(o) PROVE SettleInv'
  BY Zenon, <1>4, <1>6 DEF Refund, AfterDeadline, Exists, ABSENT, CLOSED, REFUND_ONLY
<1>7. ASSUME Launch PROVE SettleInv'
  BY Zenon, <1>4, <1>7 DEF Launch, AfterDeadline, Exists, ABSENT, LIVE
<1>8. ASSUME Tick PROVE SettleInv'
  BY <1>t, <1>4, <1>8 DEF Tick, AfterDeadline, Exists, TypeOK
<1>9. ASSUME NEW o \in Owners, Settle(o) PROVE SettleInv'
  <2>0. /\ AfterDeadline /\ committed[o] # 0 /\ ~settled[o]
        /\ settledCount' = settledCount + 1
        /\ settledAccepted' = settledAccepted + AcceptedOf(o)
        /\ UNCHANGED <<now, phase, termVars, fundVars>>
    BY Zenon, <1>9 DEF Settle, Settleable, Fresh
  <2>1. /\ settled'[o] /\ accepted'[o] = AcceptedOf(o)
        /\ \A x \in Owners \ {o} : settled'[x] = settled[x] /\ accepted'[x] = accepted[x]
        /\ accepted \in [Owners -> Nat] /\ accepted' \in [Owners -> Nat]
        /\ accepted[o] = 0 /\ AcceptedOf(o) \in Nat /\ committed[o] > 0
    <3>1. /\ settled \in [Owners -> BOOLEAN] /\ accepted \in [Owners -> Nat]
          /\ settled' = [settled EXCEPT ![o] = TRUE]
          /\ accepted' = [accepted EXCEPT ![o] = AcceptedOf(o)]
          /\ accepted[o] = 0
      BY Zenon, <1>t, <1>9, <2>0 DEF Settle, TypeOK, SettleInv
    <3>2. AcceptedOf(o) \in Nat /\ committed[o] \in Nat
      BY Zenon, <1>t, ShareBounds DEF SettledInv
    <3> QED BY <2>0, <3>1, <3>2
  <2>2. AfterDeadline' /\ \A x \in Owners : AcceptedOf(x)' = AcceptedOf(x) /\ committed'[x] = committed[x]
    BY Zenon, <2>0 DEF AfterDeadline, Exists, AcceptedOf
  <2>3. settledCount' = Sum(Settled01')
    <3>1. /\ Settled01 \in [Owners -> Nat] /\ Settled01' \in [Owners -> Nat]
          /\ Settled01[o] = 0 /\ Settled01'[o] = 1
          /\ \A x \in Owners \ {o} : Settled01'[x] = Settled01[x]
      BY Zenon, <2>0, <2>1 DEF Settled01
    <3>2. Sum(Settled01') = Sum(Settled01) - Settled01[o] + Settled01'[o]
          /\ Sum(Settled01) \in Nat
      BY Zenon, <3>1, OwnersSum
    <3>3. settledCount = Sum(Settled01)
      BY Zenon, <1>t DEF SettleInv
    <3> QED BY <2>0, <3>1, <3>2, <3>3
  <2>4. settledAccepted' = Sum(accepted')
    <3>1. Sum(accepted') = Sum(accepted) - accepted[o] + accepted'[o] /\ Sum(accepted) \in Nat
      BY Zenon, <2>1, OwnersSum
    <3>2. settledAccepted = Sum(accepted)
      BY Zenon, <1>t DEF SettleInv
    <3> QED BY <2>0, <2>1, <3>1, <3>2
  <2>5. settledCount' = Cardinality({x \in Owners : settled'[x]})
    <3> DEFINE S == {x \in Owners : settled[x]}
    <3>1. {x \in Owners : settled'[x]} = S \cup {o} /\ o \notin S
      BY Zenon, <2>0, <2>1
    <3>2. IsFiniteSet(S)
      BY Zenon, OwnersSum, FS_Subset
    <3>3. Cardinality(S \cup {o}) = Cardinality(S) + 1
      <4> HIDE DEF S
      <4> QED BY Zenon, <3>1, <3>2, FS_AddElement
    <3> QED BY Zenon, <1>t, <2>0, <3>1, <3>3 DEF SettleInv
  <2>6. \A x \in Owners :
          /\ settled'[x] => AfterDeadline' /\ committed'[x] > 0 /\ accepted'[x] = AcceptedOf(x)'
          /\ ~settled'[x] => accepted'[x] = 0
    BY Zenon, <1>t, <2>1, <2>2 DEF SettleInv
  <2> QED BY Zenon, <2>3, <2>4, <2>5, <2>6 DEF SettleInv, Sum
<1>10. CASE UNCHANGED <<now, phase, termVars, fundVars, settleVars>>
  BY Zenon, <1>4, <1>10 DEF AfterDeadline, Exists
<1> QED
  BY Zenon, <1>2, <1>3, <1>5, <1>6, <1>7, <1>8, <1>9, <1>10
  DEF Next, ClaimParticipant, ClaimDev, Donate, vars

\* Custody follows the claims: what claim_participant paid is each claimed
\* receipt's share, what claim_dev paid never exceeds the vested entitlement.
LEMMA ClaimStep ==
  ASSUME SettledInv, [Next]_vars
  PROVE  ClaimInv'
<1> USE DEF termVars, fundVars, refundVars, settleVars, claimVars, launchVars,
            ABSENT, FUNDING, CLOSED, REFUND_ONLY, LIVE
<1>t. TypeOK /\ TypeOK' /\ PhaseInv /\ ClaimInv
  BY Zenon, TypeStep DEF SettledInv
<1>s. /\ custody \in Nat /\ participantClaimed \in Nat /\ devClaimed \in Nat
      /\ now \in Nat /\ launchTime \in Nat
      /\ claimedTokens \in [Owners -> Nat] /\ claimed \in [Owners -> BOOLEAN]
      /\ Supply - Split.liquidity \in Nat
  BY <1>t, ConstantTypes DEF TypeOK
<1>0. ASSUME phase # LIVE, UNCHANGED claimVars, phase' # LIVE
      PROVE  ClaimInv'
  BY Zenon, <1>t, <1>0 DEF ClaimInv, Sum
<1>1. ASSUME phase = LIVE, UNCHANGED <<phase, settleVars, claimVars, launchVars, now>>
      PROVE  ClaimInv'
  <2>1. DevEntitledNow' = DevEntitledNow /\ \A o \in Owners : Tokens(o)' = Tokens(o)
    BY Zenon, <1>1 DEF DevEntitledNow, Tokens
  <2> QED BY Zenon, <1>t, <1>1, <2>1 DEF ClaimInv, Sum
<1>2. ASSUME NEW t \in OfferedTerms, Create(t) PROVE ClaimInv'
  BY Zenon, <1>0, <1>2 DEF Create
<1>3. ASSUME NEW o \in Owners, NEW a \in Amounts, NEW q, Commit(o, a, q) PROVE ClaimInv'
  BY Zenon, <1>0, <1>3 DEF Commit, FundingOpen
<1>4. ASSUME Finalize PROVE ClaimInv'
  BY Zenon, <1>0, <1>1, <1>4 DEF Finalize
<1>5. ASSUME NEW o \in Owners, Settle(o) PROVE ClaimInv'
  <2>1. phase # LIVE
    BY Zenon, <1>t, <1>5, AllSettled DEF Settle, Settleable, PhaseInv
  <2> QED BY Zenon, <1>0, <1>5, <2>1 DEF Settle
<1>6. ASSUME NEW o \in Owners, Refund(o) PROVE ClaimInv'
  <2>1. phase = LIVE => ~Failed
    BY Zenon, LiveNotFailed
  <2> QED BY Zenon, <1>0, <1>1, <1>6, <2>1 DEF Refund
<1>7. ASSUME Launch PROVE ClaimInv'
  <2>1. /\ phase # LIVE /\ phase' = LIVE /\ launchTime' = now /\ now' = now /\ devClaimed = 0
        /\ custody' = Supply - Split.liquidity
        /\ UNCHANGED <<participantClaimed, claimed, claimedTokens, devClaimed>>
    BY Zenon, <1>t, <1>7 DEF Launch, Ready, InLaunchWindow, ClaimInv
  <2>2. \A o \in Owners : ~claimed[o] /\ claimedTokens[o] = 0
    BY Zenon, <1>t, <2>1 DEF ClaimInv
  <2>3. participantClaimed = 0
    BY Zenon, <1>t, <2>2, ZeroSum DEF ClaimInv
  <2>4. 0 <= DevEntitledNow'
    <3>1. DevEntitledNow' = DevEntitled(Supply, Vesting, now, now + VestingSpan, now)
      BY Zenon, <2>1 DEF DevEntitledNow
    <3>2. now \in Nat /\ now <= now
      BY <1>s
    <3>3. DevEntitled(Supply, Vesting, now, now + VestingSpan, now) \in Nat
      BY Zenon, <3>2, DevVested
    <3> QED BY <3>1, <3>3
  <2> QED BY <1>t, <1>s, <2>1, <2>2, <2>3, <2>4 DEF ClaimInv, Sum
<1>8. ASSUME NEW o \in Owners, ClaimParticipant(o) PROVE ClaimInv'
  <2>1. /\ phase = LIVE /\ ~claimed[o] /\ Tokens(o) \in Nat
        /\ UNCHANGED <<phase, now, settleVars, launchVars, devClaimed>>
        /\ custody' = custody - Tokens(o)
        /\ participantClaimed' = participantClaimed + Tokens(o)
    BY Zenon, <1>8, Computed DEF ClaimParticipant
  <2>2. /\ claimed'[o] /\ claimedTokens'[o] = Tokens(o)
        /\ \A x \in Owners \ {o} : claimed'[x] = claimed[x] /\ claimedTokens'[x] = claimedTokens[x]
        /\ claimedTokens' \in [Owners -> Nat]
    BY Zenon, <1>s, <1>8, <2>1 DEF ClaimParticipant
  <2>3. DevEntitledNow' = DevEntitledNow /\ \A x \in Owners : Tokens(x)' = Tokens(x)
    BY Zenon, <2>1 DEF DevEntitledNow, Tokens
  <2>4. claimedTokens[o] = 0
    BY Zenon, <1>t, <2>1 DEF ClaimInv
  <2>5. Sum(claimedTokens') = Sum(claimedTokens) + Tokens(o)
    <3>1. Sum(claimedTokens') = Sum(claimedTokens) - claimedTokens[o] + claimedTokens'[o]
          /\ Sum(claimedTokens) \in Nat
      BY <1>s, <2>2, OwnersSum
    <3> QED BY <2>1, <2>2, <2>4, <3>1
  <2>6. \A x \in Owners : claimedTokens'[x] = IF claimed'[x] THEN Tokens(x)' ELSE 0
    BY Zenon, <1>t, <2>1, <2>2, <2>3 DEF ClaimInv
  <2>7. participantClaimed' = Sum(claimedTokens')
    BY Zenon, <1>t, <2>1, <2>5 DEF ClaimInv
  <2>8. custody' + participantClaimed' + devClaimed' = Supply - Split.liquidity
        /\ devClaimed' <= DevEntitledNow'
    BY <1>t, <1>s, <2>1, <2>3 DEF ClaimInv
  <2> QED BY Zenon, <2>1, <2>6, <2>7, <2>8 DEF ClaimInv, Sum, Split
<1>9. ASSUME ClaimDev PROVE ClaimInv'
  <2>1. /\ phase = LIVE /\ phase' = LIVE /\ DevEntitledNow' = DevEntitledNow
        /\ DevEntitledNow \in Nat /\ devClaimed' = DevEntitledNow
        /\ custody' = custody - (DevEntitledNow - devClaimed)
        /\ UNCHANGED <<participantClaimed, claimed, claimedTokens>>
        /\ \A o \in Owners : Tokens(o)' = Tokens(o)
    BY Zenon, <1>9, Computed DEF ClaimDev, DevEntitledNow, Tokens
  <2> QED BY <1>t, <1>s, <2>1 DEF ClaimInv, Sum
<1>10. ASSUME Tick PROVE ClaimInv'
  <2>1. CASE phase # LIVE
    BY Zenon, <1>0, <1>10, <2>1 DEF Tick
  <2>2. CASE phase = LIVE
    <3>1. /\ phase' = phase /\ UNCHANGED <<claimVars, launchVars>>
          /\ now' = now + 1 /\ launchTime <= now
          /\ \A o \in Owners : Tokens(o)' = Tokens(o)
      BY Zenon, <1>t, <1>10, <2>2 DEF Tick, PhaseInv, Tokens
    <3>2. DevEntitledNow <= DevEntitledNow' /\ DevEntitledNow \in Nat /\ DevEntitledNow' \in Nat
      <4> DEFINE next == now + 1
      <4>1. next \in Nat /\ now <= next
        BY <1>s
      <4>2. /\ DevEntitledNow = DevEntitled(Supply, Vesting, launchTime, launchTime + VestingSpan, now)
            /\ DevEntitledNow' = DevEntitled(Supply, Vesting, launchTime, launchTime + VestingSpan, next)
        BY Zenon, <3>1 DEF DevEntitledNow
      <4> HIDE DEF next
      <4> QED BY Zenon, <1>s, <3>1, <4>1, <4>2, DevVested
    <3> QED BY <1>t, <1>s, <2>2, <3>1, <3>2 DEF ClaimInv, Sum
  <2> QED BY Zenon, <2>1, <2>2
<1>11. CASE UNCHANGED <<phase, settleVars, claimVars, launchVars, now>>
  BY Zenon, <1>0, <1>1, <1>11
<1> QED
  BY Zenon, <1>2, <1>3, <1>4, <1>5, <1>6, <1>7, <1>8, <1>9, <1>10, <1>11
  DEF Next, Donate, vars

\* The invariant holds in every reachable state of every settled campaign.
THEOREM SettledInductive == Spec => []SettledInv
<1>1. Init => SettledInv
  BY Zenon, InitInd
<1>2. SettledInv /\ [Next]_vars => SettledInv'
  BY Zenon, TypeStep, TermsStep, LedgerStep, PhaseStep, PaidStep, SettleStep, ClaimStep
  DEF SettledInv
<1> QED BY <1>1, <1>2, PTL DEF Spec

-----------------------------------------------------------------------------
(* From the invariant to the properties.                                   *)

\* What the receipts may still take back, added up, is the total less what is
\* kept of each receipt and the refunds paid.
LEMMA Outstanding ==
  ASSUME SettledInv, NEW keep \in [Owners -> Nat], NEW rest,
         \A o \in Owners : /\ keep[o] + paid[o] <= committed[o]
                           /\ rest[o] = committed[o] - keep[o] - paid[o]
  PROVE  Sum(rest) \in Nat /\ Sum(keep) \in Nat /\ Sum(rest) = total - Sum(keep) - refunded
<1> DEFINE both == [o \in Owners |-> keep[o] + paid[o]]
<1>1. /\ committed \in [Owners -> Nat] /\ paid \in [Owners -> Nat]
      /\ total = Sum(committed) /\ refunded = Sum(paid)
  BY Zenon DEF SettledInv, TypeOK, LedgerInv
<1>2. \A o \in Owners : rest[o] \in Nat /\ both[o] \in Nat /\ committed[o] = rest[o] + both[o]
  BY <1>1
<1>3. \A o \in Owners : keep[o] \in Nat /\ paid[o] \in Nat /\ both[o] = keep[o] + paid[o]
  BY Zenon, <1>1
<1> HIDE DEF both
<1>4. Sum(committed) = Sum(rest) + Sum(both)
  BY <1>2, OwnersSum, SumPlus DEF Sum
<1>5. Sum(both) = Sum(keep) + Sum(paid)
  BY <1>3, OwnersSum, SumPlus DEF Sum
<1>6. Sum(rest) \in Nat /\ Sum(keep) \in Nat /\ Sum(paid) \in Nat
  BY Zenon, <1>2, <1>3, OwnersSum, SumType DEF Sum
<1> QED BY <1>1, <1>4, <1>5, <1>6

\* The refunds paid so far leave every share in the campaign.
LEMMA KeptShares ==
  ASSUME SettledInv, phase # REFUND_ONLY
  PROVE  /\ \A o \in Owners : Shares[o] + paid[o] <= committed[o]
         /\ Sum(Shares) \in Nat /\ refunded <= total - Sum(Shares)
<1> USE DEF ABSENT, FUNDING, CLOSED, REFUND_ONLY, LIVE
<1>1. /\ Shares \in [Owners -> Nat]
      /\ \A o \in Owners : /\ Shares[o] = AcceptedOf(o) /\ Shares[o] <= committed[o]
                           /\ committed[o] \in Nat
  BY Zenon, SharesSum, ShareBounds DEF SettledInv, Shares
<1>2. \A o \in Owners : paid[o] \in Nat
  BY Zenon DEF SettledInv, TypeOK
<1>3. \A o \in Owners : Shares[o] + paid[o] <= committed[o]
  <2>1. CASE phase \in {CLOSED, LIVE}
    BY <1>1, <1>2, <2>1 DEF SettledInv, PaidInv
  <2>2. CASE phase \in {ABSENT, FUNDING}
    BY <1>1, <1>2, <2>2 DEF SettledInv, PhaseInv, Zero
  <2> QED BY Zenon, <2>1, <2>2 DEF SettledInv, TypeOK, Phases
<1> DEFINE rest == [o \in Owners |-> committed[o] - Shares[o] - paid[o]]
<1>4. \A o \in Owners : rest[o] = committed[o] - Shares[o] - paid[o]
  OBVIOUS
<1> HIDE DEF rest
<1>5. Sum(rest) \in Nat /\ Sum(Shares) \in Nat /\ Sum(rest) = total - Sum(Shares) - refunded
  BY Zenon, <1>1, <1>3, <1>4, Outstanding
<1> QED BY <1>3, <1>5 DEF SettledInv, TypeOK

\* The settled amounts never exceed the shares.
LEMMA SettledBelowShares ==
  ASSUME SettledInv
  PROVE  /\ \A o \in Owners : accepted[o] \in Nat /\ accepted[o] <= Shares[o]
         /\ settledAccepted <= Sum(Shares)
<1>1. accepted \in [Owners -> Nat] /\ Shares \in [Owners -> Nat]
  BY Zenon, SharesSum DEF SettledInv, TypeOK
<1>2. \A o \in Owners : accepted[o] <= Shares[o]
  <2> TAKE o \in Owners
  <2>1. AcceptedOf(o) \in Nat /\ Shares[o] = AcceptedOf(o)
    BY Zenon, ShareBounds DEF SettledInv, Shares
  <2> QED BY <1>1, <2>1 DEF SettledInv, SettleInv
<1>3. Sum(accepted) <= Sum(Shares)
  BY Zenon, <1>1, <1>2, OwnersSum
<1> QED BY Zenon, <1>1, <1>2, <1>3 DEF SettledInv, SettleInv

\* The balances the solvency lemmas compute with.
LEMMA BalanceTypes ==
  ASSUME SettledInv
  PROVE  /\ lamports \in Nat /\ total \in Nat /\ refunded \in Nat /\ pool \in Nat
         /\ donated \in Nat /\ settledAccepted \in Nat
         /\ lamports + refunded + pool = total + donated
BY Zenon DEF SettledInv, TypeOK, LedgerInv

\* Under SettledInv the lamports cover every refund still owed.
LEMMA RefundsCoveredInd == ASSUME SettledInv PROVE SettledRefundsCovered
<1> USE DEF ABSENT, FUNDING, CLOSED, REFUND_ONLY, LIVE
<1> SUFFICES ASSUME AfterDeadline
             PROVE  /\ \A o \in Owners : paid[o] <= Entitled(o)
                    /\ Sum([o \in Owners |-> Entitled(o) - paid[o]]) <= lamports
  BY Zenon DEF SettledRefundsCovered
<1> DEFINE rest == [o \in Owners |-> Entitled(o) - paid[o]]
<1>t. \A o \in Owners : committed[o] \in Nat /\ paid[o] \in Nat
  BY Zenon DEF SettledInv, TypeOK
<1>1. CASE Failed
  <2>1. \A o \in Owners : Entitled(o) = committed[o]
    BY Zenon, <1>1 DEF Entitled, Refundable
  <2>2. \A o \in Owners : Zero[o] + paid[o] <= committed[o] /\ Zero[o] = 0
    BY <1>t DEF SettledInv, PaidInv, Zero
  <2>3. \A o \in Owners : rest[o] = committed[o] - Zero[o] - paid[o]
    BY <1>t, <2>1 DEF Zero
  <2>4. Zero \in [Owners -> Nat] /\ Sum(Zero) = 0
    BY Zenon, ZeroSum DEF Zero
  <2> HIDE DEF rest
  <2>5. Sum(rest) = total - Sum(Zero) - refunded
    BY Zenon, <2>2, <2>3, <2>4, Outstanding
  <2>6. pool = 0
    BY Zenon, <1>1, LiveNotFailed DEF SettledInv, PhaseInv
  <2>7. Sum(rest) <= lamports
    BY <2>4, <2>5, <2>6, BalanceTypes
  <2> QED BY <1>t, <2>1, <2>2, <2>7 DEF rest
<1>2. CASE ~Failed
  <2>0. phase # REFUND_ONLY
    BY Zenon, <1>2 DEF Failed, LaunchFailed
  <2>1. \A o \in Owners : Entitled(o) = committed[o] - Shares[o]
    BY Zenon, <1>2 DEF Entitled, Refundable, Shares, AcceptedOf
  <2>2. /\ Shares \in [Owners -> Nat] /\ Sum(Shares) \in Nat
        /\ \A o \in Owners : Shares[o] + paid[o] <= committed[o]
    BY Zenon, <2>0, KeptShares, SharesSum DEF SettledInv
  <2>3. \A o \in Owners : rest[o] = committed[o] - Shares[o] - paid[o]
    BY Zenon, <2>1
  <2> HIDE DEF rest
  <2>4. Sum(rest) = total - Sum(Shares) - refunded /\ Sum(rest) \in Nat
    BY Zenon, <2>2, <2>3, Outstanding
  <2>5. pool <= Sum(Shares)
    <3>1. CASE phase = LIVE
      BY Zenon, <3>1, SettledBelowShares DEF SettledInv, PhaseInv
    <3>2. CASE phase # LIVE
      BY <2>2, <3>2 DEF SettledInv, PhaseInv
    <3> QED BY Zenon, <3>1, <3>2
  <2>6. Sum(rest) <= lamports
    BY <2>2, <2>4, <2>5, BalanceTypes
  <2>7. \A o \in Owners : paid[o] <= Entitled(o)
    BY <1>t, <2>1, <2>2
  <2> QED BY Zenon, <2>6, <2>7 DEF rest
<1> QED BY Zenon, <1>1, <1>2

\* Under SettledInv a ready campaign has the funds of its launch.
LEMMA LaunchFundedInd == ASSUME SettledInv PROVE SettledLaunchFunded
<1> SUFFICES ASSUME Ready PROVE LaunchFundsOK
  BY Zenon DEF SettledLaunchFunded
<1>1. phase # REFUND_ONLY /\ pool = 0
  BY Zenon DEF Ready, InLaunchWindow, SettledInv, PhaseInv, FUNDING, CLOSED, REFUND_ONLY, LIVE
<1>2. refunded <= total - Sum(Shares) /\ Sum(Shares) \in Nat
  BY Zenon, <1>1, KeptShares
<1> QED BY <1>1, <1>2, SettledBelowShares, BalanceTypes DEF LaunchFundsOK, Liability

\* Under SettledInv no receipt's settlement fails its checks: settling one more
\* keeps the count below the receipts and the sum below all shares.
LEMMA NeverRefusedInd == ASSUME SettledInv PROVE SettleNeverRefused
<1> SUFFICES ASSUME NEW o \in Owners, Settleable(o) PROVE SettleOK(o)
  BY Zenon DEF SettleNeverRefused
<1>t. /\ committed \in [Owners -> Nat] /\ accepted \in [Owners -> Nat]
      /\ settled \in [Owners -> BOOLEAN] /\ ~settled[o] /\ committed[o] > 0
      /\ total \in Nat /\ hard \in Nat
  BY DEF SettledInv, TypeOK, Settleable, Fresh
<1>1. settledCount + 1 <= receiptCount
  <2> DEFINE more == [x \in Owners |-> IF x = o THEN 1 ELSE Settled01[x]]
  <2>1. /\ Settled01 \in [Owners -> Nat] /\ HasReceipt \in [Owners -> Nat]
        /\ Settled01[o] = 0 /\ more \in [Owners -> Nat] /\ more[o] = 1
        /\ \A x \in Owners \ {o} : more[x] = Settled01[x]
    BY Zenon, <1>t DEF Settled01, HasReceipt
  <2>2. \A x \in Owners : more[x] <= HasReceipt[x]
    BY <1>t DEF Settled01, HasReceipt, SettledInv, SettleInv
  <2> HIDE DEF more
  <2>3. Sum(more) = Sum(Settled01) - Settled01[o] + more[o] /\ Sum(Settled01) \in Nat
    BY Zenon, <2>1, OwnersSum
  <2>4. Sum(more) <= Sum(HasReceipt)
    BY Zenon, <2>1, <2>2, OwnersSum
  <2>5. settledCount = Sum(Settled01) /\ receiptCount = Sum(HasReceipt)
    BY Zenon DEF SettledInv, SettleInv, LedgerInv
  <2> QED BY <2>1, <2>3, <2>4, <2>5
<1>2. settledAccepted + AcceptedOf(o) <= Least(total, hard)
  <2> DEFINE more == [x \in Owners |-> IF x = o THEN AcceptedOf(o) ELSE accepted[x]]
  <2>1. AcceptedOf(o) \in Nat /\ accepted[o] = 0 /\ Shares \in [Owners -> Nat]
        /\ Shares[o] = AcceptedOf(o)
    BY Zenon, <1>t, ShareBounds, SharesSum DEF SettledInv, SettleInv, Shares
  <2>2. /\ more \in [Owners -> Nat] /\ more[o] = AcceptedOf(o)
        /\ \A x \in Owners \ {o} : more[x] = accepted[x]
    BY Zenon, <1>t, <2>1
  <2> HIDE DEF more
  <2>3. \A x \in Owners : more[x] <= Shares[x]
    BY <2>1, <2>2, SettledBelowShares
  <2>4. Sum(more) = Sum(accepted) - accepted[o] + more[o] /\ Sum(accepted) \in Nat
    BY Zenon, <1>t, <2>2, OwnersSum
  <2>5. Sum(more) <= Sum(Shares)
    BY Zenon, <2>1, <2>2, <2>3, OwnersSum
  <2>6. Sum(Shares) <= Least(total, hard) /\ Sum(Shares) \in Nat /\ Least(total, hard) \in Nat
    BY Zenon, <1>t, SharesSum DEF SettledInv, Least
  <2> QED BY <2>1, <2>2, <2>4, <2>5, <2>6 DEF SettledInv, SettleInv
<1> QED BY Zenon, <1>1, <1>2 DEF SettleOK

\* Under SettledInv the shares stay as settled.
LEMMA SharesKeptInd == ASSUME SettledInv PROVE SettledSharesKept
<1>1. \A o \in Owners : settled[o] => accepted[o] = AcceptedOf(o)
  BY Zenon DEF SettledInv, SettleInv
<1>2. ASSUME phase = LIVE, NEW o \in Owners
      PROVE  settled[o] = ~Fresh(o) /\ paid[o] + accepted[o] <= committed[o]
  <2>1. settled[o] = ~Fresh(o) /\ accepted[o] = AcceptedOf(o)
    BY Zenon, <1>2, AllSettled DEF SettledInv, PhaseInv
  <2>2. paid[o] + AcceptedOf(o) <= committed[o]
    BY Zenon, <1>2 DEF SettledInv, PaidInv
  <2> QED BY Zenon, <2>1, <2>2
<1> QED BY Zenon, <1>1, <1>2 DEF SettledSharesKept

\* The tokens of all receipts together fit the participants' reserve.
LEMMA TokensFit ==
  ASSUME SettledInv, phase = LIVE, NEW q, \A o \in Owners : q[o] = Tokens(o)
  PROVE  /\ \A o \in Owners : Tokens(o) \in Nat /\ accepted[o] <= settledAccepted
         /\ Sum(q) \in Nat /\ Sum(q) <= Split.participants
<1> DEFINE P == Split.participants
           T == settledAccepted
           n == [o \in Owners |-> 1]
<1>1. P \in Nat /\ T \in Nat \ {0} /\ \A o \in Owners : Tokens(o) \in Nat
  BY Zenon, ConstantTypes, Computed
<1>2. accepted \in [Owners -> Nat] /\ T = Sum(accepted)
  BY Zenon DEF SettledInv, TypeOK, SettleInv
<1>3. \A o \in Owners : accepted[o] <= T
  BY Zenon, <1>2, OwnersSum
<1>4. \A o \in Owners : Tokens(o) = (P * accepted[o]) \div T
  BY Zenon DEF Tokens, ParticipantTokens
<1> HIDE DEF P, T
<1>5. \A o \in Owners : /\ accepted[o] \in Nat /\ q[o] \in Nat /\ n[o] \in Nat
                        /\ q[o] * T <= accepted[o] * P
                        /\ accepted[o] * P <= q[o] * T + n[o] * T
  <2> TAKE o \in Owners
  <2> DEFINE a == accepted[o]
             m == P * a
  <2>1. a \in Nat /\ m \in Nat /\ m = a * P
    BY <1>1, <1>2, MulNat
  <2> HIDE DEF a, m
  <2>2. m \div T \in Nat /\ (m \div T) * T <= m /\ m <= (m \div T) * T + (T - 1)
    BY Zenon, <1>1, <2>1, DivBounds
  <2>3. q[o] = m \div T
    BY Zenon, <1>4 DEF m, a
  <2>4. n[o] = 1 /\ n[o] * T = T
    BY <1>1
  <2>5. q[o] * T \in Nat
    BY Zenon, <1>1, <2>2, <2>3, MulNat
  <2>6. q[o] * T <= m /\ m <= q[o] * T + n[o] * T
    BY <1>1, <2>1, <2>2, <2>3, <2>4, <2>5
  <2> QED BY Zenon, <2>1, <2>2, <2>3, <2>4, <2>6 DEF a
<1> HIDE DEF n
<1>6. Sum(q) * T <= Sum(accepted) * P
  <2>1. T \in Nat
    BY Zenon, <1>1
  <2> QED BY Zenon, <1>1, <1>5, <2>1, OwnersSum, SumFloor DEF Sum
<1>7. Sum(q) \in Nat
  BY Zenon, <1>5, OwnersSum, SumType DEF Sum
<1>8. Sum(q) <= P
  <2>1. Sum(q) * T <= P * T
    BY <1>1, <1>2, <1>6, <1>7
  <2> QED BY Zenon, <1>1, <1>7, <2>1, MulCancel
<1> QED BY Zenon, <1>1, <1>3, <1>7, <1>8 DEF P, T

\* Under SettledInv every claim of a live campaign goes through.
LEMMA ClaimsCoveredInd == ASSUME SettledInv PROVE SettledClaimsCovered
<1> USE DEF ABSENT, FUNDING, CLOSED, REFUND_ONLY, LIVE
<1> SUFFICES ASSUME phase = LIVE
             PROVE  /\ \A o \in Owners : ~Fresh(o) /\ ~claimed[o] => ClaimOK(o)
                    /\ DevClaimOK
                    /\ Sum([o \in Owners |-> IF claimed[o] \/ Fresh(o) THEN 0 ELSE Tokens(o)])
                         + (Split.dev - devClaimed) <= custody
  BY Zenon DEF SettledClaimsCovered
<1> DEFINE q == [o \in Owners |-> Tokens(o)]
           open == [o \in Owners |-> IF claimed[o] \/ Fresh(o) THEN 0 ELSE Tokens(o)]
           both == [o \in Owners |-> claimedTokens[o] + open[o]]
<1>0. \A o \in Owners : q[o] = Tokens(o)
  OBVIOUS
<1>1. /\ settledAccepted \in Nat \ {0}
      /\ \A o \in Owners : Tokens(o) \in Nat /\ accepted[o] <= settledAccepted
  BY Zenon, <1>0, TokensFit, Computed
<1>2. q \in [Owners -> Nat] /\ open \in [Owners -> Nat]
  BY Zenon, <1>1
<1>3. \A o \in Owners : /\ claimedTokens[o] \in Nat /\ open[o] \in Nat
                        /\ claimedTokens[o] + open[o] <= q[o]
                        /\ ~claimed[o] /\ ~Fresh(o) => open[o] = Tokens(o)
  BY <1>1 DEF SettledInv, ClaimInv
<1>4. Sum(q) \in Nat /\ Sum(q) <= Split.participants
  <2> HIDE DEF q
  <2> QED BY Zenon, <1>0, TokensFit
<1> HIDE DEF q, open
<1>5. both \in [Owners -> Nat] /\ \A o \in Owners : both[o] = claimedTokens[o] + open[o] /\ both[o] <= q[o]
  BY <1>3
<1> HIDE DEF both
<1>6. Sum(both) = Sum(claimedTokens) + Sum(open) /\ Sum(open) \in Nat
  BY <1>2, <1>3, <1>5, OwnersSum, SumPlus DEF Sum
<1>7. Sum(both) <= Sum(q)
  BY Zenon, <1>2, <1>5, OwnersSum
<1>8. /\ participantClaimed = Sum(claimedTokens) /\ participantClaimed \in Nat
      /\ custody \in Nat /\ devClaimed \in Nat
      /\ custody + participantClaimed + devClaimed = Supply - Split.liquidity
      /\ devClaimed <= DevEntitledNow
      /\ launchTime > 0 /\ now >= launchTime
  BY DEF SettledInv, ClaimInv, PhaseInv, TermsInv, TypeOK, Exists
<1>9. /\ Split.participants \in Nat /\ Split.dev \in Nat /\ Split.liquidity \in Nat /\ Supply \in Nat
      /\ DevEntitledNow \in Nat /\ DevEntitledNow <= Split.dev
      /\ Split.participants + Split.dev <= Supply - Split.liquidity
  BY Zenon, ConstantTypes, Computed
<1>10. participantClaimed + Sum(open) <= Split.participants
  BY <1>4, <1>6, <1>7, <1>8, <1>9
<1>11. Sum(open) + (Split.dev - devClaimed) <= custody
  BY <1>6, <1>8, <1>9, <1>10
<1>12. DevClaimOK
  BY <1>6, <1>8, <1>9, <1>11 DEF DevClaimOK
<1>13. ASSUME NEW o \in Owners, ~Fresh(o), ~claimed[o] PROVE ClaimOK(o)
  <2>1. Tokens(o) <= Sum(open) /\ Tokens(o) \in Nat
    BY Zenon, <1>1, <1>2, <1>3, <1>13, OwnersSum
  <2> QED BY <1>1, <1>6, <1>8, <1>9, <1>10, <1>11, <2>1 DEF ClaimOK, ParticipantTokensDefined
<1> QED BY Zenon, <1>11, <1>12, <1>13 DEF open

\* No step revises a decision, a commitment after the deadline or a settlement.
LEMMA FinalStep ==
  ASSUME SettledInv, [Next]_vars
  PROVE  [SettledFinal]_vars
<1> USE DEF termVars, fundVars, refundVars, settleVars, claimVars, launchVars,
            ABSENT, FUNDING, CLOSED, REFUND_ONLY, LIVE
<1> SUFFICES ASSUME Next PROVE SettledFinal
  OBVIOUS
<1>0. CASE UNCHANGED <<phase, fundVars, settleVars>>
  BY Zenon, <1>0 DEF SettledFinal
<1>1. ASSUME NEW t \in OfferedTerms, Create(t) PROVE SettledFinal
  BY Zenon, <1>1 DEF Create, SettledFinal
<1>2. ASSUME NEW o \in Owners, NEW a \in Amounts, NEW q, Commit(o, a, q) PROVE SettledFinal
  BY <1>2 DEF Commit, FundingOpen, AfterDeadline, SettledFinal, SettledInv, TypeOK
<1>3. ASSUME Finalize PROVE SettledFinal
  BY Zenon, <1>3 DEF Finalize, SettledFinal
<1>4. ASSUME NEW o \in Owners, Settle(o) PROVE SettledFinal
  BY Zenon, <1>4 DEF Settle, Settleable, SettledFinal, SettledInv, TypeOK
<1>5. ASSUME NEW o \in Owners, Refund(o) PROVE SettledFinal
  <2>1. phase = LIVE => ~Failed
    BY Zenon, LiveNotFailed
  <2> QED BY Zenon, <1>5, <2>1 DEF Refund, Failed, LaunchFailed, SettledFinal
<1>6. ASSUME Launch PROVE SettledFinal
  BY Zenon, <1>6 DEF Launch, Ready, InLaunchWindow, SettledFinal
<1> QED
  BY Zenon, <1>0, <1>1, <1>2, <1>3, <1>4, <1>5, <1>6
  DEF Next, ClaimParticipant, ClaimDev, Donate, Tick

-----------------------------------------------------------------------------
\* Every settled campaign is solvent: the books balance, every settlement, refund,
\* claim and launch goes through, and the shares stay as settled, in whatever
\* order the owners, the keeper and the clock act.
THEOREM SolventAlways == Spec => []SettledSolvent
<1>1. SettledInv => SettledBooks
  BY Zenon DEF SettledInv, LedgerInv, SettleInv, SettledBooks
<1>2. SettledInv => SettledSolvent
  BY Zenon, <1>1, RefundsCoveredInd, LaunchFundedInd, NeverRefusedInd, SharesKeptInd, ClaimsCoveredInd
  DEF SettledSolvent
<1> QED BY <1>2, SettledInductive, PTL

\* A launched or failed campaign stays so, nothing is committed after the deadline
\* and a settled receipt is never settled again (finalize, refund, settle).
THEOREM SettledStaysFinal == Spec => [][SettledFinal]_vars
<1>1. SettledInv /\ [Next]_vars => [SettledFinal]_vars
  BY Zenon, FinalStep
<1> QED BY <1>1, SettledInductive, PTL DEF Spec
=============================================================================
