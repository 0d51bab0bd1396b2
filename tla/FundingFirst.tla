---------------------------- MODULE FundingFirst ----------------------------
(***************************************************************************)
(* One campaign of the funding-first accounting (version 2 of              *)
(* kids-launch-v3/src/funding_first.rs): participants commit lamports,     *)
(* anybody closes the round after the deadline, refunds receipts, accounts *)
(* them, launches inside the window, pays token claims and returns the     *)
(* rounding collateral.  Every handler is one on-chain instruction, hence  *)
(* one atomic step; the order in which anybody sends them is free.         *)
(*                                                                         *)
(* Account identities, signatures, hashes and byte layouts are left out:   *)
(* a step stands for an instruction whose accounts are the right ones.     *)
(* A refused instruction changes nothing and is a stuttering step.         *)
(* Lamports of the campaign are counted above its rent.                    *)
(***************************************************************************)
EXTENDS LaunchPolicy, FiniteSets, Functions

CONSTANTS
  Owners,              \* the wallets that may hold a receipt
  Amounts,             \* the amounts a commit may carry
  OfferedTerms,        \* the terms a creation body may carry
  MAX_RECEIPTS_V2, MIN_COMMIT_V2, SOFT_FLOOR_V2, COLLATERAL_V2,
  Supply,              \* STANDARD_V3_SUPPLY
  OpensAtTolerance, MaxSchedule, MaxWindow,  \* time limits of the terms
  VestingSpan,         \* length of the vesting months
  LaunchCost,          \* what the launch spends of the setup lamports
  MaxCommits, MaxDonation, MaxSetup, MaxTime   \* bounds of the model

ASSUME FundingFirstConstants ==
  /\ IsFiniteSet(Owners)
  /\ Amounts \subseteq Nat
  /\ \A t \in OfferedTerms : /\ DOMAIN t = {"soft", "hard", "opensAt", "funding", "window"}
                             /\ \A f \in DOMAIN t : t[f] \in Nat
  /\ MAX_RECEIPTS_V2 \in Nat \ {0}
  /\ MIN_COMMIT_V2 \in Nat \ {0}
  /\ SOFT_FLOOR_V2 = 100 * MAX_RECEIPTS_V2
  /\ COLLATERAL_V2 = MAX_RECEIPTS_V2
  /\ Supply \in Nat /\ Supply >= BpsDenominator
  /\ OpensAtTolerance \in Nat /\ MaxSchedule \in Nat /\ MaxWindow \in Nat
  /\ VestingSpan \in Nat \ {0}
  /\ LaunchCost \in Nat
  /\ MaxCommits \in Nat /\ MaxDonation \in Nat /\ MaxSetup \in Nat /\ MaxTime \in Nat

VARIABLES
  now,                 \* Clock::unix_timestamp, monotone
  \* the campaign record
  phase, soft, hard, opensAt, deadline, launchDeadline,
  total, refunded, receiptCount, participantClaimed, devClaimed, launchTime,
  \* the receipts, one per owner; a receipt exists when something is committed
  committed, paid, sequence, accounted, claimed, claimedAccepted, claimedTokens,
  \* the extension account
  sealed, sealedReceipts, sealedTotal, acceptedTarget,
  accountedCount, accountedAccepted, collateralReturned, claimsPaid,
  \* the accounts the instructions move money and tokens between
  lamports, setup, pool, custody, donated

termVars    == <<soft, hard, opensAt, deadline, launchDeadline>>
fundVars    == <<total, receiptCount, committed, sequence>>
refundVars  == <<refunded, paid>>
sealVars    == <<sealed, sealedReceipts, sealedTotal, acceptedTarget>>
accountVars == <<accountedCount, accountedAccepted, accounted>>
claimVars   == <<participantClaimed, claimed, claimedAccepted, claimedTokens, claimsPaid>>
launchVars  == <<launchTime, pool>>
vars == <<now, phase, termVars, fundVars, refundVars, sealVars, accountVars, claimVars,
          launchVars, devClaimed, collateralReturned, lamports, setup, custody, donated>>

-----------------------------------------------------------------------------
Split == SplitOf(Supply, SPLIT_STANDARD_V3)

Zero == [o \in Owners |-> 0]

Init ==
  /\ now = 0 /\ phase = ABSENT
  /\ soft = 0 /\ hard = 0 /\ opensAt = 0 /\ deadline = 0 /\ launchDeadline = 0
  /\ total = 0 /\ refunded = 0 /\ receiptCount = 0
  /\ participantClaimed = 0 /\ devClaimed = 0 /\ launchTime = 0
  /\ committed = Zero /\ paid = Zero /\ sequence = Zero
  /\ accounted = [o \in Owners |-> FALSE] /\ claimed = [o \in Owners |-> FALSE]
  /\ claimedAccepted = Zero /\ claimedTokens = Zero
  /\ sealed = FALSE /\ sealedReceipts = 0 /\ sealedTotal = 0 /\ acceptedTarget = 0
  /\ accountedCount = 0 /\ accountedAccepted = 0 /\ collateralReturned = 0 /\ claimsPaid = 0
  /\ lamports = 0 /\ setup = 0 /\ pool = 0 /\ custody = 0 /\ donated = 0

-----------------------------------------------------------------------------
(* Opening (tag 41): the compact terms are expanded and validated, the     *)
(* record is written, the creator pays the rounding collateral.            *)

ScheduleValid(t) ==
  /\ t.opensAt > 0 /\ t.funding > 0 /\ t.window > 0
  /\ t.funding <= MaxWindow /\ t.window <= MaxWindow
  /\ t.opensAt <= now + MaxSchedule /\ t.opensAt + OpensAtTolerance >= now

\* Both bounds together: soft floor and the margin between the caps.
CapsValid(t) ==
  t.soft > 0 /\ t.soft >= SOFT_FLOOR_V2 /\ t.hard >= LeastHardCap(t.soft)

OpenFunding(t) ==
  /\ phase = ABSENT
  /\ ScheduleValid(t) /\ CapsValid(t)
  /\ phase' = FUNDING
  /\ soft' = t.soft /\ hard' = t.hard
  /\ opensAt' = t.opensAt
  /\ deadline' = t.opensAt + t.funding
  /\ launchDeadline' = t.opensAt + t.funding + t.window
  /\ lamports' = lamports + COLLATERAL_V2
  /\ UNCHANGED <<now, fundVars, refundVars, sealVars, accountVars, claimVars, launchVars,
                 devClaimed, collateralReturned, setup, custody, donated>>

-----------------------------------------------------------------------------
(* Commit (tag 1 behind the version-2 limits).  The instruction names the  *)
(* receipt's next sequence number; a top-up is not limited.                *)

Fresh(o) == committed[o] = 0

CommitLimits(o, amount) ==
  Fresh(o) => amount >= MIN_COMMIT_V2 /\ receiptCount < MAX_RECEIPTS_V2

Commit(o, amount, seq) ==
  /\ FundingOpen(phase, opensAt, deadline, now)
  /\ amount > 0 /\ CommitLimits(o, amount)
  /\ seq = sequence[o] /\ sequence[o] < MaxCommits
  /\ total' = total + amount
  /\ receiptCount' = IF Fresh(o) THEN receiptCount + 1 ELSE receiptCount
  /\ committed' = [committed EXCEPT ![o] = committed[o] + amount]
  /\ sequence' = [sequence EXCEPT ![o] = sequence[o] + 1]
  /\ lamports' = lamports + amount
  /\ UNCHANGED <<now, phase, termVars, refundVars, sealVars, accountVars, claimVars, launchVars,
                 devClaimed, collateralReturned, setup, custody, donated>>

-----------------------------------------------------------------------------
(* Sealing: the totals are written once; later they must agree.            *)

SealTotals ==
  /\ receiptCount <= MAX_RECEIPTS_V2
  /\ sealed => /\ sealedReceipts = receiptCount /\ sealedTotal = total
               /\ acceptedTarget = Least(total, hard)
  /\ sealed' = TRUE
  /\ sealedReceipts' = receiptCount
  /\ sealedTotal' = total
  /\ acceptedTarget' = Least(total, hard)

Failed == LaunchFailed(phase, total, soft, launchDeadline, now)

Exists == phase # ABSENT
AfterDeadline == Exists /\ now >= deadline

(* Close (tag 45), permissionless.                                         *)
CloseV2 ==
  /\ AfterDeadline
  /\ IF phase = LIVE THEN UNCHANGED <<phase, sealVars>>
     ELSE IF Failed THEN phase' = REFUND_ONLY /\ UNCHANGED sealVars
     ELSE phase' = CLOSED /\ SealTotals
  /\ UNCHANGED <<now, termVars, fundVars, refundVars, accountVars, claimVars, launchVars,
                 devClaimed, collateralReturned, lamports, setup, custody, donated>>

Entitled(o) == Refundable(committed[o], total, hard, Failed)

PaidNotRecorded(o) == paid

PaidAfter(o) == [paid EXCEPT ![o] = Entitled(o)]

RefundV2(o) ==
  LET amount == Entitled(o) - paid[o] IN
  /\ AfterDeadline /\ ~Fresh(o)
  /\ IF Failed THEN phase' = REFUND_ONLY /\ UNCHANGED sealVars
     ELSE IF phase = FUNDING THEN phase' = CLOSED /\ SealTotals
     ELSE UNCHANGED <<phase, sealVars>>
  /\ amount >= 0 /\ lamports >= amount
  /\ lamports' = lamports - amount
  /\ refunded' = refunded + amount
  /\ paid' = PaidAfter(o)
  /\ UNCHANGED <<now, termVars, fundVars, accountVars, claimVars, launchVars,
                 devClaimed, collateralReturned, setup, custody, donated>>

-----------------------------------------------------------------------------
(* Accounting (tag 46): each receipt once, after the totals are sealed.    *)
AcceptedOf(o) == Accepted(committed[o], sealedTotal, hard)

Accountable(o) == ~Fresh(o) /\ ~accounted[o]

AccountV2(o) ==
  /\ sealed /\ phase \in {CLOSED, LIVE}
  /\ Accountable(o)
  /\ accountedCount + 1 <= sealedReceipts
  /\ accountedCount' = accountedCount + 1
  /\ accountedAccepted' = accountedAccepted + AcceptedOf(o)
  /\ accounted' = [accounted EXCEPT ![o] = TRUE]
  /\ UNCHANGED <<now, phase, termVars, fundVars, refundVars, sealVars, claimVars, launchVars,
                 devClaimed, collateralReturned, lamports, setup, custody, donated>>

(* Collateral return (tag 47): all of it after a failure; in a live round  *)
(* what the accounted rounding dust leaves, once every receipt is          *)
(* accounted.                                                              *)
Dust == acceptedTarget - accountedAccepted

CollateralAllBack == COLLATERAL_V2

CollateralDue == IF phase = REFUND_ONLY THEN COLLATERAL_V2 ELSE COLLATERAL_V2 - Dust

\* The balance the return must leave: the unpaid commitments of a failed round.
CollateralFloor == IF phase = REFUND_ONLY THEN total - refunded ELSE 0

ReturnCollateralV2 ==
  /\ collateralReturned = 0
  /\ \/ phase = REFUND_ONLY /\ total >= refunded
     \/ phase = LIVE /\ sealed /\ accountedCount = sealedReceipts /\ Dust >= 0
  /\ CollateralDue >= 0
  /\ collateralReturned' = CollateralDue
  /\ CollateralDue # 0 => lamports - CollateralDue >= CollateralFloor
  /\ lamports' = lamports - CollateralDue
  /\ UNCHANGED <<now, phase, termVars, fundVars, refundVars, sealVars, accountVars, claimVars,
                 launchVars, devClaimed, setup, custody, donated>>

-----------------------------------------------------------------------------
(* Launch (tag 42): the accepted target leaves for the pool, the unpaid    *)
(* excess and the collateral must stay.  The supply is minted into custody *)
(* and its liquidity share goes to the pool; the pool, lock and metadata   *)
(* programs are external and a failure of theirs undoes the instruction.   *)

ReadyV2 ==
  InLaunchWindow(phase, deadline, launchDeadline, now) /\ total >= soft

LiabilityWithoutCollateral == total - Least(total, hard) - refunded

LiabilityV2 == total - Least(total, hard) + COLLATERAL_V2 - refunded

\* The funds checks of the launch: nothing underflows, the liability stays.
LaunchFundsOK ==
  /\ receiptCount <= MAX_RECEIPTS_V2
  /\ LiabilityV2 >= 0
  /\ lamports - Least(total, hard) >= LiabilityV2

\* The launch authority pays the rents and fees of the created accounts.
SetupCovers == setup >= LaunchCost

LaunchFundingFirst ==
  /\ ReadyV2 /\ LaunchFundsOK /\ SetupCovers
  /\ SealTotals
  /\ phase' = LIVE
  /\ launchTime' = now
  /\ lamports' = lamports - Least(total, hard)
  /\ pool' = Least(total, hard)
  /\ setup' = setup - LaunchCost
  /\ custody' = Supply - Split.liquidity
  /\ UNCHANGED <<now, termVars, fundVars, refundVars, accountVars, claimVars,
                 devClaimed, collateralReturned, donated>>

-----------------------------------------------------------------------------
(* Claims of the child token from custody.                                 *)

AllocationRoundsUp(o) == CeilDiv(Split.participants * AcceptedOf(o), acceptedTarget)

AllocationQ(o) == (Split.participants * AcceptedOf(o)) \div acceptedTarget

\* The checks a participant's claim makes before the transfer.
ClaimOK(o) ==
  /\ acceptedTarget # 0 /\ AcceptedOf(o) <= acceptedTarget
  /\ participantClaimed + AllocationQ(o) <= Split.participants
  /\ custody >= AllocationQ(o)

(* Participant claim (tag 43), once per receipt.                           *)
ClaimV2(o) ==
  /\ phase = LIVE /\ sealed
  /\ ~Fresh(o) /\ ~claimed[o]
  /\ ClaimOK(o)
  /\ custody' = custody - AllocationQ(o)
  /\ claimsPaid' = claimsPaid + 1
  /\ participantClaimed' = participantClaimed + AllocationQ(o)
  /\ claimed' = [claimed EXCEPT ![o] = TRUE]
  /\ claimedAccepted' = [claimedAccepted EXCEPT ![o] = AcceptedOf(o)]
  /\ claimedTokens' = [claimedTokens EXCEPT ![o] = AllocationQ(o)]
  /\ UNCHANGED <<now, phase, termVars, fundVars, refundVars, sealVars, accountVars, launchVars,
                 devClaimed, collateralReturned, lamports, setup, donated>>

(* Dev claim (tag 8): the vested entitlement less what was paid.           *)
DevEntitledNow ==
  DevEntitled(Supply, VESTING_STANDARD_V3, launchTime, launchTime + VestingSpan, now)

DevClaimOK ==
  /\ launchTime > 0 /\ now >= launchTime
  /\ DevEntitledNow <= Split.dev
  /\ DevEntitledNow >= devClaimed
  /\ custody >= DevEntitledNow - devClaimed

ClaimDev ==
  /\ phase = LIVE
  /\ DevClaimOK
  /\ custody' = custody - (DevEntitledNow - devClaimed)
  /\ devClaimed' = DevEntitledNow
  /\ UNCHANGED <<now, phase, termVars, fundVars, refundVars, sealVars, accountVars, claimVars,
                 launchVars, collateralReturned, lamports, setup, donated>>

(* Setup return (tag 27): all lamports of the launch authority go to the   *)
(* creator, once the round is decided.                                     *)
ReturnSetup ==
  /\ phase \in {LIVE, REFUND_ONLY}
  /\ setup' = 0
  /\ UNCHANGED <<now, phase, termVars, fundVars, refundVars, sealVars, accountVars, claimVars,
                 launchVars, devClaimed, collateralReturned, lamports, custody, donated>>

-----------------------------------------------------------------------------
(* The environment: anybody may send lamports to the campaign's public     *)
(* address (before it exists, too) or to its launch authority; time runs.  *)

Donate ==
  /\ donated < MaxDonation
  /\ donated' = donated + 1
  /\ lamports' = lamports + 1
  /\ UNCHANGED <<now, phase, termVars, fundVars, refundVars, sealVars, accountVars, claimVars,
                 launchVars, devClaimed, collateralReturned, setup, custody>>

FundSetup ==
  /\ setup < MaxSetup
  /\ setup' = setup + 1
  /\ UNCHANGED <<now, phase, termVars, fundVars, refundVars, sealVars, accountVars, claimVars,
                 launchVars, devClaimed, collateralReturned, lamports, custody, donated>>

Tick ==
  /\ now < MaxTime
  /\ now' = now + 1
  /\ UNCHANGED <<phase, termVars, fundVars, refundVars, sealVars, accountVars, claimVars,
                 launchVars, devClaimed, collateralReturned, lamports, setup, custody, donated>>

Next ==
  \/ \E t \in OfferedTerms : OpenFunding(t)
  \/ \E o \in Owners, amount \in Amounts, seq \in 0 .. MaxCommits : Commit(o, amount, seq)
  \/ CloseV2
  \/ \E o \in Owners : RefundV2(o)
  \/ \E o \in Owners : AccountV2(o)
  \/ ReturnCollateralV2
  \/ LaunchFundingFirst
  \/ \E o \in Owners : ClaimV2(o)
  \/ ClaimDev
  \/ ReturnSetup
  \/ Donate
  \/ FundSetup
  \/ Tick

Spec == Init /\ [][Next]_vars

-----------------------------------------------------------------------------
(* Properties.                                                             *)

Sum(f) == SumFunctionOnSet(f, Owners)

HasReceipt == [o \in Owners |-> IF committed[o] > 0 THEN 1 ELSE 0]
Shares     == [o \in Owners |-> Accepted(committed[o], total, hard)]

\* Every field of the campaign record, the receipts, the extension account
\* and the balances has the type its account layout gives it: no checked
\* subtraction of the handlers leaves a negative amount behind.
TypeOK ==
  /\ now \in Nat /\ phase \in Phases
  /\ soft \in Nat /\ hard \in Nat
  /\ opensAt \in Nat /\ deadline \in Nat /\ launchDeadline \in Nat
  /\ total \in Nat /\ refunded \in Nat /\ receiptCount \in Nat
  /\ participantClaimed \in Nat /\ devClaimed \in Nat /\ launchTime \in Nat
  /\ committed \in [Owners -> Nat] /\ paid \in [Owners -> Nat] /\ sequence \in [Owners -> Nat]
  /\ accounted \in [Owners -> BOOLEAN] /\ claimed \in [Owners -> BOOLEAN]
  /\ claimedAccepted \in [Owners -> Nat] /\ claimedTokens \in [Owners -> Nat]
  /\ sealed \in BOOLEAN
  /\ sealedReceipts \in Nat /\ sealedTotal \in Nat /\ acceptedTarget \in Nat
  /\ accountedCount \in Nat /\ accountedAccepted \in Nat
  /\ collateralReturned \in Nat /\ claimsPaid \in Nat
  /\ lamports \in Nat /\ setup \in Nat /\ pool \in Nat /\ custody \in Nat /\ donated \in Nat

\* The running totals of refund_v2, commit and launch agree with the receipts,
\* and every lamport that came in is in the campaign, refunded, in the pool or
\* returned as collateral.
BooksBalance ==
  /\ total = Sum(committed)
  /\ refunded = Sum(paid)
  /\ receiptCount = Sum(HasReceipt)
  /\ lamports + refunded + pool + collateralReturned
       = total + donated + (IF Exists THEN COLLATERAL_V2 ELSE 0)

\* After the deadline the campaign can pay every receipt what it may still take
\* back (refund_v2), all of them together, in every phase, before and after the
\* launch and the collateral return; no entitlement is ever overpaid.
RefundsCovered ==
  AfterDeadline => /\ \A o \in Owners : paid[o] <= Entitled(o)
                   /\ Sum([o \in Owners |-> Entitled(o) - paid[o]]) <= lamports

\* A ready campaign is never refused its launch for lack of funds: liability_v2
\* does not underflow and the balance covers pool and liability, whatever excess
\* refunds were paid before the launch.
LaunchNeverShort == ReadyV2 => LaunchFundsOK

\* What the pool took of a commitment and what went back to its owner never
\* exceed the commitment: launch_funding_first and refund_v2 never pay twice.
LaunchKeepsShares ==
  phase = LIVE => \A o \in Owners : paid[o] + AcceptedOf(o) <= committed[o]

\* Every receipt of a launched campaign can claim its tokens and the dev the
\* vested ones, in any order: claim_v2 and claim_dev never run out of reserve or
\* custody, and custody always holds all that is still unclaimed.
ClaimsCovered ==
  phase = LIVE =>
    /\ \A o \in Owners : ~Fresh(o) /\ ~claimed[o] => ClaimOK(o)
    /\ DevClaimOK
    /\ Sum([o \in Owners |-> IF claimed[o] THEN 0 ELSE AllocationQ(o)]) + (Split.dev - devClaimed)
         <= custody

\* The collateral can be returned when return_collateral_v2 says so: after a
\* failure all of it, in a live round a positive rest once every receipt is
\* accounted, because the rounding dust stays below the collateral.
CollateralReturnable ==
  /\ collateralReturned = 0
  /\ phase = REFUND_ONLY \/ (phase = LIVE /\ accountedCount = sealedReceipts)
  => /\ CollateralDue > 0
     /\ phase = REFUND_ONLY => total >= refunded
     /\ phase = LIVE => Dust >= 0
     /\ lamports - CollateralDue >= CollateralFloor

\* The margin between the caps absorbs the rounding (the comment on
\* SOFT_FLOOR_V2): a total that reached the soft cap is accepted to at least the
\* soft cap, receipt by receipt.
RoundingMargin ==
  Exists /\ total >= soft =>
    Sum(Shares) >= soft

\* A decided campaign stays decided and sealed totals never change (seal_totals,
\* close_v2): launched campaigns are never refunded in full, failed ones never
\* launch, and no commit moves the totals others were paid by.
Decided ==
  /\ phase \in {LIVE, REFUND_ONLY} => phase' = phase
  /\ sealed => UNCHANGED <<sealVars, total, receiptCount, committed>>
  /\ \A o \in Owners : paid[o] <= paid'[o] /\ (claimed[o] => claimedTokens'[o] = claimedTokens[o])
DecisionsAreFinal == [][Decided]_vars

-----------------------------------------------------------------------------
(* The inductive invariant behind the properties above.                    *)

TermsInv ==
  Exists => /\ CapsValid([soft |-> soft, hard |-> hard])
            /\ 0 < opensAt /\ opensAt < deadline /\ deadline < launchDeadline

LedgerInv ==
  /\ total = Sum(committed) /\ refunded = Sum(paid)
  /\ receiptCount = Sum(HasReceipt) /\ receiptCount <= MAX_RECEIPTS_V2
  /\ lamports + refunded + pool + collateralReturned
       = total + donated + (IF Exists THEN COLLATERAL_V2 ELSE 0)

PhaseInv ==
  /\ ~Exists => committed = Zero
  /\ phase \in {ABSENT, FUNDING} => ~sealed /\ paid = Zero
  /\ phase \in {CLOSED, REFUND_ONLY, LIVE} => now >= deadline
  /\ phase \in {CLOSED, LIVE} => sealed
  /\ phase # LIVE => pool = 0
  /\ phase = LIVE => /\ pool = Least(total, hard)
                     /\ deadline <= launchTime /\ launchTime <= now
  /\ sealed => /\ sealedTotal = total /\ sealedReceipts = receiptCount
               /\ acceptedTarget = Least(total, hard) /\ total >= soft

PaidInv ==
  /\ phase \in {CLOSED, LIVE} =>
       \A o \in Owners : paid[o] + Accepted(committed[o], total, hard) <= committed[o]
  /\ \A o \in Owners : paid[o] <= committed[o]

AccountedShares == [o \in Owners |-> IF accounted[o] THEN Accepted(committed[o], total, hard) ELSE 0]
Accounted01     == [o \in Owners |-> IF accounted[o] THEN 1 ELSE 0]

AccountInv ==
  /\ \A o \in Owners : accounted[o] => sealed /\ committed[o] > 0
  /\ accountedCount = Sum(Accounted01)
  /\ accountedAccepted = Sum(AccountedShares)

CollateralInv ==
  /\ phase \in {ABSENT, FUNDING, CLOSED} => collateralReturned = 0
  /\ phase = REFUND_ONLY => collateralReturned \in {0, COLLATERAL_V2}
  /\ phase = LIVE /\ collateralReturned # 0 =>
       accountedCount = sealedReceipts /\ collateralReturned = COLLATERAL_V2 - Dust

ClaimInv ==
  /\ phase # LIVE => custody = 0 /\ devClaimed = 0
  /\ \A o \in Owners : claimedTokens[o] = IF claimed[o] THEN AllocationQ(o) ELSE 0
  /\ \A o \in Owners : claimed[o] => phase = LIVE
  /\ participantClaimed = Sum(claimedTokens)
  /\ phase = LIVE => /\ custody + participantClaimed + devClaimed = Supply - Split.liquidity
                     /\ devClaimed <= DevEntitledNow

\* The conjunction of all of it is preserved by every instruction.
IndInv ==
  /\ TypeOK /\ TermsInv /\ LedgerInv /\ PhaseInv /\ PaidInv
  /\ AccountInv /\ CollateralInv /\ ClaimInv

-----------------------------------------------------------------------------

\* Every receipt is made whole: it ends with its whole commitment refunded, or
\* with its tokens claimed and its excess refunded.
Whole(o) ==
  \/ phase = REFUND_ONLY /\ paid[o] = committed[o]
  \/ phase = LIVE /\ claimed[o] /\ paid[o] + AcceptedOf(o) = committed[o]

=============================================================================
