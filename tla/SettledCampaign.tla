-------------------------- MODULE SettledCampaign ---------------------------
(***************************************************************************)
(* One campaign of the settled accounting (version 0): the handlers of     *)
(* kids-launch-v2/src/handlers.rs and the launch of launch.rs, which       *)
(* kids-launch-v3 runs unchanged for its version-0 records.  Here every    *)
(* receipt has to be settled before the launch, and the launch takes the   *)
(* sum of the settled amounts.  Steps, refusals and lamports are read as   *)
(* in FundingFirst; the rents the launch authority pays and their return   *)
(* are modelled there.                                                     *)
(***************************************************************************)
EXTENDS LaunchPolicy, FiniteSets, Functions

CONSTANTS
  Owners, Amounts, OfferedTerms,
  SplitBps, Vesting,           \* the sealed split policy and its vesting rule
  Supply, OpensAtTolerance, VestingSpan,
  MaxCommits, MaxDonation, MaxTime      \* bounds of the model

VARIABLES
  now,
  \* the campaign record
  phase, soft, hard, opensAt, deadline, launchDeadline,
  total, refunded, receiptCount, settledCount, settledAccepted,
  participantClaimed, devClaimed, launchTime,
  \* the receipts
  committed, paid, sequence, settled, accepted, claimed, claimedTokens,
  \* balances
  lamports, pool, custody, donated

\* The sealed policies (policy.rs): the split's shares sum to the denominator and
\* the vesting rule pays out the dev share; amounts and terms are naturals.
ASSUME SettledConstants ==
  /\ IsFiniteSet(Owners) /\ Amounts \subseteq Nat
  /\ Supply \in Nat /\ VestingSpan \in Nat \ {0}
  /\ \A r \in OfferedTerms \cup {SplitBps, Vesting} : \A f \in DOMAIN r : r[f] \in Nat
  /\ \A t \in OfferedTerms :
       DOMAIN t = {"soft", "hard", "opensAt", "deadline", "launchDeadline"}
  /\ DOMAIN SplitBps = {"participants", "liquidity", "parentA", "parentB", "dev"}
  /\ DOMAIN Vesting = {"instant", "linear"}
  /\ SplitBps.participants + SplitBps.liquidity + SplitBps.parentA + SplitBps.parentB
       + SplitBps.dev = BpsDenominator
  /\ Vesting.instant + Vesting.linear = SplitBps.dev

termVars   == <<soft, hard, opensAt, deadline, launchDeadline>>
fundVars   == <<total, receiptCount, committed, sequence>>
refundVars == <<refunded, paid>>
settleVars == <<settledCount, settledAccepted, settled, accepted>>
claimVars  == <<participantClaimed, claimed, claimedTokens, devClaimed, custody>>
launchVars == <<launchTime, pool>>
vars == <<now, phase, termVars, fundVars, refundVars, settleVars, claimVars, launchVars,
          lamports, donated>>

Split == SplitOf(Supply, SplitBps)

Zero == [o \in Owners |-> 0]
None == [o \in Owners |-> FALSE]

Init ==
  /\ now = 0 /\ phase = ABSENT
  /\ soft = 0 /\ hard = 0 /\ opensAt = 0 /\ deadline = 0 /\ launchDeadline = 0
  /\ total = 0 /\ refunded = 0 /\ receiptCount = 0 /\ settledCount = 0 /\ settledAccepted = 0
  /\ participantClaimed = 0 /\ devClaimed = 0 /\ launchTime = 0
  /\ committed = Zero /\ paid = Zero /\ sequence = Zero /\ settled = None /\ accepted = Zero
  /\ claimed = None /\ claimedTokens = Zero
  /\ lamports = 0 /\ pool = 0 /\ custody = 0 /\ donated = 0

-----------------------------------------------------------------------------
(* Creation (tag 0) and commit (tag 1).                                    *)

TermsValid(t) ==
  /\ t.opensAt + OpensAtTolerance >= now
  /\ t.deadline > t.opensAt /\ t.launchDeadline > t.deadline
  /\ t.soft > 0 /\ t.hard >= LeastHardCap(t.soft)

Create(t) ==
  /\ phase = ABSENT /\ TermsValid(t)
  /\ phase' = FUNDING
  /\ soft' = t.soft /\ hard' = t.hard
  /\ opensAt' = t.opensAt /\ deadline' = t.deadline /\ launchDeadline' = t.launchDeadline
  /\ UNCHANGED <<now, fundVars, refundVars, settleVars, claimVars, launchVars, lamports, donated>>

Fresh(o) == committed[o] = 0

Commit(o, amount, seq) ==
  /\ FundingOpen(phase, opensAt, deadline, now) /\ amount > 0
  /\ seq = sequence[o] /\ sequence[o] < MaxCommits
  /\ total' = total + amount
  /\ receiptCount' = IF Fresh(o) THEN receiptCount + 1 ELSE receiptCount
  /\ committed' = [committed EXCEPT ![o] = @ + amount]
  /\ sequence' = [sequence EXCEPT ![o] = @ + 1]
  /\ lamports' = lamports + amount
  /\ UNCHANGED <<now, phase, termVars, refundVars, settleVars, claimVars, launchVars, donated>>

-----------------------------------------------------------------------------
(* After the deadline: finalize (tag 2), settle (tag 4), refund (tag 3).   *)

Exists == phase # ABSENT
AfterDeadline == Exists /\ now >= deadline

Finalize ==
  LET closed == IF phase # FUNDING THEN phase ELSE IF total < soft THEN REFUND_ONLY ELSE CLOSED
  IN
  /\ AfterDeadline
  /\ phase' = IF now >= launchDeadline /\ closed # LIVE THEN REFUND_ONLY ELSE closed
  /\ UNCHANGED <<now, termVars, fundVars, refundVars, settleVars, claimVars, launchVars,
                 lamports, donated>>

AcceptedOf(o) == Accepted(committed[o], total, hard)

SettleTwice(o) == ~Fresh(o)

Settleable(o) == ~Fresh(o) /\ ~settled[o]

SettleOK(o) ==
  /\ settledCount + 1 <= receiptCount
  /\ settledAccepted + AcceptedOf(o) <= Least(total, hard)

Settle(o) ==
  /\ AfterDeadline /\ Settleable(o) /\ SettleOK(o)
  /\ settledCount' = settledCount + 1
  /\ settledAccepted' = settledAccepted + AcceptedOf(o)
  /\ settled' = [settled EXCEPT ![o] = TRUE]
  /\ accepted' = [accepted EXCEPT ![o] = AcceptedOf(o)]
  /\ UNCHANGED <<now, phase, termVars, fundVars, refundVars, claimVars, launchVars,
                 lamports, donated>>

Failed == LaunchFailed(phase, total, soft, launchDeadline, now)

Entitled(o) == Refundable(committed[o], total, hard, Failed)

PaidAfter(o) == [paid EXCEPT ![o] = Entitled(o)]

Refund(o) ==
  LET amount == Entitled(o) - paid[o] IN
  /\ AfterDeadline /\ ~Fresh(o)
  /\ phase' = IF Failed THEN REFUND_ONLY ELSE IF phase = FUNDING THEN CLOSED ELSE phase
  /\ amount >= 0 /\ lamports >= amount
  /\ lamports' = lamports - amount
  /\ refunded' = refunded + amount
  /\ paid' = PaidAfter(o)
  /\ UNCHANGED <<now, termVars, fundVars, settleVars, claimVars, launchVars, donated>>

-----------------------------------------------------------------------------

Ready ==
  /\ InLaunchWindow(phase, deadline, launchDeadline, now)
  /\ total >= soft /\ receiptCount > 0
  /\ settledCount = receiptCount /\ settledAccepted >= soft

\* The settled excess that is not paid yet stays in the campaign.
Liability == total - settledAccepted - refunded

LaunchFundsOK == Liability >= 0 /\ lamports - settledAccepted >= Liability

Launch ==
  /\ Ready /\ LaunchFundsOK
  /\ phase' = LIVE
  /\ launchTime' = now
  /\ lamports' = lamports - settledAccepted
  /\ pool' = settledAccepted
  /\ custody' = Supply - Split.liquidity
  /\ UNCHANGED <<now, termVars, fundVars, refundVars, settleVars, participantClaimed, claimed,
                 claimedTokens, devClaimed, donated>>

Tokens(o) == ParticipantTokens(Split.participants, accepted[o], settledAccepted)

ClaimOK(o) ==
  /\ ParticipantTokensDefined(accepted[o], settledAccepted)
  /\ participantClaimed + Tokens(o) <= Split.participants
  /\ custody >= Tokens(o)

ClaimParticipant(o) ==
  /\ phase = LIVE /\ settled[o] /\ ~claimed[o]
  /\ ClaimOK(o)
  /\ custody' = custody - Tokens(o)
  /\ participantClaimed' = participantClaimed + Tokens(o)
  /\ claimed' = [claimed EXCEPT ![o] = TRUE]
  /\ claimedTokens' = [claimedTokens EXCEPT ![o] = Tokens(o)]
  /\ UNCHANGED <<now, phase, termVars, fundVars, refundVars, settleVars, launchVars, devClaimed,
                 lamports, donated>>

DevEntitledNow == DevEntitled(Supply, Vesting, launchTime, launchTime + VestingSpan, now)

DevClaimOK ==
  /\ launchTime > 0 /\ now >= launchTime
  /\ DevEntitledNow <= Split.dev /\ DevEntitledNow >= devClaimed
  /\ custody >= DevEntitledNow - devClaimed

ClaimDev ==
  /\ phase = LIVE /\ DevClaimOK
  /\ custody' = custody - (DevEntitledNow - devClaimed)
  /\ devClaimed' = DevEntitledNow
  /\ UNCHANGED <<now, phase, termVars, fundVars, refundVars, settleVars, launchVars,
                 participantClaimed, claimed, claimedTokens, lamports, donated>>

-----------------------------------------------------------------------------
Donate ==
  /\ donated < MaxDonation
  /\ donated' = donated + 1 /\ lamports' = lamports + 1
  /\ UNCHANGED <<now, phase, termVars, fundVars, refundVars, settleVars, claimVars, launchVars>>

Tick ==
  /\ now < MaxTime
  /\ now' = now + 1
  /\ UNCHANGED <<phase, termVars, fundVars, refundVars, settleVars, claimVars, launchVars,
                 lamports, donated>>

Next ==
  \/ \E t \in OfferedTerms : Create(t)
  \/ \E o \in Owners, amount \in Amounts, seq \in 0 .. MaxCommits : Commit(o, amount, seq)
  \/ Finalize
  \/ \E o \in Owners : Settle(o) \/ Refund(o) \/ ClaimParticipant(o)
  \/ Launch \/ ClaimDev \/ Donate \/ Tick

Spec == Init /\ [][Next]_vars

-----------------------------------------------------------------------------
(* Properties.                                                             *)

Sum(f) == SumFunctionOnSet(f, Owners)
HasReceipt == [o \in Owners |-> IF committed[o] > 0 THEN 1 ELSE 0]
Settled01  == [o \in Owners |-> IF settled[o] THEN 1 ELSE 0]
Shares     == [o \in Owners |-> AcceptedOf(o)]

\* No field of the record, a receipt or a balance leaves its type.
TypeOK ==
  /\ now \in Nat /\ phase \in Phases
  /\ soft \in Nat /\ hard \in Nat
  /\ opensAt \in Nat /\ deadline \in Nat /\ launchDeadline \in Nat
  /\ total \in Nat /\ refunded \in Nat /\ receiptCount \in Nat
  /\ settledCount \in Nat /\ settledAccepted \in Nat
  /\ participantClaimed \in Nat /\ devClaimed \in Nat /\ launchTime \in Nat
  /\ committed \in [Owners -> Nat] /\ paid \in [Owners -> Nat] /\ sequence \in [Owners -> Nat]
  /\ settled \in [Owners -> BOOLEAN] /\ accepted \in [Owners -> Nat]
  /\ claimed \in [Owners -> BOOLEAN] /\ claimedTokens \in [Owners -> Nat]
  /\ lamports \in Nat /\ pool \in Nat /\ custody \in Nat /\ donated \in Nat

\* The running totals agree with the receipts, every lamport is accounted for,
\* and the settled totals are those of the settled receipts (settle_receipt).
SettledBooks ==
  /\ total = Sum(committed) /\ refunded = Sum(paid) /\ receiptCount = Sum(HasReceipt)
  /\ settledAccepted = Sum(accepted)
  /\ settledCount = Cardinality({o \in Owners : settled[o]})
  /\ lamports + refunded + pool = total + donated

\* After the deadline the campaign can pay all that the receipts may still take
\* back (refund), in every phase and however settling, refunding and launching
\* interleaved.
SettledRefundsCovered ==
  AfterDeadline => /\ \A o \in Owners : paid[o] <= Entitled(o)
                   /\ Sum([o \in Owners |-> Entitled(o) - paid[o]]) <= lamports

\* A ready campaign has the funds its launch (execute) asks for.
SettledLaunchFunded == Ready => LaunchFundsOK

\* The terms every receipt was settled by stay true: nobody commits after a
\* settlement, and in a launched campaign no owner gets back what the pool took.
SettledSharesKept ==
  /\ \A o \in Owners : settled[o] => accepted[o] = AcceptedOf(o)
  /\ phase = LIVE => \A o \in Owners : settled[o] = ~Fresh(o) /\ paid[o] + accepted[o] <= committed[o]

\* In a launched campaign every receipt and the dev can claim, in any order.
SettledClaimsCovered ==
  phase = LIVE =>
    /\ \A o \in Owners : ~Fresh(o) /\ ~claimed[o] => ClaimOK(o)
    /\ DevClaimOK
    /\ Sum([o \in Owners |-> IF claimed[o] \/ Fresh(o) THEN 0 ELSE Tokens(o)])
         + (Split.dev - devClaimed) <= custody

\* No receipt is ever refused its settlement (settle_receipt): the checks on the
\* settled count and the settled sum pass for every receipt that is not settled.
SettleNeverRefused ==
  AfterDeadline => \A o \in Owners : Settleable(o) => SettleOK(o)

\* A campaign is solvent whatever order its owners settle, refund, launch and
\* claim in: its books balance, every settlement goes through, every refund, the
\* launch and every claim are covered, and the shares stay as settled.
SettledSolvent ==
  /\ SettledBooks /\ SettledRefundsCovered /\ SettledLaunchFunded
  /\ SettleNeverRefused /\ SettledSharesKept /\ SettledClaimsCovered

\* A decided campaign stays decided and a settlement is never revised: a refund
\* never turns a live campaign into REFUND_ONLY, nothing is committed after the
\* deadline, and an accepted amount is written once (refund, commit, settle_receipt).
SettledFinal ==
  /\ phase \in {REFUND_ONLY, LIVE} => phase' = phase
  /\ AfterDeadline => UNCHANGED <<committed, total, receiptCount>>
  /\ \A o \in Owners : settled[o] => settled'[o] /\ accepted'[o] = accepted[o]

-----------------------------------------------------------------------------
(* The inductive invariant behind SettledSolvent.                          *)

\* The terms that init_campaign checked.
TermsInv ==
  Exists => /\ soft > 0 /\ hard >= LeastHardCap(soft)
            /\ opensAt < deadline /\ deadline < launchDeadline

\* The totals are those of the receipts, and every lamport is accounted for.
LedgerInv ==
  /\ total = Sum(committed) /\ refunded = Sum(paid) /\ receiptCount = Sum(HasReceipt)
  /\ lamports + refunded + pool = total + donated

\* What each phase says: nobody is paid while funding, a closed or live campaign
\* reached its soft cap, a live one launched with every receipt settled.
PhaseInv ==
  /\ phase \in {ABSENT, FUNDING} => paid = Zero
  /\ phase \in {CLOSED, LIVE} => total >= soft
  /\ phase # LIVE => pool = 0
  /\ phase = LIVE => /\ pool = settledAccepted /\ settledAccepted >= soft
                     /\ settledCount = receiptCount
                     /\ deadline <= launchTime /\ launchTime <= now

\* A receipt is paid its excess at most, unless the campaign failed.
PaidInv ==
  \A o \in Owners : /\ paid[o] <= committed[o]
                    /\ phase \in {CLOSED, LIVE} => paid[o] + AcceptedOf(o) <= committed[o]

\* Receipts are settled after the deadline only, each at its share.
SettleInv ==
  /\ settledCount = Sum(Settled01) /\ settledAccepted = Sum(accepted)
  /\ settledCount = Cardinality({o \in Owners : settled[o]})
  /\ \A o \in Owners :
       /\ settled[o] => AfterDeadline /\ committed[o] > 0 /\ accepted[o] = AcceptedOf(o)
       /\ ~settled[o] => accepted[o] = 0

\* Custody holds what the claims have not taken; before the launch there is none.
ClaimInv ==
  /\ participantClaimed = Sum(claimedTokens)
  /\ phase # LIVE => /\ devClaimed = 0
                     /\ \A o \in Owners : ~claimed[o] /\ claimedTokens[o] = 0
  /\ phase = LIVE =>
       /\ custody + participantClaimed + devClaimed = Supply - Split.liquidity
       /\ devClaimed <= DevEntitledNow
       /\ \A o \in Owners : claimedTokens[o] = IF claimed[o] THEN Tokens(o) ELSE 0

SettledInv ==
  TypeOK /\ TermsInv /\ LedgerInv /\ PhaseInv /\ PaidInv /\ SettleInv /\ ClaimInv

=============================================================================
