----------------------------- MODULE MCProgress -----------------------------
(***************************************************************************)
(* What must happen in the end: a round makes its receipts whole, a lease  *)
(* ends, the controller finishes a campaign, and the stock of mints        *)
(* refills.  The parts share no state: `part` says which of them moves,    *)
(* the variables of the others rest, and each fairness condition concerns  *)
(* the steps of its part.                                                  *)
(***************************************************************************)
EXTENDS Integers, Sequences

VARIABLE part   \* the component this behaviour is about
VARIABLES now, phase, soft, hard, opensAt, deadline, launchDeadline, total,
          refunded, receiptCount, participantClaimed, devClaimed, launchTime,
          committed, paid, sequence, accounted, claimed, claimedAccepted,
          claimedTokens, sealed, sealedReceipts, sealedTotal, acceptedTarget,
          accountedCount, accountedAccepted, collateralReturned, claimsPaid,
          lamports, setup, pool, custody, donated, state, token, owner,
          lease, wait, why, unknown, retries, left, sent, fate, slot,
          lastCampaign, passed, load, collateral, packets, plan, display,
          cap, stage, job, pend, tries, seen, faults, available, run, mine,
          tick, pausedFile, takes, expiries, blame, lastImport

Off == 0   \* the value of a variable that no component in the run uses

fundingAndRoundVars == <<now, phase, paid, accounted, sealed>>
fundingVars == <<soft, hard, opensAt, deadline, launchDeadline, total,
                 refunded, receiptCount, participantClaimed, devClaimed,
                 launchTime, committed, sequence, claimed, claimedAccepted,
                 claimedTokens, sealedReceipts, sealedTotal, acceptedTarget,
                 accountedCount, accountedAccepted, collateralReturned,
                 claimsPaid, lamports, setup, custody, donated>>
queueVars == <<state, token, owner, wait, why, unknown, retries, left, sent,
               fate, slot, lastCampaign, passed>>
roundVars == <<load, collateral, packets, plan, display, cap, stage, job,
               pend, tries, seen>>
refillVars == <<available, run, mine, tick, pausedFile, takes, expiries,
                blame, lastImport>>

fundingAndRoundOff == /\ now = Off /\ phase = Off /\ paid = Off
                      /\ accounted = Off /\ sealed = Off
fundingOff == /\ soft = Off /\ hard = Off /\ opensAt = Off /\ deadline = Off
              /\ launchDeadline = Off /\ total = Off /\ refunded = Off
              /\ receiptCount = Off /\ participantClaimed = Off
              /\ devClaimed = Off /\ launchTime = Off /\ committed = Off
              /\ sequence = Off /\ claimed = Off /\ claimedAccepted = Off
              /\ claimedTokens = Off /\ sealedReceipts = Off
              /\ sealedTotal = Off /\ acceptedTarget = Off
              /\ accountedCount = Off /\ accountedAccepted = Off
              /\ collateralReturned = Off /\ claimsPaid = Off
              /\ lamports = Off /\ setup = Off /\ custody = Off
              /\ donated = Off
queueOff == /\ state = Off /\ token = Off /\ owner = Off /\ wait = Off
            /\ why = Off /\ unknown = Off /\ retries = Off /\ left = Off
            /\ sent = Off /\ fate = Off /\ slot = Off /\ lastCampaign = Off
            /\ passed = Off
roundOff == /\ load = Off /\ collateral = Off /\ packets = Off /\ plan = Off
            /\ display = Off /\ cap = Off /\ stage = Off /\ job = Off
            /\ pend = Off /\ tries = Off /\ seen = Off
refillOff == /\ available = Off /\ run = Off /\ mine = Off /\ tick = Off
             /\ pausedFile = Off /\ takes = Off /\ expiries = Off
             /\ blame = Off /\ lastImport = Off

Funding == INSTANCE FundingFirst WITH
  Owners <- {"o1", "o2"}, Amounts <- {101, 203},
  OfferedTerms <- {[soft |-> 200, hard |-> 202, opensAt |-> 1, funding |-> 1, window |-> 1]},
  MAX_RECEIPTS_V2 <- 2, MIN_COMMIT_V2 <- 101, SOFT_FLOOR_V2 <- 200,
  COLLATERAL_V2 <- 2, Supply <- 10007, OpensAtTolerance <- 1,
  MaxSchedule <- 2, MaxWindow <- 2, VestingSpan <- 2, LaunchCost <- 1,
  MaxCommits <- 1, MaxDonation <- 0, MaxSetup <- 1, MaxTime <- 4
Queue == INSTANCE Jobs WITH
  Jobs <- {1}, Campaign <- <<1>>, Rank <- <<0>>, Deadline <- <<0>>,
  Runners <- {"r1"}, Slots <- {"s1"}, Owner <- [s \in {"s1"} |-> "r1"],
  Ttl <- 1, MaxAttempts <- 2, MaxDelay <- 1, MaxToken <- 3, MaxPackets <- 1
Round == INSTANCE RoundKeeper WITH
  Receipts <- 1, SliceSize <- 1, MaxRetries <- 2, MaxRunning <- 7,
  Loads <- {"under", "exact", "over"}, Displays <- {TRUE}, Grants <- {},
  Outsiders <- FALSE, MaxFaults <- 0
Refill == INSTANCE MintRefill WITH
  Workers <- {"w1"}, Configured <- 2, Parallelism <- 8, LimitBytes <- 2000,
  ReserveBytes <- 384, PerChildBytes <- 96, Target <- 2,
  MaxReplacements <- 2, Levels <- {"resume"}, MaxExpiries <- 1,
  MaxTakes <- 1, MaxFaults <- 1

MCInit ==
  \/ /\ part = "funding" /\ Funding!Init /\ queueOff /\ lease = Off
     /\ roundOff /\ faults = Off /\ refillOff
  \/ /\ part = "queue" /\ Queue!Init /\ fundingAndRoundOff /\ fundingOff
     /\ pool = Off /\ roundOff /\ faults = Off /\ refillOff
  \/ /\ part = "round" /\ Round!Init /\ fundingOff /\ pool = Off /\ queueOff
     /\ lease = Off /\ refillOff
  \/ /\ part = "refill" /\ Refill!Init /\ fundingAndRoundOff /\ fundingOff
     /\ queueOff /\ roundOff

MCNext ==
  \/ /\ part = "funding" /\ Funding!Next
     /\ UNCHANGED <<part, queueVars, lease, roundVars, faults, refillVars>>
  \/ /\ part = "queue" /\ Queue!Next
     /\ UNCHANGED <<part, fundingAndRoundVars, fundingVars, pool, roundVars,
                    faults, refillVars>>
  \/ /\ part = "round" /\ Round!Next
     /\ UNCHANGED <<part, fundingVars, pool, queueVars, lease, refillVars>>
  \/ /\ part = "refill" /\ Refill!Next
     /\ UNCHANGED <<part, fundingAndRoundVars, fundingVars, queueVars,
                    roundVars>>

mcVars == <<part, fundingAndRoundVars, fundingVars, pool, queueVars, lease,
            roundVars, faults, refillVars>>
MCSpec == MCInit /\ [][MCNext]_mcVars
ofFunding == <<fundingAndRoundVars, fundingVars, pool>>
ofQueue   == <<queueVars, lease>>
ofRound   == <<fundingAndRoundVars, roundVars, faults>>
ofRefill  == <<refillVars, lease, pool, faults>>

\* Time passes, and anybody may refund, account, claim and return the collateral.
FundingFair ==
  /\ WF_ofFunding(part = "funding" /\ Funding!Tick)
  /\ \A o \in {"o1", "o2"} :
       /\ WF_ofFunding(part = "funding" /\ Funding!RefundV2(o))
       /\ WF_ofFunding(part = "funding" /\ Funding!AccountV2(o))
       /\ WF_ofFunding(part = "funding" /\ Funding!ClaimV2(o))
  /\ WF_ofFunding(part = "funding" /\ Funding!ReturnCollateralV2)

\* Handlers return, runners keep polling, time passes.
QueueFair ==
  /\ WF_ofQueue(part = "queue" /\ Queue!Tick)
  /\ WF_ofQueue(part = "queue" /\ Queue!SlotStep("s1"))
  /\ WF_ofQueue(part = "queue" /\ Queue!Lease("s1", 1))

\* The runner polls, so a due job starts and its handler ends; an accepted
\* packet lands; the operating reserve is funded in the end.
RoundFair ==
  /\ WF_ofRound(part = "round" /\ Round!Tick)
  /\ WF_ofRound(part = "round" /\ \E op \in Round!Ops : Round!Land(op))
  /\ WF_ofRound(part = "round" /\ Round!launchTable)
  /\ \A k \in Round!Handled : /\ WF_ofRound(part = "round" /\ Round!Start(k))
                              /\ WF_ofRound(part = "round" /\ Round!Run(k))
  /\ SF_ofRound(part = "round" /\ Round!control /\ stage' # stage)

\* Timers and handlers run, and a child's search finds a mint some time.
RefillFair ==
  /\ WF_ofRefill(part = "refill" /\ Refill!LeaseExpires)
  /\ WF_ofRefill(part = "refill" /\ Refill!TickStop("w1"))
  /\ WF_ofRefill(part = "refill" /\ Refill!TickWork("w1"))
  /\ WF_ofRefill(part = "refill" /\ Refill!TickStopped("w1"))
  /\ WF_ofRefill(part = "refill" /\ Refill!ChildAnswers("w1"))
  /\ WF_ofRefill(part = "refill" /\ Refill!ChildNext("w1"))
  /\ WF_ofRefill(part = "refill" /\ Refill!Recycled("w1"))
  /\ WF_ofRefill(part = "refill" /\ Refill!IdleExit("w1"))
  /\ WF_ofRefill(part = "refill" /\ Refill!Finish("w1"))
  /\ WF_ofRefill(part = "refill" /\ Refill!Restart("w1"))
  /\ WF_ofRefill(part = "refill" /\ Refill!WindowPasses("w1"))
  /\ SF_ofRefill(part = "refill" /\ Refill!ChildAnswers("w1") /\ available' > available)

MCFairSpec == MCSpec /\ FundingFair /\ QueueFair /\ RoundFair /\ RefillFair

-----------------------------------------------------------------------------
\* Every receipt of a round is made whole: it ends with its whole commitment
\* refunded, or with its tokens claimed and its excess refunded.
MadeWhole ==
  \A o \in {"o1", "o2"} :
    (part = "funding" /\ committed[o] > 0) ~> (part = "funding" => Funding!Whole(o))

\* A lease is never kept for ever by a runner that died: the job is finished,
\* put back, or leased again with a larger token.
LeaseEnds ==
  \A t \in 1 .. 2 :
    (part = "queue" /\ state[1] = "leased" /\ token[1] = t)
      ~> (part = "queue" => state[1] # "leased" \/ token[1] > t)

\* Every round ends, handed to the fee setup or fully refunded, unless its
\* grant lapsed or a job is left failed for an operator to recover.
RoundEnds == <>(part = "round" => Round!Ended)

\* After the last reservation and the last fault the stock reaches its target,
\* through lease changes, idle children and restarts.
PoolRefills == <>[](part = "refill" => pausedFile \/ Refill!Full)
=============================================================================
