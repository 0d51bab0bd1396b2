----------------------------- MODULE MCKeepers ------------------------------
(***************************************************************************)
(* A campaign of the settled accounting, and the keepers that drive        *)
(* campaigns to their end: the controllers of both accountings with their  *)
(* jobs, the lookup tables they plan and the fee cycle after a launch.     *)
(* They share no state, so one run explores them side by side: `part` says *)
(* which of them moves and the variables of the others rest.               *)
(***************************************************************************)
EXTENDS SettledCampaign, Sequences, TLC

CONSTANTS o1, o2, o3

\* Three receipts and small caps, so that oversubscribed totals leave dust in
\* every settlement; equal caps are offered and must be refused.
Terms(s, h) == [soft |-> s, hard |-> h, opensAt |-> 1, deadline |-> 2, launchDeadline |-> 3]
MCOwners == {o1, o2, o3}
MCAmounts == {3}
MCTerms == {Terms(5, 6), Terms(4, 4)}
MCSplit == SPLIT_STANDARD_V3
MCVesting == VESTING_STANDARD_V3

VARIABLE part   \* the component this behaviour is about
VARIABLES rNow, load, rPhase, sealed, rPaid, accounted, collateral, packets,
          plan, display, cap, stage, job, pend, tries, seen, faults, sNow,
          sPhase, sSettled, sPaid, slot, tables, plans, journal, run, open,
          payout, accrued, collected, fPaid, coin, burned, packet, form,
          amount, grant, active

Off == 0   \* the value of a variable that no component in the run uses

roundAndOpenedVars == <<rNow, rPhase, sealed, rPaid, accounted, collateral,
                        plan, display, cap>>
roundAndOpenedAndSlicesAndFaultsVars == <<load, packets, stage>>
roundAndOpenedAndSlicesAndFaultsAndFeesAndHarvestVars == <<job, pend, tries,
                                                           seen, faults>>
slicesAndFaultsVars == <<sNow, sPhase, sSettled, sPaid>>
tablesAndLapsingVars == <<slot, tables, plans, journal, run>>
feesAndHarvestVars == <<open, payout, accrued, collected, fPaid, coin,
                        burned, packet, form, amount, grant, active>>

roundAndOpenedOff == /\ rNow = Off /\ rPhase = Off /\ sealed = Off
                     /\ rPaid = Off /\ accounted = Off /\ collateral = Off
                     /\ plan = Off /\ display = Off /\ cap = Off
roundAndOpenedAndSlicesAndFaultsOff == /\ load = Off /\ packets = Off
                                       /\ stage = Off
roundAndOpenedAndSlicesAndFaultsAndFeesAndHarvestOff == /\ job = Off
                                                        /\ pend = Off
                                                        /\ tries = Off
                                                        /\ seen = Off
                                                        /\ faults = Off
slicesAndFaultsOff == /\ sNow = Off /\ sPhase = Off /\ sSettled = Off
                      /\ sPaid = Off
tablesAndLapsingOff == /\ slot = Off /\ tables = Off /\ plans = Off
                       /\ journal = Off /\ run = Off
feesAndHarvestOff == /\ open = Off /\ payout = Off /\ accrued = Off
                     /\ collected = Off /\ fPaid = Off /\ coin = Off
                     /\ burned = Off /\ packet = Off /\ form = Off
                     /\ amount = Off /\ grant = Off /\ active = Off

Round == INSTANCE RoundKeeper WITH
  now <- rNow, phase <- rPhase, paid <- rPaid, Receipts <- 2, SliceSize <- 2,
  MaxRetries <- 1, MaxRunning <- 2, Loads <- {"under", "exact", "over"},
  Displays <- {TRUE}, Grants <- {}, Outsiders <- FALSE, MaxFaults <- 1
Opened == INSTANCE RoundKeeper WITH
  now <- rNow, phase <- rPhase, paid <- rPaid, Receipts <- 1, SliceSize <- 1,
  MaxRetries <- 1, MaxRunning <- 1, Loads <- {"over"}, Displays <- {TRUE},
  Grants <- {"refund"}, Outsiders <- TRUE, MaxFaults <- 0
Slices == INSTANCE SettledKeeper WITH
  now <- sNow, phase <- sPhase, settled <- sSettled, paid <- sPaid,
  Receipts <- 2, BatchSize <- 1, SliceSize <- 1, MaxRetries <- 1,
  Loads <- {"under", "exact"}, Outsiders <- TRUE, MaxFaults <- 0
Faults == INSTANCE SettledKeeper WITH
  now <- sNow, phase <- sPhase, settled <- sSettled, paid <- sPaid,
  Receipts <- 2, BatchSize <- 2, SliceSize <- 2, MaxRetries <- 1,
  Loads <- {"under", "over"}, Outsiders <- FALSE, MaxFaults <- 1
TableRuns == INSTANCE TablePlans WITH
  Campaigns <- {"a", "b"}, Workers <- {"v", "w"}, Chunks <- 2, MaxSlot <- 3,
  Window <- 2, Lapses <- FALSE
Lapsing == INSTANCE TablePlans WITH
  Campaigns <- {"a"}, Workers <- {"v", "w"}, Chunks <- 2, MaxSlot <- 4,
  Window <- 1, Lapses <- TRUE
Fees == INSTANCE FeeCycle WITH
  paid <- fPaid, Kinds <- {"fee-harvest", "token-burn"}, MinValue <- 2,
  MaxFees <- 2, MaxRetries <- 1, MaxFaults <- 0, Strangers <- TRUE,
  Owners <- TRUE, Operators <- TRUE
Harvest == INSTANCE FeeCycle WITH
  paid <- fPaid, Kinds <- {"fee-harvest"}, MinValue <- 2, MaxFees <- 2,
  MaxRetries <- 1, MaxFaults <- 1, Strangers <- TRUE, Owners <- TRUE,
  Operators <- TRUE

MCInit ==
  \/ /\ part = "campaign" /\ Init /\ roundAndOpenedOff
     /\ roundAndOpenedAndSlicesAndFaultsOff
     /\ roundAndOpenedAndSlicesAndFaultsAndFeesAndHarvestOff
     /\ slicesAndFaultsOff /\ tablesAndLapsingOff /\ feesAndHarvestOff
  \/ /\ part = "round" /\ Init /\ Round!Init /\ slicesAndFaultsOff
     /\ tablesAndLapsingOff /\ feesAndHarvestOff
  \/ /\ part = "opened" /\ Init /\ Opened!Init /\ slicesAndFaultsOff
     /\ tablesAndLapsingOff /\ feesAndHarvestOff
  \/ /\ part = "slices" /\ Init /\ Slices!Init /\ roundAndOpenedOff
     /\ tablesAndLapsingOff /\ feesAndHarvestOff
  \/ /\ part = "faults" /\ Init /\ Faults!Init /\ roundAndOpenedOff
     /\ tablesAndLapsingOff /\ feesAndHarvestOff
  \/ /\ part = "tables" /\ Init /\ TableRuns!Init /\ roundAndOpenedOff
     /\ roundAndOpenedAndSlicesAndFaultsOff
     /\ roundAndOpenedAndSlicesAndFaultsAndFeesAndHarvestOff
     /\ slicesAndFaultsOff /\ feesAndHarvestOff
  \/ /\ part = "lapsing" /\ Init /\ Lapsing!Init /\ roundAndOpenedOff
     /\ roundAndOpenedAndSlicesAndFaultsOff
     /\ roundAndOpenedAndSlicesAndFaultsAndFeesAndHarvestOff
     /\ slicesAndFaultsOff /\ feesAndHarvestOff
  \/ /\ part = "fees" /\ Init /\ Fees!Init /\ roundAndOpenedOff
     /\ roundAndOpenedAndSlicesAndFaultsOff /\ slicesAndFaultsOff
     /\ tablesAndLapsingOff
  \/ /\ part = "harvest" /\ Init /\ Harvest!Init /\ roundAndOpenedOff
     /\ roundAndOpenedAndSlicesAndFaultsOff /\ slicesAndFaultsOff
     /\ tablesAndLapsingOff

MCNext ==
  \/ /\ part = "campaign" /\ Next
     /\ UNCHANGED <<part, roundAndOpenedVars,
                    roundAndOpenedAndSlicesAndFaultsVars,
                    roundAndOpenedAndSlicesAndFaultsAndFeesAndHarvestVars,
                    slicesAndFaultsVars, tablesAndLapsingVars,
                    feesAndHarvestVars>>
  \/ /\ part = "round" /\ Round!Next
     /\ UNCHANGED <<part, vars, slicesAndFaultsVars, tablesAndLapsingVars,
                    feesAndHarvestVars>>
  \/ /\ part = "opened" /\ Opened!Next
     /\ UNCHANGED <<part, vars, slicesAndFaultsVars, tablesAndLapsingVars,
                    feesAndHarvestVars>>
  \/ /\ part = "slices" /\ Slices!Next
     /\ UNCHANGED <<part, vars, roundAndOpenedVars, tablesAndLapsingVars,
                    feesAndHarvestVars>>
  \/ /\ part = "faults" /\ Faults!Next
     /\ UNCHANGED <<part, vars, roundAndOpenedVars, tablesAndLapsingVars,
                    feesAndHarvestVars>>
  \/ /\ part = "tables" /\ TableRuns!Next
     /\ UNCHANGED <<part, vars, roundAndOpenedVars,
                    roundAndOpenedAndSlicesAndFaultsVars,
                    roundAndOpenedAndSlicesAndFaultsAndFeesAndHarvestVars,
                    slicesAndFaultsVars, feesAndHarvestVars>>
  \/ /\ part = "lapsing" /\ Lapsing!Next
     /\ UNCHANGED <<part, vars, roundAndOpenedVars,
                    roundAndOpenedAndSlicesAndFaultsVars,
                    roundAndOpenedAndSlicesAndFaultsAndFeesAndHarvestVars,
                    slicesAndFaultsVars, feesAndHarvestVars>>
  \/ /\ part = "fees" /\ Fees!Next
     /\ UNCHANGED <<part, vars, roundAndOpenedVars,
                    roundAndOpenedAndSlicesAndFaultsVars,
                    slicesAndFaultsVars, tablesAndLapsingVars>>
  \/ /\ part = "harvest" /\ Harvest!Next
     /\ UNCHANGED <<part, vars, roundAndOpenedVars,
                    roundAndOpenedAndSlicesAndFaultsVars,
                    slicesAndFaultsVars, tablesAndLapsingVars>>

mcVars == <<part, vars, roundAndOpenedVars,
            roundAndOpenedAndSlicesAndFaultsVars,
            roundAndOpenedAndSlicesAndFaultsAndFeesAndHarvestVars,
            slicesAndFaultsVars, tablesAndLapsingVars, feesAndHarvestVars>>
MCSpec == MCInit /\ [][MCNext]_mcVars

-----------------------------------------------------------------------------
\* A campaign is handed to the fee setup, refunded or reported done only when
\* nothing is owed any more, although the controller decides on what it read
\* before the ledger moved (lifecycle-funding-first.mjs, lifecycle.mjs).
EndsPaid ==
  /\ part = "round" =>
       Round!HandoffComplete /\ Round!RefundedComplete /\ Round!DoneIsOnChain
  /\ part = "opened" =>
       Opened!HandoffComplete /\ Opened!RefundedComplete /\ Opened!DoneIsOnChain
  /\ part = "slices" => Slices!EndsPaid /\ Slices!DoneIsOnChain
  /\ part = "faults" => Faults!EndsPaid /\ Faults!DoneIsOnChain

\* No two campaigns are planned on one lookup table, a table holds the chunks
\* of one campaign once and in order, and a complete plan names a whole table;
\* a chain of fee jobs has at most one open packet, never ends, and runs only
\* after its setup (lookup-table-plan.mjs, chain-adapter.mjs, fee-handlers.mjs,
\* fee-activation.mjs).
KeptExact ==
  /\ part = "tables" =>
       TableRuns!NoSharedTable /\ TableRuns!TablesExact /\ TableRuns!CompleteIsWhole
  /\ part = "lapsing" => Lapsing!TablesExact /\ Lapsing!CompleteIsWhole
  /\ part = "fees" =>
       Fees!OnePacketPerChain /\ Fees!ChainGoesOn /\ Fees!ActiveAfterSetup
  /\ part = "harvest" =>
       Harvest!OnePacketPerChain /\ Harvest!ChainGoesOn /\ Harvest!ActiveAfterSetup

\* A decided campaign stays decided and a settlement is written once; a round
\* with a refund-only grant starts nothing that launches, a plan is never
\* replaced once its table exists, and a revoked right stays revoked.
KeeperSteps ==
  [][/\ part = "campaign" => SettledFinal
     /\ part = "opened" => Opened!ContinuationOnlyReturns
     /\ part = "lapsing" => Lapsing!PlanKept
     /\ part = "fees" => Fees!RevokedStays
     /\ part = "harvest" => Harvest!RevokedStays]_mcVars
=============================================================================
