------------------------------ MODULE MCMints -------------------------------
(***************************************************************************)
(* The stock of mints: leases on its reservations, the keys themselves,    *)
(* the workers that refill it and the approval that spends a mint.  The    *)
(* leases run on the inventory's own actions; the other parts share no     *)
(* state, so one run explores them side by side: `part` says which of them *)
(* moves and the variables of the others rest.                             *)
(***************************************************************************)
EXTENDS MintLeases

VARIABLE part   \* the component this behaviour is about
VARIABLES iStatus, iIntentHash, iCoverage, iFeeNft, iSigs, iHolding,
          iReceipts, iTickets, lease, available, run, mine, pool, tick,
          pausedFile, takes, faults, expiries, blame, lastImport, offers,
          rows, permits, call, height, final, aLanded, sent, forks, stops

Off == 0   \* the value of a variable that no component in the run uses

inventoryAndKeyVars == <<iStatus, iIntentHash, iCoverage, iFeeNft, iSigs,
                         iHolding, iReceipts, iTickets>>
refillAndChildrenVars == <<available, run, mine, pool, tick, pausedFile,
                           takes, faults, expiries, blame, lastImport>>
approvalAndTabsVars == <<offers, rows, permits, call, height, final, aLanded,
                         sent, forks, stops>>

inventoryAndKeyOff == /\ iStatus = Off /\ iIntentHash = Off
                      /\ iCoverage = Off /\ iFeeNft = Off /\ iSigs = Off
                      /\ iHolding = Off /\ iReceipts = Off /\ iTickets = Off
refillAndChildrenOff == /\ available = Off /\ run = Off /\ mine = Off
                        /\ pool = Off /\ tick = Off /\ pausedFile = Off
                        /\ takes = Off /\ faults = Off /\ expiries = Off
                        /\ blame = Off /\ lastImport = Off
approvalAndTabsOff == /\ offers = Off /\ rows = Off /\ permits = Off
                      /\ call = Off /\ height = Off /\ final = Off
                      /\ aLanded = Off /\ sent = Off /\ forks = Off
                      /\ stops = Off

Inventory == INSTANCE MintInventory WITH
  status <- iStatus, intentHash <- iIntentHash, coverage <- iCoverage,
  feeNft <- iFeeNft, sigs <- iSigs, holding <- iHolding,
  receipts <- iReceipts, tickets <- iTickets, Bindings <- {"b1", "b2"},
  Messages <- {"x1"}, AssetIntents <- {"a1"}, PlanIntents <- {"p1"},
  Scopes <- {"c1"}, MaxMints <- 2, MaxTickets <- 2, MaxRetry <- 1,
  MaxLaunches <- 1, MaxAttempts <- 2, Fallback <- TRUE
Key == INSTANCE MintInventory WITH
  status <- iStatus, intentHash <- iIntentHash, coverage <- iCoverage,
  feeNft <- iFeeNft, sigs <- iSigs, holding <- iHolding,
  receipts <- iReceipts, tickets <- iTickets, Bindings <- {"b1", "b2"},
  Messages <- {"x1", "x2"}, AssetIntents <- {"a1"}, PlanIntents <- {"p1"},
  Scopes <- {"c1"}, MaxMints <- 1, MaxTickets <- 3, MaxRetry <- 1,
  MaxLaunches <- 1, MaxAttempts <- 2, Fallback <- TRUE
Refill == INSTANCE MintRefill WITH
  Workers <- {"w1", "w2"}, Configured <- 1, Parallelism <- 8,
  LimitBytes <- 2000, ReserveBytes <- 384, PerChildBytes <- 96, Target <- 1,
  MaxReplacements <- 1, Levels <- {"resume"}, MaxExpiries <- 1,
  MaxTakes <- 1, MaxFaults <- 1
Children == INSTANCE MintRefill WITH
  Workers <- {"w1"}, Configured <- 2, Parallelism <- 8, LimitBytes <- 2000,
  ReserveBytes <- 384, PerChildBytes <- 96, Target <- 2,
  MaxReplacements <- 1, Levels <- {"shed", "pause", "resume"},
  MaxExpiries <- 1, MaxTakes <- 2, MaxFaults <- 2
Approval == INSTANCE MintApproval WITH
  landed <- aLanded, Tabs <- {"t1"}, Window <- 1, Margin <- 1,
  MaxAttempts <- 3, MaxOffers <- 2, MaxHeight <- 5, MaxForks <- 1,
  MaxStops <- 1
Tabs == INSTANCE MintApproval WITH
  landed <- aLanded, Tabs <- {"t1", "t2"}, Window <- 1, Margin <- 1,
  MaxAttempts <- 2, MaxOffers <- 2, MaxHeight <- 4, MaxForks <- 0,
  MaxStops <- 0

MCInit ==
  \/ /\ part = "leases" /\ Init /\ inventoryAndKeyOff /\ lease = Off
     /\ refillAndChildrenOff /\ approvalAndTabsOff
  \/ /\ part = "inventory" /\ Init /\ Inventory!Init /\ lease = Off
     /\ refillAndChildrenOff /\ approvalAndTabsOff
  \/ /\ part = "key" /\ Init /\ Key!Init /\ lease = Off
     /\ refillAndChildrenOff /\ approvalAndTabsOff
  \/ /\ part = "refill" /\ Init /\ Refill!Init /\ inventoryAndKeyOff
     /\ approvalAndTabsOff
  \/ /\ part = "children" /\ Init /\ Children!Init /\ inventoryAndKeyOff
     /\ approvalAndTabsOff
  \/ /\ part = "approval" /\ Init /\ Approval!Init /\ inventoryAndKeyOff
     /\ refillAndChildrenOff
  \/ /\ part = "tabs" /\ Init /\ Tabs!Init /\ inventoryAndKeyOff
     /\ refillAndChildrenOff

MCNext ==
  \/ /\ part = "leases" /\ Next
     /\ UNCHANGED <<part, inventoryAndKeyVars, lease, refillAndChildrenVars,
                    approvalAndTabsVars>>
  \/ /\ part = "inventory" /\ Inventory!Next
     /\ UNCHANGED <<part, vars, lease, refillAndChildrenVars,
                    approvalAndTabsVars>>
  \/ /\ part = "key" /\ Key!Next
     /\ UNCHANGED <<part, vars, lease, refillAndChildrenVars,
                    approvalAndTabsVars>>
  \/ /\ part = "refill" /\ Refill!Next
     /\ UNCHANGED <<part, vars, inventoryAndKeyVars, approvalAndTabsVars>>
  \/ /\ part = "children" /\ Children!Next
     /\ UNCHANGED <<part, vars, inventoryAndKeyVars, approvalAndTabsVars>>
  \/ /\ part = "approval" /\ Approval!Next
     /\ UNCHANGED <<part, vars, inventoryAndKeyVars, refillAndChildrenVars>>
  \/ /\ part = "tabs" /\ Tabs!Next
     /\ UNCHANGED <<part, vars, inventoryAndKeyVars, refillAndChildrenVars>>

mcVars == <<part, vars, inventoryAndKeyVars, lease, refillAndChildrenVars,
            approvalAndTabsVars>>
MCSpec == MCInit /\ [][MCNext]_mcVars

-----------------------------------------------------------------------------
\* A mint with a signature is leased to the launch that holds it and a released
\* one never signed; a mint out of the pool has one holder, a key signs one
\* route and one message per generation, a launch follows its opening, and every
\* child process the refill started is accounted for (mint-inventory.js,
\* mint-refill-parallel.js).
StockSound ==
  /\ SignedIsLeased /\ ReleasedIsProven
  /\ part = "inventory" =>
       /\ Inventory!OneHolder /\ Inventory!OneRoute
       /\ Inventory!OneMessagePerGeneration /\ Inventory!LaunchFollowsOpening
  /\ part = "key" =>
       /\ Key!OneHolder /\ Key!OneRoute
       /\ Key!OneMessagePerGeneration /\ Key!LaunchFollowsOpening
  /\ part = "children" => Children!ChildrenAccounted

\* Imports follow the fence, and no step erases a signature, a pinned coverage
\* or a fee-NFT key (importGeneratedMint; MintInventory).
StockSteps ==
  [][/\ part = "refill" => Refill!FencedImports
     /\ part = "inventory" => Inventory!JournalGrows
     /\ part = "key" => Key!JournalGrows]_mcVars

\* One packet of a creation at a time can still succeed, and the journal, the
\* lease and the chain agree on the one that did (mint-approval.mjs).
ApprovalFinal ==
  /\ part = "approval" =>
       /\ Approval!OnePacketAlive /\ Approval!JournalIsFinal
       /\ Approval!ConsumedByItsPacket /\ Approval!BroadcastIsStored
       /\ Approval!RetriesArePermitted
  /\ part = "tabs" =>
       /\ Tabs!OnePacketAlive /\ Tabs!JournalIsFinal
       /\ Tabs!ConsumedByItsPacket /\ Tabs!BroadcastIsStored
       /\ Tabs!RetriesArePermitted
=============================================================================
