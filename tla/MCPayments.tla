----------------------------- MODULE MCPayments -----------------------------
(***************************************************************************)
(* The durable senders and the operating money: the keeper's outbox, the   *)
(* wallet packets, and the budget, reserve and refill of an operator.      *)
(* They share no state, so one run explores them side by side: `part` says *)
(* which of them moves and the variables of the others rest.               *)
(***************************************************************************)
EXTENDS DurableSend, TLC

CONSTANTS w1, w2, k1, k2

MCWorkers == {w1, w2}
MCCommitment == [w \in MCWorkers |-> IF w = w1 THEN "confirmed" ELSE "finalized"]
Callers == {k1, k2}

\* Operations a and b share their bytes, c returns what is left.
Message3 == [a |-> "m1", b |-> "m1", c |-> "m2"]
Maximum3 == [a |-> 1, b |-> 1, c |-> 3]

VARIABLE part   \* the component this behaviour is about
VARIABLES pCount, pStatus, pLast, pObserved, pSig, pTip, pFin, pFirst,
          pInFlight, pLand, pOk, pWorker, wStatus, signature, quoteLive,
          open, req, wChain, sent, valid, retained, budget, applied, hold,
          actual, shadow, signed, jobs, released, bChain, paid, late, signer,
          reconciler, oneTransaction, rStatus, credited, offered, receipts,
          rChain, request, treasuryPaid, accounted, due, funded, pending,
          funding, transfers, job, operator

Off == 0   \* the value of a variable that no component in the run uses

prunedVars == <<pCount, pStatus, pLast, pObserved, pSig, pTip, pFin, pFirst,
                pInFlight, pLand, pOk, pWorker>>
walletVars == <<wStatus, signature, quoteLive, open, req, wChain, sent,
                valid, retained>>
budgetAndTwinsVars == <<applied, hold, actual, shadow, signed, jobs,
                        released, bChain, paid, signer, reconciler>>
reserveVars == <<oneTransaction, rStatus, credited, offered, receipts,
                 rChain, request>>
refillAndVoidedVars == <<treasuryPaid, accounted, due, funded, pending,
                         funding, transfers, job, operator>>

prunedOff == /\ pCount = Off /\ pStatus = Off /\ pLast = Off
             /\ pObserved = Off /\ pSig = Off /\ pTip = Off /\ pFin = Off
             /\ pFirst = Off /\ pInFlight = Off /\ pLand = Off /\ pOk = Off
             /\ pWorker = Off
walletOff == /\ wStatus = Off /\ signature = Off /\ quoteLive = Off
             /\ open = Off /\ req = Off /\ wChain = Off /\ sent = Off
             /\ valid = Off /\ retained = Off
budgetAndTwinsOff == /\ applied = Off /\ hold = Off /\ actual = Off
                     /\ shadow = Off /\ signed = Off /\ jobs = Off
                     /\ released = Off /\ bChain = Off /\ paid = Off
                     /\ signer = Off /\ reconciler = Off
reserveOff == /\ oneTransaction = Off /\ rStatus = Off /\ credited = Off
              /\ offered = Off /\ receipts = Off /\ rChain = Off
              /\ request = Off
refillAndVoidedOff == /\ treasuryPaid = Off /\ accounted = Off /\ due = Off
                      /\ funded = Off /\ pending = Off /\ funding = Off
                      /\ transfers = Off /\ job = Off /\ operator = Off

Pruned == INSTANCE DurableSend WITH
  count <- pCount, status <- pStatus, last <- pLast, observed <- pObserved,
  sig <- pSig, tip <- pTip, fin <- pFin, first <- pFirst,
  inFlight <- pInFlight, land <- pLand, ok <- pOk, worker <- pWorker,
  Workers <- {w1}, Commitment <- [w \in {w1} |-> "confirmed"], Validity <- 1,
  MaxAttempts <- 2, MaxHeight <- 4, MaxObserved <- 3, MaxPrune <- 3
Wallet == INSTANCE WalletPackets WITH
  status <- wStatus, chain <- wChain, Packets <- {"p1"}, Trades <- {"p1"},
  Requests <- Callers, Sigs <- {"s1", "s2"}, Altered <- {"x"},
  MaxPending <- 1
Budget == INSTANCE OperatingBudget WITH
  chain <- bChain, Ops <- {"a", "b", "c"}, Message <- Message3,
  Maximum <- Maximum3, Returns <- {"c"}, Fee <- 1, Signers <- {"s1"},
  Reconcilers <- {k1}, Deposit <- 3, MaxDeposits <- 1
Twins == INSTANCE OperatingBudget WITH
  chain <- bChain, Ops <- {"a", "b"}, Message <- Message3,
  Maximum <- Maximum3, Returns <- {"c"}, Fee <- 1, Signers <- {"s1"},
  Reconcilers <- Callers, Deposit <- 3, MaxDeposits <- 1
Reserve == INSTANCE OperatingReserve WITH
  status <- rStatus, chain <- rChain, Requests <- Callers, Lamports <- 5,
  MaxAttempts <- 3
Refill == INSTANCE OperatingRefill WITH
  Campaigns <- {"c1", "c2"}, Fundings <- {1, 2}, Operators <- {k1},
  RefillBps <- 5000, Floor <- 1, MaxPaid <- 4, Transfers <- 2
Voided == INSTANCE OperatingRefill WITH
  Campaigns <- {"c1"}, Fundings <- {1, 2}, Operators <- Callers,
  RefillBps <- 5000, Floor <- 1, MaxPaid <- 4, Transfers <- 2

MCInit ==
  \/ /\ part = "outbox" /\ Init /\ prunedOff /\ walletOff /\ budget = Off
     /\ budgetAndTwinsOff /\ late = Off /\ reserveOff /\ refillAndVoidedOff
  \/ /\ part = "pruned" /\ Init /\ Pruned!Init /\ walletOff /\ budget = Off
     /\ budgetAndTwinsOff /\ late = Off /\ reserveOff /\ refillAndVoidedOff
  \/ /\ part = "wallet" /\ Init /\ Wallet!Init /\ prunedOff /\ budget = Off
     /\ budgetAndTwinsOff /\ late = Off /\ reserveOff /\ refillAndVoidedOff
  \/ /\ part = "budget" /\ Init /\ Budget!Init /\ prunedOff /\ walletOff
     /\ reserveOff /\ refillAndVoidedOff
  \/ /\ part = "twins" /\ Init /\ Twins!Init /\ prunedOff /\ walletOff
     /\ reserveOff /\ refillAndVoidedOff
  \/ /\ part = "reserve" /\ Init /\ Reserve!Init /\ prunedOff /\ walletOff
     /\ budgetAndTwinsOff /\ refillAndVoidedOff
  \/ /\ part = "refill" /\ Init /\ Refill!Init /\ prunedOff /\ walletOff
     /\ budgetAndTwinsOff /\ late = Off /\ reserveOff
  \/ /\ part = "voided" /\ Init /\ Voided!Init /\ prunedOff /\ walletOff
     /\ budgetAndTwinsOff /\ late = Off /\ reserveOff

MCNext ==
  \/ /\ part = "outbox" /\ Next
     /\ UNCHANGED <<part, prunedVars, walletVars, budget, budgetAndTwinsVars,
                    late, reserveVars, refillAndVoidedVars>>
  \/ /\ part = "pruned" /\ Pruned!Next
     /\ UNCHANGED <<part, vars, walletVars, budget, budgetAndTwinsVars, late,
                    reserveVars, refillAndVoidedVars>>
  \/ /\ part = "wallet" /\ Wallet!Next
     /\ UNCHANGED <<part, vars, prunedVars, budget, budgetAndTwinsVars, late,
                    reserveVars, refillAndVoidedVars>>
  \/ /\ part = "budget" /\ Budget!Next
     /\ UNCHANGED <<part, vars, prunedVars, walletVars, reserveVars,
                    refillAndVoidedVars>>
  \/ /\ part = "twins" /\ Twins!Next
     /\ UNCHANGED <<part, vars, prunedVars, walletVars, reserveVars,
                    refillAndVoidedVars>>
  \/ /\ part = "reserve" /\ Reserve!Next
     /\ UNCHANGED <<part, vars, prunedVars, walletVars, budgetAndTwinsVars,
                    refillAndVoidedVars>>
  \/ /\ part = "refill" /\ Refill!Next
     /\ UNCHANGED <<part, vars, prunedVars, walletVars, budgetAndTwinsVars,
                    late, reserveVars>>
  \/ /\ part = "voided" /\ Voided!Next
     /\ UNCHANGED <<part, vars, prunedVars, walletVars, budgetAndTwinsVars,
                    late, reserveVars>>

mcVars == <<part, vars, prunedVars, walletVars, budget, budgetAndTwinsVars,
            late, reserveVars, refillAndVoidedVars>>
MCSpec == MCInit /\ [][MCNext]_mcVars

-----------------------------------------------------------------------------
\* What the wallet store shows is true on the chain, and at most one signing of
\* a packet is ever broadcast; the keeper's outbox stays exact and truthful when
\* the nodes it asks have pruned their history (wallet-outcome.mjs,
\* durable-send.mjs).
PacketsTruthful ==
  /\ part = "wallet" => Wallet!ShownOutcomeIsTrue /\ Wallet!OneSigningSent
  /\ part = "pruned" => Pruned!AtMostOnce /\ Pruned!JournalTruthful

\* The operating money: the outflow is covered by the reserve and the books say
\* what the chain did, whatever is reconciled twice or late; the creator's
\* reserve is paid once, credited once and told truthfully; refills stay within
\* the share of the income, are backed by transfers, and an open funding stays
\* payable (operating-ledger.mjs, operating-reserve.mjs, operating-refill.mjs).
OperatingMoney ==
  /\ part = "budget" => /\ Budget!OutflowCovered /\ Budget!BalanceNeverFails
                        /\ Budget!BooksMatchChain /\ Budget!ChargedOnce
  /\ part = "twins" => /\ Twins!OutflowCovered /\ Twins!BalanceNeverFails
                       /\ Twins!BooksMatchChain /\ Twins!ChargedOnce
  /\ part = "reserve" => /\ Reserve!CreditedExactlyOnce /\ Reserve!CreditedIsInBudget
                         /\ Reserve!PaidOnce
  /\ part = "refill" => /\ Refill!NeverOverEntitled /\ Refill!CreditsArePaid
                        /\ Refill!OpenFundingStaysBacked
  /\ part = "voided" => /\ Voided!NeverOverEntitled /\ Voided!CreditsArePaid
                        /\ Voided!OpenFundingStaysBacked
=============================================================================
