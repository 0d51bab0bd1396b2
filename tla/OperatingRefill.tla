-------------------------- MODULE OperatingRefill ---------------------------
(***************************************************************************)
(* Refills of the campaigns' operating budgets from the coins' fee income  *)
(* (localnet/jobs/operating-refill.mjs, operated with                      *)
(* localnet/operating-refill-funding.mjs).  An accounting job per campaign *)
(* records what the treasury's share entitles it to; the operator freezes  *)
(* all due entitlements into one funding, the treasury's owner pays it with*)
(* one transfer named by the funding's memo, and the operator credits the  *)
(* budgets from that finalized transfer, or voids the funding.  The job    *)
(* and the credit read state outside the transaction that writes.          *)
(***************************************************************************)
EXTENDS BudgetAccounting, FiniteSets, FiniteSetsExt

CONSTANTS
  Campaigns, Fundings,     \* fundings are used in order of creation
  Operators,               \* runs of the operator tool
  RefillBps, Floor,        \* the refill policy
  MaxPaid, Transfers       \* bounds: treasury payouts, transfers per memo

VARIABLES
  treasuryPaid,            \* finalized fee state on the chain
  accounted, due, funded, pending,   \* operating_refills rows
  budget,                  \* operating budgets
  funding,                 \* operating_refill_fundings: state, entitlements, signature
  transfers,               \* finalized transfers <<funding, number>>
  job, operator            \* local variables

rows == <<accounted, due, funded, pending>>
vars == <<treasuryPaid, rows, budget, funding, transfers, job, operator>>

NoFunding == 0
Empty == [c \in Campaigns |-> 0]
Total(e) == MapThenSumSet(LAMBDA c : e[c], Campaigns)
IdleJob == [at |-> "idle", paid |-> 0, available |-> 0]
IdleOperator == [at |-> "idle", id |-> NoFunding, sig |-> 0]

Init ==
  /\ treasuryPaid = Empty /\ accounted = Empty /\ due = Empty /\ funded = Empty
  /\ pending = [c \in Campaigns |-> NoFunding]
  /\ budget = [c \in Campaigns |-> EmptyBudget]
  /\ funding = [f \in Fundings |-> [state |-> "none", entitlements |-> Empty, sig |-> 0]]
  /\ transfers = {}
  /\ job = [c \in Campaigns |-> IdleJob]
  /\ operator = [o \in Operators |-> IdleOperator]

-----------------------------------------------------------------------------

ShareOf(now, before) == ((now - before) * RefillBps) \div 10000

\* refillEntitlement: the share of the payout growth, capped by the room left.
Entitlement(now, before, available, owed) ==
  LET room == Floor - available - owed  share == ShareOf(now, before)
  IN  IF room > 0 THEN Min({share, room}) ELSE 0

ReadEvidence(c) ==
  /\ job[c].at = "idle"
  /\ job' = [job EXCEPT ![c] = [at |-> "account", paid |-> treasuryPaid[c],
                                available |-> Available(budget[c], 0)]]
  /\ UNCHANGED <<treasuryPaid, rows, budget, funding, transfers, operator>>

\* A counter that moved backwards fails the job (reads may be served late).
Account(c) ==
  LET add == Entitlement(job[c].paid, accounted[c], job[c].available, due[c]) IN
  /\ job[c].at = "account" /\ job' = [job EXCEPT ![c] = IdleJob]
  /\ IF job[c].paid < accounted[c] THEN UNCHANGED <<accounted, due>>
     ELSE /\ accounted' = [accounted EXCEPT ![c] = job[c].paid]
          /\ due' = [due EXCEPT ![c] = @ + add]
  /\ UNCHANGED <<treasuryPaid, funded, pending, budget, funding, transfers, operator>>

-----------------------------------------------------------------------------
(* The operator tool.                                                      *)
Open == {f \in Fundings : funding[f].state = "prepared"}
Unused == {f \in Fundings : funding[f].state = "none"}
Freezable(c) == due[c] > 0 /\ pending[c] = NoFunding

\* prepareRefillFunding: an open funding is returned as it is.
PrepareFunding ==
  LET frozen == [c \in Campaigns |-> IF Freezable(c) THEN due[c] ELSE 0]
      f == Min(Unused)
  IN
  /\ Open = {} /\ Unused # {} /\ Total(frozen) > 0
  /\ funding' = [funding EXCEPT ![f] = [state |-> "prepared", entitlements |-> frozen, sig |-> 0]]
  /\ pending' = [c \in Campaigns |-> IF frozen[c] > 0 THEN f ELSE pending[c]]
  /\ UNCHANGED <<treasuryPaid, accounted, due, funded, budget, transfers, job, operator>>

\* verifyRefillTransaction: a finalized transfer of exactly the total from the
\* treasury to the payer that carries this funding's memo.
Verified(f, n) == <<f, n>> \in transfers

\* creditRefillFunding reads the row and proves the transfer, ...
ReadFunding(o, f, n) ==
  /\ operator[o].at = "idle" /\ funding[f].state = "prepared" /\ Verified(f, n)
  /\ operator' = [operator EXCEPT ![o] = [at |-> "credit", id |-> f, sig |-> n]]
  /\ UNCHANGED <<treasuryPaid, rows, budget, funding, transfers, job>>

\* Every row must still be frozen for this funding with enough due.
StillEntitled(f) ==
  \A c \in Campaigns : funding[f].entitlements[c] > 0 =>
    pending[c] = f /\ due[c] >= funding[f].entitlements[c]

CreditedBefore(f) == funding[f].state = "credited"

\* ... then credits all budgets in one transaction, or throws.
CreditFunding(o) ==
  LET f == operator[o].id  e == funding[f].entitlements IN
  /\ operator[o].at = "credit"
  /\ operator' = [operator EXCEPT ![o] = IdleOperator]
  /\ IF CreditedBefore(f) \/ ~StillEntitled(f) THEN UNCHANGED <<rows, budget, funding>>
     ELSE /\ budget' = [c \in Campaigns |-> Change(budget[c], "reserve", e[c], 0).budget]
          /\ due' = [c \in Campaigns |-> due[c] - e[c]]
          /\ funded' = [c \in Campaigns |-> funded[c] + e[c]]
          /\ pending' = [c \in Campaigns |-> IF e[c] > 0 THEN NoFunding ELSE pending[c]]
          /\ funding' = [funding EXCEPT ![f].state = "credited", ![f].sig = operator[o].sig]
          /\ UNCHANGED accounted
  /\ UNCHANGED <<treasuryPaid, transfers, job>>

\* voidRefillFunding: the entitlements become due again.
VoidFunding(f) ==
  /\ funding[f].state = "prepared"
  /\ funding' = [funding EXCEPT ![f].state = "void"]
  /\ pending' = [c \in Campaigns |-> IF pending[c] = f THEN NoFunding ELSE pending[c]]
  /\ UNCHANGED <<treasuryPaid, accounted, due, funded, budget, transfers, job, operator>>

-----------------------------------------------------------------------------
(* Fee income, the owner's transfer (of any funding it was ever told of)   *)
(* and operating costs.                                                    *)
PayTreasury(c) ==
  /\ treasuryPaid[c] < MaxPaid
  /\ treasuryPaid' = [treasuryPaid EXCEPT ![c] = MaxPaid]
       \/ treasuryPaid' = [treasuryPaid EXCEPT ![c] = @ + MaxPaid \div 2]
  /\ \A x \in Campaigns : treasuryPaid'[x] <= MaxPaid
  /\ UNCHANGED <<rows, budget, funding, transfers, job, operator>>

Transfer(f, n) ==
  /\ funding[f].state # "none" /\ n = Cardinality({t \in transfers : t[1] = f}) + 1
  /\ transfers' = transfers \cup {<<f, n>>}
  /\ UNCHANGED <<treasuryPaid, rows, budget, funding, job, operator>>

Spend(c) ==
  /\ Available(budget[c], 0) > 0
  /\ budget' = [budget EXCEPT ![c] = Change(@, "spend", Available(@, 0), 0).budget]
  /\ UNCHANGED <<treasuryPaid, rows, funding, transfers, job, operator>>

Next ==
  \/ \E c \in Campaigns : ReadEvidence(c) \/ Account(c) \/ PayTreasury(c) \/ Spend(c)
  \/ PrepareFunding
  \/ \E f \in Fundings : VoidFunding(f)
  \/ \E f \in Fundings, n \in 1 .. Transfers :
       Transfer(f, n) \/ \E o \in Operators : ReadFunding(o, f, n)
  \/ \E o \in Operators : CreditFunding(o)

Spec == Init /\ [][Next]_vars

-----------------------------------------------------------------------------

(* A campaign is never entitled to more than the refill share of the fee   *)
(* income that was accounted, whatever was credited, voided or repeated.   *)
NeverOverEntitled ==
  \A c \in Campaigns : 10000 * (due[c] + funded[c]) <= RefillBps * accounted[c]

(* Every lamport a refill put into a budget was paid: the reserves add up  *)
(* to the credited fundings, and each of those has its own transfer.       *)
CreditsArePaid ==
  /\ \A c \in Campaigns : budget[c].reserved = funded[c]
  /\ Total(funded) = MapThenSumSet(LAMBDA f : Total(funding[f].entitlements),
                                   {f \in Fundings : funding[f].state = "credited"})
  /\ \A f \in Fundings : funding[f].state = "credited" => <<f, funding[f].sig>> \in transfers

(* What the owner was told to pay stays payable: the rows of an open       *)
(* funding are frozen for it until it is credited or voided.               *)
OpenFundingStaysBacked ==
  \A f \in Open, c \in Campaigns :
    LET owed == funding[f].entitlements[c]
    IN  owed > 0 => pending[c] = f /\ due[c] >= owed

=============================================================================
