------------------------------ MODULE FeeCycle ------------------------------
(***************************************************************************)
(* The fee cycle of a live Standard campaign: the setup job                *)
(* (protocol-v3/fee-setup.mjs), the activation that swaps the setup grant  *)
(* for the keeper's and seeds the recurring jobs (jobs/fee-activation.mjs),*)
(* the three recurring chains (jobs/fee-handlers.mjs) over the fee adapter *)
(* (protocol-v2/fee-adapter.mjs), and the grant's renewal                  *)
(* (jobs/renew-fee-grant.mjs).                                             *)
(*                                                                         *)
(* A chain's jobs are kind:0, kind:1, ...; at most two of them matter at a *)
(* time, so they are kept in two places by their number's parity.          *)
(* Fees are counted in units of one unit of SOL and one of coin each.      *)
(***************************************************************************)
EXTENDS Naturals, FiniteSets

CONSTANTS
  Kinds,        \* of the recurring chains
  MinValue,     \* units an operation must be worth
  MaxFees,      \* bound on the fees that accrue
  MaxRetries, MaxFaults,
  Strangers,    \* anybody opens the cycle and calls the fee instructions
  Owners,       \* recipients close and restore their token accounts
  Operators     \* grants are revoked and renewed

AllKinds == {"fee-harvest", "distribution", "token-burn"}

VARIABLES
  open, payout,                             \* the fee state account, the recipients' accounts
  accrued, collected, paid, coin, burned,   \* fees in the pool, and the fee state's counters
  packet,      \* the journal, by operation: setup and the jobs of the chains
  form,        \* what the setup operation's packet holds: its journal descriptor
  amount,      \* what each burn packet burns
  job, pend, tries, seen,
  grant,       \* the latest capability
  active,      \* standard_fee_activations
  faults

chainVars == <<open, payout, accrued, collected, paid, coin, burned>>
journalVars == <<packet, form, amount>>
rowVars == <<job, pend, tries>>
vars == <<chainVars, journalVars, rowVars, seen, grant, active, faults>>

FeeJobs == Kinds \X {0, 1}
Setup == <<"fee-setup", 0>>
Activate == <<"fee-activate", 0>>
JobKeys == FeeJobs \cup {Setup, Activate}
Idle == [at |-> "idle"]

Init ==
  /\ open = FALSE /\ payout \in BOOLEAN
  /\ accrued = 0 /\ collected = 0 /\ paid = 0 /\ coin = 0 /\ burned = 0
  /\ packet = [j \in JobKeys |-> "none"] /\ form = "none" /\ amount = [i \in {0, 1} |-> 0]
  /\ job = [j \in JobKeys |-> IF j = Setup THEN "queued" ELSE "none"]
  /\ pend = [j \in JobKeys |-> FALSE] /\ tries = [j \in JobKeys |-> 0]
  /\ seen = [j \in JobKeys |-> Idle]
  /\ grant = [kind |-> "fee-setup", revoked |-> FALSE] /\ active = FALSE /\ faults = 0

-----------------------------------------------------------------------------
(* The ledger: packets and strangers.                                      *)

Fault == faults < MaxFaults /\ faults' = faults + 1

\* The setup creates the missing accounts and, in its full form, the fee state.
ExecuteSetup(f) ==
  /\ f = "full" => ~open
  /\ open' = (open \/ f = "full") /\ payout' = TRUE
  /\ UNCHANGED <<accrued, collected, paid, coin, burned>>

ExecuteFee(kind, n) ==
  /\ open
  /\ \/ /\ kind = "fee-harvest" /\ accrued > 0
        /\ collected' = collected + accrued /\ coin' = coin + accrued /\ accrued' = 0
        /\ UNCHANGED <<paid, burned>>
     \/ /\ kind = "distribution" /\ payout
        /\ paid' = collected /\ UNCHANGED <<accrued, collected, coin, burned>>
     \/ /\ kind = "token-burn" /\ n > 0 /\ n <= coin
        /\ coin' = coin - n /\ burned' = burned + n /\ UNCHANGED <<accrued, collected, paid>>
  /\ UNCHANGED <<open, payout>>

Execute(j) == IF j = Setup THEN ExecuteSetup(form) ELSE ExecuteFee(j[1], amount[j[2]])

Land(j) ==
  /\ packet[j] = "sent" /\ Execute(j)
  /\ packet' = [packet EXCEPT ![j] = "final"]
  /\ UNCHANGED <<form, amount, rowVars, seen, grant, active, faults>>

Doomed(j) == CASE j = Setup -> form = "full" /\ open
               [] j[1] = "fee-harvest" -> accrued = 0
               [] j[1] = "distribution" -> ~payout
               [] OTHER -> amount[j[2]] > coin

Die(j) ==
  /\ packet[j] = "sent"
  /\ \/ Doomed(j) /\ UNCHANGED faults
     \/ ~Doomed(j) /\ Fault
  /\ packet' = [packet EXCEPT ![j] = "dead"]
  /\ UNCHANGED <<chainVars, form, amount, rowVars, seen, grant, active>>

Accrue ==
  /\ accrued + collected < MaxFees /\ accrued' = accrued + 1
  /\ UNCHANGED <<open, payout, collected, paid, coin, burned, journalVars, rowVars, seen, grant, active, faults>>

Stranger ==
  /\ Strangers /\ Fault
  /\ \/ ~open /\ open' = TRUE /\ UNCHANGED <<payout, accrued, collected, paid, coin, burned>>
     \/ \E kind \in AllKinds, n \in 1 .. MaxFees : ExecuteFee(kind, n)
  /\ UNCHANGED <<journalVars, rowVars, seen, grant, active>>

OwnerAccount ==
  /\ Owners /\ payout' = ~payout
  /\ UNCHANGED <<open, accrued, collected, paid, coin, burned, journalVars, rowVars, seen, grant, active, faults>>

-----------------------------------------------------------------------------
(* The runner.                                                             *)

live == ~grant.revoked

\* The chain's previous job, which must be done before this one does anything.
PredecessorDone(j) == j \in FeeJobs => job[<<j[1], 1 - j[2]>>] \in {"none", "done"}

\* A due job is leased once its unknown packet's fate is settled.
Start(j) ==
  /\ job[j] = "queued" /\ PredecessorDone(j)
  /\ pend[j] => packet[j] \in {"final", "dead", "noted"}
  /\ job' = [job EXCEPT ![j] = "running"] /\ seen' = [seen EXCEPT ![j] = [at |-> "run"]]
  /\ packet' = [packet EXCEPT ![j] = IF pend[j] /\ @ = "dead" THEN "noted" ELSE @]
  /\ UNCHANGED <<chainVars, form, amount, pend, tries, grant, active, faults>>

\* A worker dies or loses its lease; the job is due again.
Lapse(j) ==
  /\ Fault /\ job[j] = "running"
  /\ job' = [job EXCEPT ![j] = "queued"] /\ seen' = [seen EXCEPT ![j] = Idle]
  /\ UNCHANGED <<chainVars, journalVars, pend, tries, grant, active>>

Publish(j, out) ==
  LET n == IF out = "retry" THEN tries[j] + 1 ELSE tries[j] IN
  /\ job' = [job EXCEPT ![j] = CASE out \in {"done", "failed"} -> out
                                 [] out = "retry" /\ n >= MaxRetries -> "failed"
                                 [] OTHER -> "queued"]
  /\ tries' = [tries EXCEPT ![j] = IF out = "done" THEN 0 ELSE n]
  /\ pend' = [pend EXCEPT ![j] = out = "unknown"]
  /\ seen' = [seen EXCEPT ![j] = Idle]

Ends(j, out) == Publish(j, out) /\ UNCHANGED <<chainVars, journalVars, grant, active, faults>>

Goes(j, s) == seen' = [seen EXCEPT ![j] = s]
              /\ UNCHANGED <<chainVars, journalVars, rowVars, grant, active, faults>>

\* The durable sender: a packet in the journal answers for the operation; a new one needs a
\* grant the signer serves, else the job pauses.
Send(j, f, n) ==
  \/ /\ packet[j] \in {"none", "noted"} /\ live
     /\ packet' = [packet EXCEPT ![j] = "sent"]
     /\ form' = IF j = Setup THEN f ELSE form
     /\ amount' = IF j[1] = "token-burn" THEN [amount EXCEPT ![j[2]] = n] ELSE amount
     /\ Publish(j, "unknown") /\ UNCHANGED <<chainVars, grant, active, faults>>
  \/ packet[j] \in {"none", "noted"} /\ ~live /\ Ends(j, "yield")
  \/ packet[j] = "sent" /\ Ends(j, "unknown")
  \/ /\ packet[j] = "dead"
     /\ packet' = [packet EXCEPT ![j] = "noted"]
     /\ Publish(j, "retry") /\ UNCHANGED <<chainVars, form, amount, grant, active, faults>>

-----------------------------------------------------------------------------
(* The setup.                                                              *)

\* The finalized snapshot: nothing yet, an open cycle without all its accounts, or ready.
snapshot == IF ~open THEN "full" ELSE IF payout THEN "ready" ELSE "atas"

setupRead ==
  /\ seen[Setup].at = "run"
  /\ Goes(Setup, IF snapshot = "ready" THEN [at |-> "ready"] ELSE [at |-> "send", form |-> snapshot])

\* One operation id for both forms: another form than the journal's is refused for good.  A
\* confirmed packet is verified by the next pass.
setupSend ==
  LET f == seen[Setup].form IN
  /\ seen[Setup].at = "send"
  /\ \/ packet[Setup] # "none" /\ form # f /\ Ends(Setup, "failed")
     \/ packet[Setup] = "none" /\ Send(Setup, f, 0)
     \/ packet[Setup] # "none" /\ form = f /\ Send(Setup, f, 0)
     \/ packet[Setup] = "final" /\ form = f /\ Ends(Setup, "yield")

\* onReady: the activation is scheduled under the live setup grant, once.
schedule ==
  LET g == grant.kind = "fee-setup" /\ live IN
  /\ seen[Setup].at = "ready"
  /\ IF ~active /\ ~g THEN Ends(Setup, "failed")
     ELSE /\ job' = [job EXCEPT ![Activate] = IF ~active /\ @ = "none" THEN "queued" ELSE @]
          /\ seen' = [seen EXCEPT ![Setup] = [at |-> "scheduled"]]
          /\ UNCHANGED <<chainVars, journalVars, pend, tries, grant, active, faults>>

setupDone == seen[Setup].at = "scheduled" /\ Ends(Setup, "done")

-----------------------------------------------------------------------------

\* Fresh evidence, after the setup is done.
activateRead ==
  /\ seen[Activate].at = "run"
  /\ IF job[Setup] = "done" /\ snapshot = "ready" THEN Goes(Activate, [at |-> "ready"])
     ELSE Ends(Activate, "yield")

\* One transaction: the setup grant becomes the keeper's, the chains are seeded, the row is
\* written; the job completes after it.  A run that finds the row is done while its grant is
\* the latest and live.
activate ==
  /\ seen[Activate].at = "ready"
  /\ \/ active /\ Ends(Activate, IF grant.kind = "keeper" /\ live THEN "done" ELSE "yield")
     \/ ~active /\ Ends(Activate, "yield")    \* no live setup grant, or the reserve is short
     \/ /\ ~active /\ grant.kind = "fee-setup" /\ live
        /\ grant' = [kind |-> "keeper", revoked |-> FALSE] /\ active' = TRUE
        /\ job' = [j \in JobKeys |-> IF j \in Kinds \X {0} THEN "queued" ELSE job[j]]
        /\ seen' = [seen EXCEPT ![Activate] = [at |-> "active"]]
        /\ UNCHANGED <<chainVars, journalVars, pend, tries, faults>>

activateDone == seen[Activate].at = "active" /\ Ends(Activate, "done")

-----------------------------------------------------------------------------
(* The recurring chains.                                                   *)

\* The fee state and what the pool holds for the position, one snapshot.
feeSnapshot == [pool |-> accrued, owed |-> collected - paid, coin |-> coin]

payoutMissing == ~payout

Value(kind) == CASE kind = "fee-harvest" -> 2 * feeSnapshot.pool
                 [] kind = "distribution" -> feeSnapshot.owed
                 [] OTHER -> feeSnapshot.coin

\* A packet that may still land comes first; otherwise the operation must be worth it and
\* the payout possible.
feeRead(j) ==
  /\ j \in FeeJobs /\ seen[j].at = "run"
  /\ IF packet[j] \in {"none", "dead", "noted"}
        /\ (Value(j[1]) < MinValue \/ (j[1] = "distribution" /\ payoutMissing))
     THEN Goes(j, [at |-> "over"])
     ELSE Goes(j, [at |-> "send", burn |-> IF j[1] = "token-burn" THEN coin ELSE 0])

feeSend(j) ==
  /\ j \in FeeJobs /\ seen[j].at = "send"
  /\ \/ packet[j] = "final" /\ Goes(j, [at |-> "over"])
     \/ Send(j, "none", seen[j].burn)

\* Confirmed or deferred: the successor is enqueued, then the job completes.
feeNext(j) ==
  LET k == <<j[1], 1 - j[2]>> IN
  /\ j \in FeeJobs /\ seen[j].at = "over"
  /\ IF job[k] \in {"none", "done"}
     THEN /\ job' = [job EXCEPT ![k] = "queued"] /\ packet' = [packet EXCEPT ![k] = "none"]
     ELSE UNCHANGED <<job, packet>>
  /\ seen' = [seen EXCEPT ![j] = [at |-> "next"]]
  /\ UNCHANGED <<chainVars, form, amount, pend, tries, grant, active, faults>>

feeDone(j) == j \in FeeJobs /\ seen[j].at = "next" /\ Ends(j, "done")

-----------------------------------------------------------------------------
(* The operator.                                                           *)

Revoke ==
  /\ Operators /\ live /\ grant' = [grant EXCEPT !.revoked = TRUE]
  /\ UNCHANGED <<chainVars, journalVars, rowVars, seen, active, faults>>

\* MUTANT: a revoked grant is renewed.
RenewAny ==
  /\ Operators /\ active /\ grant' = [kind |-> "renewed", revoked |-> FALSE]
  /\ UNCHANGED <<chainVars, journalVars, rowVars, seen, active, faults>>

renewFeeGrant ==
  /\ Operators /\ active /\ live
  /\ grant' = [kind |-> "renewed", revoked |-> FALSE]
  /\ UNCHANGED <<chainVars, journalVars, rowVars, seen, active, faults>>

-----------------------------------------------------------------------------
Step(j) ==
  \/ j = Setup /\ (setupRead \/ setupSend \/ schedule \/ setupDone)
  \/ j = Activate /\ (activateRead \/ activate \/ activateDone)
  \/ feeRead(j) \/ feeSend(j) \/ feeNext(j) \/ feeDone(j)

Next ==
  \/ \E j \in JobKeys : Land(j) \/ Die(j) \/ Start(j) \/ Lapse(j) \/ Step(j)
  \/ Accrue \/ Stranger \/ OwnerAccount \/ Revoke \/ renewFeeGrant

Spec == Init /\ [][Next]_vars

-----------------------------------------------------------------------------

\* A chain has at most one packet whose fate is open, although a successor is enqueued before
\* its predecessor completes and either may be run again (fee-handlers.mjs 18-30).
OnePacketPerChain ==
  \A k \in Kinds : ~(packet[<<k, 0>>] = "sent" /\ packet[<<k, 1>>] = "sent")

\* A chain never ends: while none of its jobs is left failed, one of them is waiting or running,
\* whatever crashed between the enqueue and the completion (fee-handlers.mjs 29-31).
ChainGoesOn ==
  active => \A k \in Kinds : \E i \in {0, 1} : job[<<k, i>>] \in {"queued", "running", "failed"}

\* No job and no renewal brings back a right the operator revoked: a revoked latest grant stays
\* the latest (fee-activation.mjs 42-43, renew-fee-grant.mjs 2-4 and 24).
RevokedStays == grant.revoked => grant'.revoked

\* Recurring jobs run only for a campaign whose cycle is open, whose setup is done and whose
\* setup grant was swapped (fee-activation.mjs 52-82).
ActiveAfterSetup ==
  /\ active => open /\ job[Setup] = "done" /\ grant.kind # "fee-setup"
  /\ \A j \in FeeJobs : job[j] # "none" => active

-----------------------------------------------------------------------------

=============================================================================
