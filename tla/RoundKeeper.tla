---------------------------- MODULE RoundKeeper ----------------------------
(***************************************************************************)
(* The keeper of a funding-first round: the lifecycle controller of        *)
(* jobs/lifecycle-funding-first.mjs, the job handlers it schedules         *)
(* (jobs/handlers-funding-first.mjs), the chain adapter they act through   *)
(* (protocol-v2/chain-adapter.mjs) and the campaign program they act on.   *)
(*                                                                         *)
(* The chain is the finalized ledger the version-3 workers read.  Its      *)
(* amounts are abstracted to what the handlers tell apart: a receipt has   *)
(* been paid nothing, its excess or all of it (FundingFirst has the        *)
(* amounts).  A send leaves a packet in the journal (DurableSend has its   *)
(* protocol) and is unknown until the ledger settles it.  A handler reads  *)
(* the record, and later the clock and the rest, so the ledger moves in    *)
(* between; a lease may lapse there or after the packet left (Jobs has the *)
(* leases).                                                                *)
(***************************************************************************)
EXTENDS Naturals, FiniteSets, Sequences

CONSTANTS
  Receipts,      \* how many receipts the round has, in address order
  SliceSize,     \* maxReceipts: receipts one run may process
  MaxRetries,    \* the runner's bound on counted retries
  MaxRunning,    \* jobs running at once
  Loads,         \* the totals the round may close with
  Displays,      \* whether the registered display may differ from the opening commitment
  Grants,        \* the grants a campaign may have besides its initial one
  Outsiders,     \* whether somebody else cranks the permissionless tags
  MaxFaults      \* dead packets and lapsed leases

R == 1 .. Receipts

FUNDING == "funding"
CLOSED == "closed"
REFUND_ONLY == "refund-only"
LIVE == "live"

\* The operation keys of the jobs the keeper runs, and the ones it only schedules.
Handled == {"control", "launch", "close", "refunds:failure", "refunds:excess",
            "account", "collateral"}
Keys == Handled \cup {"table", "operating-return", "fee-setup"}

\* The operations of the packet journal, and none.
NoRef == <<"none">>
Ops == {<<"launch">>, <<"close", CLOSED>>, <<"close", REFUND_ONLY>>, <<"collateral">>}
         \cup {<<"refund", r, level>> : r \in R, level \in 0 .. 2}
         \cup {<<"account", r>> : r \in R}

VARIABLES
  now,        \* the chain clock: 0 funding open, 1 launch window, 2 after it
  load,       \* the committed total: under the soft cap, up to the hard cap, over it
  phase, sealed, paid, accounted, collateral,   \* the campaign record and its extension
  packets,    \* the journal: none, sent, final, dead (settled, not noted), noted
  plan,       \* the lookup table plan
  display,    \* the registered display hashes to the opening commitment
  cap,        \* the newest capability: the initial grant, a refund grant or none live
  stage,      \* standard_lifecycles.stage
  job, pend, tries,   \* the job rows: state, reconcile facts, counted retries
  seen,       \* per job: what its running handler has read
  faults      \* faults so far

chainVars == <<now, load, phase, sealed, paid, accounted, collateral>>
jobVars == <<job, pend, tries, seen>>
vars == <<chainVars, packets, plan, display, cap, stage, jobVars, faults>>

Idle == [at |-> "idle"]

Init ==
  /\ now = 0 /\ load \in Loads /\ phase = FUNDING /\ sealed = FALSE
  /\ paid = [r \in R |-> 0] /\ accounted = {} /\ collateral = "held"
  /\ packets = [op \in Ops |-> "none"]
  /\ plan = "none" /\ display \in Displays /\ cap = "initial"
  /\ stage = "scheduled"
  /\ job = [k \in Keys |-> IF k = "control" THEN "queued" ELSE "none"]
  /\ pend = [k \in Handled |-> NoRef]
  /\ tries = [k \in Handled |-> 0]
  /\ seen = [k \in Handled |-> Idle]
  /\ faults = 0

-----------------------------------------------------------------------------
(* The campaign program.                                                   *)

\* The failure rule at or after the deadline (launchFailed).
launchFailed(p) == p = REFUND_ONLY \/ load = "under" \/ (now = 2 /\ p # LIVE)

\* What a receipt is owed in all: 2 is the whole commitment, 1 its excess.
refundable(failed) == IF failed THEN 2 ELSE IF load = "over" THEN 1 ELSE 0

\* The program accepts the instruction of the packet.
Accepts(op) ==
  CASE op[1] = "launch" -> now = 1 /\ phase \in {FUNDING, CLOSED} /\ load # "under"
    [] op[1] \in {"close", "refund"} -> now >= 1
    [] op[1] = "account" -> sealed /\ phase \in {CLOSED, LIVE} /\ op[2] \notin accounted
    [] op[1] = "collateral" ->
         /\ collateral = "held"
         /\ phase = REFUND_ONLY \/ (phase = LIVE /\ sealed /\ accounted = R)

PhaseAfterMoney == IF launchFailed(phase) THEN REFUND_ONLY ELSE IF phase = FUNDING THEN CLOSED ELSE phase

Execute(op) ==
  /\ Accepts(op)
  /\ phase' = CASE op[1] = "launch" -> LIVE
                [] op[1] = "close" -> IF phase = LIVE THEN LIVE ELSE PhaseAfterMoney
                [] op[1] = "refund" -> PhaseAfterMoney
                [] OTHER -> phase
  /\ sealed' = (sealed \/ phase' \in {CLOSED, LIVE})
  /\ paid' = IF op[1] = "refund" THEN [paid EXCEPT ![op[2]] = refundable(launchFailed(phase))] ELSE paid
  /\ accounted' = IF op[1] = "account" THEN accounted \cup {op[2]} ELSE accounted
  /\ collateral' = IF op[1] = "collateral" THEN "returned" ELSE collateral
  /\ UNCHANGED <<now, load>>

\* A sent packet lands and executes; refused by the program or expired, it dies.
Land(op) ==
  /\ packets[op] = "sent"
  /\ Execute(op)
  /\ packets' = [packets EXCEPT ![op] = "final"]
  /\ UNCHANGED <<plan, display, cap, stage, jobVars, faults>>

Fault == faults < MaxFaults /\ faults' = faults + 1

Die(op) ==
  /\ Fault
  /\ packets[op] = "sent"
  /\ packets' = [packets EXCEPT ![op] = "dead"]
  /\ UNCHANGED <<chainVars, plan, display, cap, stage, jobVars>>

\* Closing, refunding and accounting are open to everybody.
Crank(op) ==
  /\ Outsiders /\ op[1] \in {"close", "refund", "account"}
  /\ Execute(op)
  /\ UNCHANGED <<packets, plan, display, cap, stage, jobVars, faults>>

Tick ==
  /\ now < 2
  /\ now' = now + 1
  /\ UNCHANGED <<load, phase, sealed, paid, accounted, collateral, packets, plan, display, cap,
                 stage, jobVars, faults>>

\* A grant expires or is revoked; an operator issues a refund-only continuation.
GrantLapses == cap # "none" /\ "none" \in Grants /\ cap' = "none" /\ UNCHANGED <<chainVars, packets, plan, display, stage, jobVars, faults>>

GrantRefunds == cap = "none" /\ "refund" \in Grants /\ cap' = "refund" /\ UNCHANGED <<chainVars, packets, plan, display, stage, jobVars, faults>>

-----------------------------------------------------------------------------
(* Sending through the durable journal.                                    *)

sendStatus(op) == CASE packets[op] = "final" -> "confirmed"
                    [] packets[op] = "dead" -> "failed"
                    [] OTHER -> "unknown"

\* The journal after the send: a fresh attempt, or the settled one noted.
Sent(op) == [packets EXCEPT ![op] = CASE @ \in {"none", "noted"} -> "sent"
                                      [] @ = "dead" -> "noted"
                                      [] OTHER -> @]

\* The signer serves a fresh packet only under a grant with its tag.
Served(op) == \/ packets[op] \notin {"none", "noted"}
              \/ cap = "initial"
              \/ cap = "refund" /\ op[1] \in {"refund", "close", "collateral"}

-----------------------------------------------------------------------------
(* The runner: lease, reconcile, run, publish.                             *)

Running == {k \in Handled : job[k] = "running"}

\* What readCampaign and readExtension return, cut to the fields the handler uses.
Record(k) ==
  CASE k = "account" -> [at |-> "read", phase |-> phase, sealed |-> sealed, all |-> accounted = R]
    [] k = "collateral" -> [at |-> "read", phase |-> phase, sealed |-> sealed, all |-> accounted = R,
                            returned |-> collateral = "returned"]
    [] k = "control" -> [at |-> "read", phase |-> phase, whole |-> \A r \in R : paid[r] = 2]
    [] OTHER -> [at |-> "read", phase |-> phase]

\* The status reconcile reads from the chain; the row notes a settled one.
reconcileWith(op) == CASE packets[op] = "final" -> "confirmed"
                       [] packets[op] \in {"dead", "noted"} -> "failed"
                       [] OTHER -> "unresolved"

Noted(op) == IF op = NoRef THEN packets
             ELSE [packets EXCEPT ![op] = IF @ = "dead" THEN "noted" ELSE @]

\* An unresolved packet sends the job back; otherwise the handler reads the record.
Start(k) ==
  /\ job[k] = "queued" /\ Cardinality(Running) < MaxRunning
  /\ pend[k] # NoRef => reconcileWith(pend[k]) # "unresolved"
  /\ job' = [job EXCEPT ![k] = "running"]
  /\ seen' = [seen EXCEPT ![k] = Record(k)]
  /\ packets' = Noted(pend[k])
  /\ UNCHANGED <<chainVars, plan, display, cap, stage, pend, tries, faults>>

\* The lease lapses: the next runner finds the row as it was.
Lapse(k) ==
  /\ Fault
  /\ job[k] = "running"
  /\ job' = [job EXCEPT ![k] = "queued"]
  /\ seen' = [seen EXCEPT ![k] = Idle]
  /\ UNCHANGED <<chainVars, packets, plan, display, cap, stage, pend, tries>>

NextTries(k, out) == IF out = "retry" THEN tries[k] + 1 ELSE tries[k]

\* The row after the handler's outcome.
Publish(k, out, ref) ==
  /\ tries' = [tries EXCEPT ![k] = NextTries(k, out)]
  /\ job' = [job EXCEPT ![k] = CASE out \in {"done", "failed"} -> out
                                 [] out = "retry" /\ NextTries(k, out) >= MaxRetries -> "failed"
                                 [] OTHER -> "queued"]
  /\ pend' = [pend EXCEPT ![k] = IF out = "unknown" THEN ref ELSE NoRef]
  /\ seen' = [seen EXCEPT ![k] = Idle]

\* A handler that decides without sending.
Settle(k, out) ==
  /\ Publish(k, out, NoRef)
  /\ UNCHANGED <<chainVars, packets, plan, display, cap, stage, faults>>

\* A handler that sends: an unserved packet pauses the job, a fresh or unsettled one is
\* unknown, a dead one is retried, a confirmed one ends as the handler says.
SendAs(k, op, confirmed) ==
  /\ IF ~Served(op)
     THEN /\ Publish(k, IF pend[k] # NoRef THEN "unknown" ELSE "yield", pend[k])
          /\ UNCHANGED packets
     ELSE /\ Publish(k, CASE sendStatus(op) = "unknown" -> "unknown"
                          [] sendStatus(op) = "failed" -> "retry"
                          [] OTHER -> confirmed, op)
          /\ packets' = Sent(op)
  /\ UNCHANGED <<chainVars, display, cap, stage, faults>>

\* The worker dies after the packet left and before the outcome is published.
SendLost(k, op) ==
  /\ Fault
  /\ Served(op) /\ packets[op] \in {"none", "noted"}
  /\ packets' = Sent(op)
  /\ job' = [job EXCEPT ![k] = "queued"]
  /\ seen' = [seen EXCEPT ![k] = Idle]
  /\ UNCHANGED <<chainVars, display, cap, stage, pend, tries>>

Send(k, op, confirmed) == SendAs(k, op, confirmed) \/ SendLost(k, op)

failedRound(k) == now >= 1 /\ launchFailed(seen[k].phase)

-----------------------------------------------------------------------------
(* The handlers.  Each runs on the record it read and on the clock now.    *)

\* The lookup table job (TablePlans has its packets): in one step it completes the plan,
\* is not needed any more, or gives up.
launchTable ==
  /\ job["table"] = "queued"
  /\ \/ phase = LIVE /\ job' = [job EXCEPT !["table"] = "done"] /\ UNCHANGED plan
     \/ /\ phase # LIVE /\ now >= 1 /\ launchFailed(phase)
        /\ job' = [job EXCEPT !["table"] = "failed"] /\ UNCHANGED plan
     \/ /\ phase # LIVE /\ ~(now >= 1 /\ launchFailed(phase)) /\ cap = "initial"
        /\ job' = [job EXCEPT !["table"] = "done"] /\ plan' = "complete"
  /\ UNCHANGED <<chainVars, packets, display, cap, stage, pend, tries, seen, faults>>

\* A launched campaign is read back and verified.
Verified == IF phase = LIVE THEN "done" ELSE "retry"

launchFundingFirst ==
  LET k == "launch" IN
  /\ job[k] = "running"
  /\ \/ seen[k].phase = LIVE /\ Settle(k, Verified)
     \/ seen[k].phase # LIVE /\ now = 0 /\ Settle(k, "yield")
     \/ seen[k].phase # LIVE /\ now > 0 /\ failedRound(k) /\ Settle(k, "failed")
     \/ \* metadata pins not confirmed yet
        seen[k].phase # LIVE /\ now > 0 /\ ~failedRound(k) /\ Settle(k, "yield")
     \/ /\ seen[k].phase # LIVE /\ now > 0 /\ ~failedRound(k) /\ plan # "complete"
        /\ job' = [job EXCEPT ![k] = "queued", !["table"] = IF @ = "none" THEN "queued" ELSE @]
        /\ pend' = [pend EXCEPT ![k] = NoRef]
        /\ seen' = [seen EXCEPT ![k] = Idle]
        /\ UNCHANGED <<chainVars, packets, plan, display, cap, stage, tries, faults>>
     \/ /\ seen[k].phase # LIVE /\ now > 0 /\ ~failedRound(k) /\ plan = "complete"
        /\ IF display THEN Send(k, <<"launch">>, Verified) /\ UNCHANGED plan ELSE Settle(k, "failed")

closeFundingFirst ==
  LET k == "close"
      target == IF failedRound(k) THEN REFUND_ONLY ELSE CLOSED IN
  /\ job[k] = "running"
  /\ \/ seen[k].phase \in {LIVE, REFUND_ONLY} /\ Settle(k, "done")
     \/ seen[k].phase \in {FUNDING, CLOSED} /\ now = 0 /\ Settle(k, "yield")
     \/ seen[k].phase = target /\ now > 0 /\ target = CLOSED /\ Settle(k, "done")
     \/ /\ seen[k].phase \in {FUNDING, CLOSED} \ {target} /\ now > 0
        /\ Send(k, <<"close", target>>, IF phase = target THEN "done" ELSE "retry")
        /\ UNCHANGED plan

\* The packets a run still has to send, in address order, and the ones its slice takes.
Slice(todo, n) == SubSeq(todo, 1, IF Len(todo) < n THEN Len(todo) ELSE n)

\* The first packet of the slice whose send does not return confirmed, or none.
FirstOpen(slice) == {i \in 1 .. Len(slice) :
  /\ sendStatus(slice[i]) # "confirmed"
  /\ \A h \in 1 .. (i - 1) : sendStatus(slice[h]) = "confirmed"}

\* Process a slice: stop at the first send that is not confirmed, yield when receipts are
\* left, and reconcile against the chain when none is.
Process(k, todo, reconciled) ==
  \E n \in 1 .. SliceSize :
    LET slice == Slice(todo, n) IN
    \/ \E i \in FirstOpen(slice) : Send(k, slice[i], "yield") /\ UNCHANGED plan
    \/ /\ FirstOpen(slice) = {}
       /\ Settle(k, IF Len(todo) > n THEN "yield" ELSE IF reconciled THEN "done" ELSE "retry")

InOrder(S) == SelectSeq([i \in R |-> i], LAMBDA r : r \in S)

refundsFundingFirst(k) ==
  LET owed == InOrder({r \in R : refundable(failedRound(k)) > paid[r]}) IN
  /\ job[k] = "running"
  /\ \/ now = 0 /\ Settle(k, "yield")
     \/ now > 0 /\ Process(k, [i \in 1 .. Len(owed) |-> <<"refund", owed[i], paid[owed[i]]>>], owed = <<>>)

\* The adapter lists receipts without their accounted flag: every receipt is still to do.
listAccounted == {}

accountFundingFirst ==
  LET k == "account"
      todo == InOrder(R \ listAccounted) IN
  /\ job[k] = "running"
  /\ \/ ~(seen[k].sealed /\ seen[k].phase \in {CLOSED, LIVE}) /\ Settle(k, "retry")
     \/ seen[k].sealed /\ seen[k].all /\ Settle(k, "done")
     \/ /\ seen[k].sealed /\ seen[k].phase \in {CLOSED, LIVE} /\ ~seen[k].all
        /\ Process(k, [i \in 1 .. Len(todo) |-> <<"account", todo[i]>>], accounted = R)

collateralReturnFundingFirst ==
  LET k == "collateral"
      done == \/ seen[k].returned
              \/ pend[k] # NoRef /\ reconcileWith(pend[k]) = "confirmed"
      due == \/ seen[k].phase = LIVE /\ seen[k].sealed /\ seen[k].all
             \/ seen[k].phase = REFUND_ONLY IN
  /\ job[k] = "running"
  /\ \/ done /\ Settle(k, "done")
     \/ ~done /\ ~due /\ Settle(k, "retry")
     \/ ~done /\ due /\ Send(k, <<"collateral">>, "done") /\ UNCHANGED plan

-----------------------------------------------------------------------------
(* The lifecycle controller.                                               *)

\* The excess every receipt of a live round must have been paid.
ExcessPaid == \A r \in R : paid[r] >= refundable(FALSE)

\* The verifier's liability: unpaid excess and the collateral still held.
Liability == ~(ExcessPaid /\ collateral = "returned")

\* After the record the controller reads the clock and, of a live campaign, the custody.
ControlLook ==
  /\ seen["control"].at = "read"
  /\ seen' = [seen EXCEPT !["control"] =
       [at |-> "looked", phase |-> @.phase, clock |-> now, liability |-> Liability,
        failed |-> launchFailed(@.phase), whole |-> @.whole]]
  /\ UNCHANGED <<chainVars, packets, plan, display, cap, stage, job, pend, tries, faults>>

\* The transaction ends: new jobs are queued, the controller's own row is published.
Schedule(new, out, to) ==
  /\ job' = [k \in Keys |-> IF k = "control" THEN IF out = "done" THEN "done" ELSE "queued"
                            ELSE IF k \in new /\ job[k] = "none" THEN "queued" ELSE job[k]]
  /\ seen' = [seen EXCEPT !["control"] = Idle]
  /\ stage' = to
  /\ UNCHANGED <<chainVars, packets, plan, display, cap, pend, tries, faults>>

Wait(new) == Schedule(new, "yield", stage)

Initial == cap = "initial"
Continuation == cap = "refund" /\ seen["control"].clock >= 1 /\ seen["control"].failed

\* Mutant: the collateral return of a failed round is waited for and never scheduled.
FailedRoundForgets(s) ==
  \/ s.phase # REFUND_ONLY /\ job["close"] # "done" /\ Wait({"close"})
  \/ /\ s.phase = REFUND_ONLY \/ job["close"] = "done"
     /\ IF job["refunds:failure"] = "done" /\ s.whole /\ job["collateral"] = "done"
        THEN Schedule({"close", "operating-return"}, "done", "refunded")
        ELSE Wait({"close", "refunds:failure"})

\* A failed round: close, then every refund, then the collateral, then the reserve goes back.
FailedRound(s) ==
  \/ /\ s.phase # REFUND_ONLY /\ job["close"] # "done"
     /\ Wait({"close"})
  \/ /\ s.phase = REFUND_ONLY \/ job["close"] = "done"
     /\ \/ /\ ~(job["refunds:failure"] = "done" /\ s.whole)
           /\ Wait({"close", "refunds:failure"})
        \/ /\ job["refunds:failure"] = "done" /\ s.whole
           /\ IF job["collateral"] # "done"
              THEN Wait({"close", "refunds:failure", "collateral"})
              ELSE Schedule({"close", "operating-return"}, "done", "refunded")

\* Mutant: the handoff does not wait for the collateral and the liability.
LiveRoundEarly(s) ==
  \/ /\ ~(job["refunds:excess"] = "done" /\ job["account"] = "done")
     /\ Wait({"refunds:excess", "account"})
  \/ /\ job["refunds:excess"] = "done" /\ job["account"] = "done"
     /\ Schedule({"collateral", "fee-setup"}, "done", "fee-setup")

\* A live round: excess refunds and accounting, the collateral, and the handoff.
LiveRound(s) ==
  \/ /\ ~(job["refunds:excess"] = "done" /\ job["account"] = "done")
     /\ Wait({"refunds:excess", "account"})
  \/ /\ job["refunds:excess"] = "done" /\ job["account"] = "done" /\ job["collateral"] # "done"
     /\ Wait({"collateral"})
  \/ /\ job["refunds:excess"] = "done" /\ job["account"] = "done" /\ job["collateral"] = "done"
     /\ \/ Wait({})    \* a liability is left, or the operating reserve is below its minimum
        \/ ~s.liability /\ Schedule({"fee-setup"}, "done", "fee-setup")

control ==
  LET s == seen["control"] IN
  /\ s.at = "looked"
  /\ \/ ~Initial /\ ~Continuation /\ Wait({})
     \/ Initial /\ s.clock = 0 /\ Wait({"table"})
     \/ (Initial \/ Continuation) /\ s.clock > 0 /\ s.failed /\ FailedRound(s)
     \/ Initial /\ s.clock > 0 /\ ~s.failed /\ s.phase # LIVE /\ Wait({"launch"})
     \/ Initial /\ s.clock > 0 /\ ~s.failed /\ s.phase = LIVE /\ LiveRound(s)

-----------------------------------------------------------------------------
Next ==
  \/ \E op \in Ops : Land(op) \/ Die(op) \/ Crank(op)
  \/ Tick \/ GrantLapses \/ GrantRefunds
  \/ \E k \in Handled : Start(k) \/ Lapse(k)
  \/ launchTable \/ launchFundingFirst \/ closeFundingFirst
  \/ refundsFundingFirst("refunds:failure") \/ refundsFundingFirst("refunds:excess")
  \/ accountFundingFirst \/ collateralReturnFundingFirst
  \/ ControlLook \/ control

Spec == Init /\ [][Next]_vars

-----------------------------------------------------------------------------

\* The controller hands a campaign to the fee setup only when nothing is owed any more: it
\* is live, every receipt has its excess back and is accounted, and the collateral is
\* returned (lifecycle-funding-first.mjs 111-124), whatever was read before the ledger moved.
HandoffComplete ==
  stage = "fee-setup" =>
    /\ phase = LIVE /\ collateral = "returned" /\ accounted = R
    /\ \A r \in R : load = "over" => paid[r] >= 1

\* The controller gives the operating reserve back (stage refunded, the operating-return
\* job) only after a round that never launched has paid every commitment in full and
\* returned its collateral (lifecycle-funding-first.mjs 91-105).
RefundedComplete ==
  stage = "refunded" \/ job["operating-return"] # "none" =>
    /\ phase = REFUND_ONLY /\ collateral = "returned"
    /\ \A r \in R : paid[r] = 2

\* A job that reports done has done its work on the chain: what its handler concluded from
\* an older record, a reconciled packet or somebody else's transaction is true
\* (handlers-funding-first.mjs).
DoneIsOnChain ==
  /\ job["launch"] = "done" => phase = LIVE
  /\ job["close"] = "done" => phase \in {LIVE, REFUND_ONLY}
  /\ job["refunds:failure"] = "done" => \A r \in R : paid[r] = 2
  /\ job["refunds:excess"] = "done" => \A r \in R : load = "over" => paid[r] >= 1
  /\ job["account"] = "done" => accounted = R
  /\ job["collateral"] = "done" => collateral = "returned"

\* A round whose grant has a refund-only continuation schedules nothing that launches,
\* accounts or hands off: it only closes, refunds and returns (lifecycle-funding-first.mjs
\* 77-80 and 106).
ContinuationOnlyReturns ==
  cap # "initial" /\ control =>
    \A k \in {"table", "launch", "refunds:excess", "account", "fee-setup"} : job'[k] = job[k]

-----------------------------------------------------------------------------
(* Liveness: the runner polls, so a due job starts and its handler ends; a *)
(* packet the program accepts lands; time passes; faults end.  The last    *)
(* conjunct is the operating reserve being funded in the end.              *)

Run(k) == CASE k = "launch" -> launchFundingFirst
            [] k = "close" -> closeFundingFirst
            [] k = "account" -> accountFundingFirst
            [] k = "collateral" -> collateralReturnFundingFirst
            [] k = "control" -> ControlLook \/ control
            [] OTHER -> refundsFundingFirst(k)

Fairness ==
  /\ WF_vars(Tick) /\ WF_vars(\E op \in Ops : Land(op)) /\ WF_vars(launchTable)
  /\ \A k \in Handled : WF_vars(Start(k)) /\ WF_vars(Run(k))
  /\ SF_vars(control /\ stage' # stage)

FairSpec == Spec /\ Fairness

\* Every round ends: it is handed to the fee setup or fully refunded, unless its grant
\* lapsed or a job is left failed for an operator to recover.
Ended == stage # "scheduled" \/ cap # "initial" \/ \E k \in Keys : job[k] = "failed"

\* Accounting that was scheduled finishes (handlers-funding-first.mjs 164-166: "Done when the
\* accounted count equals the sealed receipt count"), unless the grant lapsed or it failed.
AccountingFinishes ==
  (job["account"] = "queued") ~> (job["account"] \in {"done", "failed"} \/ cap # "initial")
=============================================================================
