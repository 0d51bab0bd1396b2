--------------------------- MODULE SettledKeeper ---------------------------
(***************************************************************************)
(* The keeper of a per-receipt round: the lifecycle controller of          *)
(* jobs/lifecycle.mjs and the settle, refund and launch handlers of        *)
(* jobs/handlers.mjs, with receipts sent in batches                        *)
(* (protocol-v3/receipt-batch.mjs).  A batch is one packet: it executes    *)
(* for all its receipts or for none.  As in RoundKeeper the ledger moves   *)
(* between a handler's reads, a packet may die, a lease may lapse, and     *)
(* anybody may settle or refund a receipt.                                 *)
(***************************************************************************)
EXTENDS Naturals, FiniteSets, Sequences

CONSTANTS
  Receipts,      \* receipts of the round, in address order
  BatchSize,     \* receipts of one packet
  SliceSize,     \* receipts one run may process
  MaxRetries, Loads, Outsiders, MaxFaults

R == 1 .. Receipts
Jobs == {"control", "settlement", "refunds:failure", "refunds:excess", "launch"}
Refunds == {"refunds:failure", "refunds:excess"}
Groups == {S \in SUBSET R : S # {} /\ Cardinality(S) <= BatchSize}

\* Packets: a settled group, a refunded group with what each receipt had been paid, the launch.
NoRef == <<"none">>
Ops == {<<"launch">>} \cup {<<"settle", S>> : S \in Groups}
         \cup {<<"refund", f>> : f \in UNION {[S -> 0 .. 1] : S \in Groups}}

VARIABLES
  now, load, phase, settled, paid,   \* the ledger: clock, total, record, receipts
  packets,        \* the journal, as in RoundKeeper
  stage,          \* standard_lifecycles.stage
  job, pend, tries, seen, faults

chainVars == <<now, load, phase, settled, paid>>
rowVars == <<job, pend, tries>>
vars == <<chainVars, packets, stage, rowVars, seen, faults>>

Idle == [at |-> "idle"]

Init ==
  /\ now = 0 /\ load \in Loads /\ phase = "funding" /\ settled = {} /\ paid = [r \in R |-> 0]
  /\ packets = [op \in Ops |-> "none"] /\ stage = "scheduled"
  /\ job = [k \in Jobs |-> IF k = "control" THEN "queued" ELSE "none"]
  /\ pend = [k \in Jobs |-> NoRef] /\ tries = [k \in Jobs |-> 0]
  /\ seen = [k \in Jobs |-> Idle] /\ faults = 0

-----------------------------------------------------------------------------
(* The program.                                                            *)

launchFailed(p) == p = "refund-only" \/ load = "under" \/ (now = 2 /\ p # "live")

refundable(failed) == IF failed THEN 2 ELSE IF load = "over" THEN 1 ELSE 0

launchReady == /\ now = 1 /\ phase \in {"funding", "closed"} /\ load # "under" /\ settled = R

\* One group settles or is refunded, or the campaign launches.
ExecuteSettle(S) ==
  /\ now >= 1 /\ S \cap settled = {}
  /\ settled' = settled \cup S
  /\ UNCHANGED <<now, load, phase, paid>>

ExecuteRefund(S) ==
  /\ now >= 1
  /\ paid' = [r \in R |-> IF r \in S THEN refundable(launchFailed(phase)) ELSE paid[r]]
  /\ phase' = IF launchFailed(phase) THEN "refund-only" ELSE IF phase = "funding" THEN "closed" ELSE phase
  /\ UNCHANGED <<now, load, settled>>

ExecuteLaunch == launchReady /\ phase' = "live" /\ UNCHANGED <<now, load, settled, paid>>

Execute(op) ==
  \/ op[1] = "settle" /\ ExecuteSettle(op[2])
  \/ op[1] = "refund" /\ ExecuteRefund(DOMAIN op[2])
  \/ op[1] = "launch" /\ ExecuteLaunch

Land(op) ==
  /\ packets[op] = "sent" /\ Execute(op)
  /\ packets' = [packets EXCEPT ![op] = "final"]
  /\ UNCHANGED <<stage, rowVars, seen, faults>>

Fault == faults < MaxFaults /\ faults' = faults + 1

Die(op) ==
  /\ Fault /\ packets[op] = "sent"
  /\ packets' = [packets EXCEPT ![op] = "dead"]
  /\ UNCHANGED <<chainVars, stage, rowVars, seen>>

\* A packet the program refuses for good is dead without a fault.
Refused(op) ==
  /\ packets[op] = "sent"
  /\ \/ op[1] = "settle" /\ op[2] \cap settled # {}
     \/ op[1] = "launch" /\ (phase \in {"live", "refund-only"} \/ now = 2)
  /\ packets' = [packets EXCEPT ![op] = "dead"]
  /\ UNCHANGED <<chainVars, stage, rowVars, seen, faults>>

Crank(r) ==
  /\ Outsiders /\ Fault /\ (ExecuteSettle({r}) \/ ExecuteRefund({r}))
  /\ UNCHANGED <<packets, stage, rowVars, seen>>

Tick == now < 2 /\ now' = now + 1
        /\ UNCHANGED <<load, phase, settled, paid, packets, stage, rowVars, seen, faults>>

-----------------------------------------------------------------------------
(* The runner and the sends.                                               *)

\* The record a job reads first, down to what its handler uses.
Record(k) ==
  CASE k = "settlement" -> [at |-> "read"]
    [] k \in Refunds -> [at |-> "read", phase |-> phase]
    [] k = "launch" -> [at |-> "read", phase |-> phase, settled |-> settled = R]
    [] OTHER -> [at |-> "read", phase |-> phase, settled |-> settled = R,
                 whole |-> \A r \in R : paid[r] = 2, excess |-> \A r \in R : paid[r] = refundable(FALSE)]

\* Lease the job, settle the fate of its unknown packet, read the record.
Start(k) ==
  /\ job[k] = "queued"
  /\ pend[k] # NoRef => packets[pend[k]] \notin {"none", "sent"}
  /\ job' = [job EXCEPT ![k] = "running"]
  /\ seen' = [seen EXCEPT ![k] = Record(k)]
  /\ packets' = [op \in Ops |-> IF op = pend[k] /\ packets[op] = "dead" THEN "noted" ELSE packets[op]]
  /\ UNCHANGED <<chainVars, stage, pend, tries, faults>>

Lapse(k) ==
  /\ Fault /\ job[k] = "running"
  /\ job' = [job EXCEPT ![k] = "queued"] /\ seen' = [seen EXCEPT ![k] = Idle]
  /\ UNCHANGED <<chainVars, packets, stage, pend, tries>>

Publish(k, out, ref) ==
  LET n == IF out = "retry" THEN tries[k] + 1 ELSE tries[k] IN
  /\ tries' = [tries EXCEPT ![k] = n]
  /\ job' = [job EXCEPT ![k] = CASE out \in {"done", "failed"} -> out
                                 [] out = "retry" /\ n >= MaxRetries -> "failed"
                                 [] OTHER -> "queued"]
  /\ pend' = [pend EXCEPT ![k] = ref]
  /\ seen' = [seen EXCEPT ![k] = Idle]

Settle(k, out) == Publish(k, out, NoRef) /\ UNCHANGED <<chainVars, packets, stage, faults>>

\* The run goes on with these packets to send, having processed n receipts.
Sending(k, failed, todo, n) ==
  seen' = [seen EXCEPT ![k] = [at |-> "send", failed |-> failed, todo |-> todo, n |-> n]]

-----------------------------------------------------------------------------
(* One packet of a run: sent or found in the journal, then awaited.        *)

Size(op) == CASE op[1] = "settle" -> Cardinality(op[2])
              [] op[1] = "refund" -> Cardinality(DOMAIN op[2])
              [] OTHER -> 1

InSlice(s) == s.at = "send" /\ s.todo # <<>> /\ s.n < SliceSize

SendPacket(k) ==
  /\ InSlice(seen[k]) /\ packets[Head(seen[k].todo)] \in {"none", "noted"}
  /\ packets' = [packets EXCEPT ![Head(seen[k].todo)] = "sent"]
  /\ UNCHANGED <<chainVars, stage, rowVars, seen, faults>>

\* Not confirmed in time: the job waits for the packet's fate.
SendUnknown(k) ==
  /\ InSlice(seen[k]) /\ packets[Head(seen[k].todo)] = "sent"
  /\ Publish(k, "unknown", Head(seen[k].todo))
  /\ UNCHANGED <<chainVars, packets, stage, faults>>

SendConfirmed(k) ==
  LET s == seen[k] IN
  /\ InSlice(s) /\ packets[Head(s.todo)] = "final"
  /\ Sending(k, s.failed, Tail(s.todo), s.n + Size(Head(s.todo)))
  /\ UNCHANGED <<chainVars, packets, stage, rowVars, faults>>

\* A single settlement that failed because the receipt is settled already is passed over.
SendFailed(k) ==
  LET s == seen[k]
      op == Head(s.todo)
      already == op[1] = "settle" /\ Size(op) = 1 /\ op[2] \subseteq settled IN
  /\ InSlice(s) /\ packets[op] = "dead"
  /\ packets' = [packets EXCEPT ![op] = "noted"]
  /\ IF already THEN Sending(k, s.failed, Tail(s.todo), s.n + 1) /\ UNCHANGED rowVars
     ELSE Publish(k, "retry", NoRef)
  /\ UNCHANGED <<chainVars, stage, faults>>

SliceEnds(k) ==
  /\ seen[k].at = "send" /\ seen[k].todo # <<>> /\ seen[k].n >= SliceSize
  /\ Settle(k, "yield")

-----------------------------------------------------------------------------
(* The handlers: the enumeration that picks the batches, and the           *)
(* reconciliation that ends the run.                                       *)

RECURSIVE Chunks(_)
Chunks(s) == IF Len(s) <= BatchSize THEN IF s = <<>> THEN <<>> ELSE <<s>>
             ELSE <<SubSeq(s, 1, BatchSize)>> \o Chunks(SubSeq(s, BatchSize + 1, Len(s)))

\* The pending receipts in address order, in batches.
Batches(pending) ==
  LET c == Chunks(SelectSeq([i \in R |-> i], LAMBDA r : r \in pending)) IN
  [i \in DOMAIN c |-> {c[i][j] : j \in DOMAIN c[i]}]

settleList(k) ==
  LET groups == Batches(R \ settled) IN
  /\ k = "settlement" /\ seen[k].at = "read"
  /\ IF now = 0 THEN Settle(k, "yield")
     ELSE /\ Sending(k, FALSE, [i \in DOMAIN groups |-> <<"settle", groups[i]>>], 0)
          /\ UNCHANGED <<chainVars, packets, stage, rowVars, faults>>

settleReconcile(k) ==
  /\ k = "settlement" /\ seen[k].at = "send" /\ seen[k].todo = <<>>
  /\ Settle(k, IF settled = R THEN "done" ELSE "retry")

\* The excess is paid to settled receipts only: batches stop before an unsettled one.
refundList(k) ==
  LET failed == launchFailed(seen[k].phase)
      groups == Batches({r \in R : refundable(failed) > paid[r]})
      ok == failed \/ \A i \in DOMAIN groups : groups[i] \subseteq settled IN
  /\ k \in Refunds /\ seen[k].at = "read"
  /\ IF now = 0 THEN Settle(k, "yield")
     ELSE IF ~ok THEN Settle(k, "retry")
     ELSE /\ Sending(k, failed, [i \in DOMAIN groups |-> <<"refund", [r \in groups[i] |-> paid[r]]>>], 0)
          /\ UNCHANGED <<chainVars, packets, stage, rowVars, faults>>

refundReconcile(k) ==
  /\ k \in Refunds /\ seen[k].at = "send" /\ seen[k].todo = <<>>
  /\ Settle(k, IF \A r \in R : paid[r] = refundable(seen[k].failed) THEN "done" ELSE "retry")

\* Live is verified and done; the chain's verdict, the enumeration and the counters come
\* before the packet.
launchCheck(k) ==
  LET s == seen[k] IN
  /\ k = "launch" /\ s.at = "read"
  /\ IF s.phase = "live" THEN Settle(k, "done")
     ELSE IF now >= 1 /\ launchFailed(phase) THEN Settle(k, "failed")
     ELSE IF ~launchReady \/ ~s.settled THEN Settle(k, "retry")
     ELSE /\ Sending(k, FALSE, << <<"launch">> >>, 0)
          /\ UNCHANGED <<chainVars, packets, stage, rowVars, faults>>

launchVerify(k) ==
  /\ k = "launch" /\ seen[k].at = "send" /\ seen[k].todo = <<>>
  /\ Settle(k, IF phase = "live" THEN "done" ELSE "retry")

Handle(k) ==
  \/ settleList(k) \/ refundList(k) \/ launchCheck(k)
  \/ SendPacket(k) \/ SendConfirmed(k) \/ SendFailed(k) \/ SliceEnds(k)
  \/ settleReconcile(k) \/ refundReconcile(k) \/ launchVerify(k)

-----------------------------------------------------------------------------
(* The controller.                                                         *)

ControlLook ==
  /\ seen["control"].at = "read"
  /\ seen' = [seen EXCEPT !["control"] =
       [at |-> "looked", open |-> now = 0, failed |-> now > 0 /\ launchFailed(@.phase),
        live |-> @.phase = "live", settled |-> @.settled, whole |-> @.whole,
        excess |-> @.excess /\ \A r \in R : paid[r] >= refundable(FALSE)]]
  /\ UNCHANGED <<chainVars, packets, stage, rowVars, faults>>

Schedule(new, to) ==
  /\ job' = [k \in Jobs |-> IF k = "control" THEN IF to = stage THEN "queued" ELSE "done"
                            ELSE IF k \in new /\ job[k] = "none" THEN "queued" ELSE job[k]]
  /\ seen' = [seen EXCEPT !["control"] = Idle]
  /\ stage' = to
  /\ UNCHANGED <<chainVars, packets, pend, tries, faults>>

FailedRound(s) ==
  Schedule({"refunds:failure"},
           IF job["refunds:failure"] = "done" /\ s.whole THEN "refunded" ELSE stage)

\* Settle everything, then refund the excess and launch, independently.
FundedRound(s) ==
  IF job["settlement"] = "done" /\ s.settled
  THEN Schedule({"settlement", "refunds:excess", "launch"}, stage)
  ELSE Schedule({"settlement"}, stage)

LiveRound(s) ==
  \/ Schedule({"refunds:excess"}, stage)    \* not paid yet, or the operating reserve is short
  \/ /\ job["refunds:excess"] = "done" /\ s.excess
     /\ Schedule({"refunds:excess"}, "fee-setup")

control ==
  LET s == seen["control"] IN
  /\ s.at = "looked"
  /\ \/ s.open /\ Schedule({}, stage)
     \/ s.failed /\ FailedRound(s)
     \/ ~s.open /\ ~s.failed /\ ~s.live /\ FundedRound(s)
     \/ ~s.open /\ ~s.failed /\ s.live /\ LiveRound(s)

-----------------------------------------------------------------------------
Next ==
  \/ \E op \in Ops : Land(op) \/ Die(op) \/ Refused(op)
  \/ \E r \in R : Crank(r)
  \/ Tick
  \/ \E k \in Jobs : Start(k) \/ Lapse(k)
  \/ \E k \in Jobs \ {"control"} : Handle(k) \/ SendUnknown(k)
  \/ ControlLook \/ control

Spec == Init /\ [][Next]_vars

-----------------------------------------------------------------------------

\* A campaign ends only when nothing is owed: handed to the fee setup it is live, settled and
\* every excess is paid; refunded it never launched and every commitment is paid back
\* (lifecycle.mjs 80-106), although the controller decides on what it read before.
EndsPaid ==
  /\ stage = "fee-setup" =>
       phase = "live" /\ settled = R /\ \A r \in R : load = "over" => paid[r] >= 1
  /\ stage = "refunded" => phase = "refund-only" /\ \A r \in R : paid[r] = 2

\* A done job's work is on the ledger, whichever packet, batch or stranger did it
\* (handlers.mjs 68-73, 109-114 and 143-149).
DoneIsOnChain ==
  /\ job["settlement"] = "done" => settled = R
  /\ job["launch"] = "done" => phase = "live"
  /\ job["refunds:failure"] = "done" => phase = "live" \/ \A r \in R : paid[r] = 2
  /\ job["refunds:excess"] = "done" => \A r \in R : load = "over" => paid[r] >= 1

-----------------------------------------------------------------------------

=============================================================================
