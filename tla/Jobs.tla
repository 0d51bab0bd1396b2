-------------------------------- MODULE Jobs --------------------------------
(***************************************************************************)
(* The durable job runner, localnet/jobs/runner.mjs, over the jobs table   *)
(* of the registry: leases with fencing tokens, renewal, retries, unknown  *)
(* transaction outcomes, deadlines, shutdown and audited recovery.         *)
(*                                                                         *)
(* A handler is abstracted to what the runner can see of it: it reads the  *)
(* chain, may send its operation through the outbox inside ctx.fenced, and *)
(* reports an outcome.  The outbox is what DurableSend establishes of it:  *)
(* a packet replaces another only when that one is dead.  Times are the    *)
(* ticks that are left: the database clock is the only clock.              *)
(***************************************************************************)
EXTENDS Integers, FiniteSetsExt

CONSTANTS
  Jobs, Campaign, Rank,        \* the jobs in order of creation, their campaign and class rank
  Runners, Slots, Owner,       \* processes, their execution slots
  Ttl, Deadline, MaxAttempts,  \* lease duration, deadline (0: none), retry budget
  MaxDelay, MaxToken, MaxPackets        \* bounds of the model

ASSUME JobsConstants ==
  /\ Jobs \subseteq Nat /\ Campaign \in [Jobs -> Nat \ {0}] /\ Rank \in [Jobs -> Nat]
  /\ Owner \in [Slots -> Runners]
  /\ Ttl \in Nat \ {0} /\ Deadline \in [Jobs -> Nat] /\ MaxAttempts \in Nat \ {0}
  /\ MaxDelay \in Nat /\ MaxToken \in Nat /\ MaxPackets \in Nat

VARIABLES
  \* the row of a job: state, fencing token, owner and remaining time of its
  \* lease, not-before time; and of its result: why it failed, the packet whose
  \* fate is unknown (0: none), the retries counted so far
  state, token, owner, lease, wait, why, unknown, retries,
  left,            \* ticks to the job's deadline (the sealed deadlineAt)
  sent, fate,      \* the packets of the job's operation and what became of each
  slot,            \* the running jobs
  lastCampaign,    \* each runner's round-robin position
  passed           \* history: turns a runner gave to others while a campaign was due

row  == <<state, token, owner, lease, wait, why, unknown, retries>>
turn == <<lastCampaign, passed>>
vars == <<row, left, sent, fate, slot, turn>>

Campaigns == {Campaign[j] : j \in Jobs}
NoOne == "nobody"
Packets == 1 .. MaxPackets

Pcs == {"free", "start", "reconcile", "run", "fenced", "act", "publish"}
Outcomes == {"none", "done", "failed", "deadline", "retry", "yield", "unknown"}

\* What a slot keeps of the job it leased; unknown and retries as in the row.
Executions ==
  [pc : Pcs, job : Jobs \cup {0}, token : Nat, unknown : 0 .. MaxPackets, retries : Nat,
   out : Outcomes, packet : 0 .. MaxPackets, aborted : BOOLEAN]

Free == [pc |-> "free", job |-> 0, token |-> 0, unknown |-> 0, retries |-> 0,
         out |-> "none", packet |-> 0, aborted |-> FALSE]

Init ==
  /\ state = [j \in Jobs |-> "absent"] /\ token = [j \in Jobs |-> 0]
  /\ owner = [j \in Jobs |-> NoOne] /\ lease = [j \in Jobs |-> 0]
  /\ wait = [j \in Jobs |-> 0] /\ why = [j \in Jobs |-> "none"]
  /\ unknown = [j \in Jobs |-> 0] /\ retries = [j \in Jobs |-> 0]
  /\ left = Deadline
  /\ sent = [j \in Jobs |-> 0] /\ fate = [j \in Jobs |-> [n \in Packets |-> "none"]]
  /\ slot = [s \in Slots |-> Free]
  /\ lastCampaign = [r \in Runners |-> 0] /\ passed = [r \in Runners |-> [c \in Campaigns |-> 0]]

-----------------------------------------------------------------------------
(* The jobs table.                                                         *)

\* One job per operation key: a repeated enqueue finds the row.
Enqueue(j) ==
  /\ state[j] = "absent"
  /\ state' = [state EXCEPT ![j] = "queued"]
  /\ UNCHANGED <<token, owner, lease, wait, why, unknown, retries, left, sent, fate, slot, turn>>

DueQueuedOnly(j) == state[j] = "queued" /\ wait[j] = 0

Due(j) == (state[j] = "queued" \/ (state[j] = "leased" /\ lease[j] = 0)) /\ wait[j] = 0

DueCampaigns == {Campaign[j] : j \in {i \in Jobs : Due(i)}}

FirstCampaign(r) == Min(DueCampaigns)

\* The campaign after the last one served goes first.
NextCampaign(r) ==
  LET later == {c \in DueCampaigns : c > lastCampaign[r]} IN
  IF later # {} THEN Min(later) ELSE Min(DueCampaigns)

\* Within a campaign: the lowest class rank, then the oldest.
PickFair(r, j) ==
  /\ Due(j) /\ Campaign[j] = NextCampaign(r)
  /\ \A i \in Jobs : Due(i) /\ Campaign[i] = NextCampaign(r) =>
       Rank[j] < Rank[i] \/ (Rank[j] = Rank[i] /\ j <= i)

SameToken(j) == token[j]

\* The fencing token grows on every lease.
NextToken(j) == token[j] + 1

\* leaseNext: select and claim in one statement.
Lease(s, j) ==
  LET r == Owner[s] IN
  /\ slot[s].pc = "free" /\ PickFair(r, j) /\ token[j] < MaxToken
  /\ state' = [state EXCEPT ![j] = "leased"]
  /\ token' = [token EXCEPT ![j] = NextToken(j)]
  /\ owner' = [owner EXCEPT ![j] = r]
  /\ lease' = [lease EXCEPT ![j] = Ttl]
  /\ slot' = [slot EXCEPT ![s] = [Free EXCEPT !.pc = "start", !.job = j, !.token = token'[j],
                                              !.unknown = unknown[j], !.retries = retries[j]]]
  /\ lastCampaign' = [lastCampaign EXCEPT ![r] = Campaign[j]]
  /\ passed' = [passed EXCEPT ![r] = [c \in Campaigns |->
                  IF c = Campaign[j] \/ c \notin DueCampaigns THEN 0 ELSE @[c] + 1]]
  /\ UNCHANGED <<wait, why, unknown, retries, left, sent, fate>>

\* complete, fail and requeue: the lease of this token, not expired.
Current(s) ==
  LET j == slot[s].job IN
  state[j] = "leased" /\ token[j] = slot[s].token /\ lease[j] > 0

\* holds and renew match the owner too.
Holds(s) ==
  /\ slot[s].pc # "free"
  /\ LET j == slot[s].job IN
     state[j] = "leased" /\ token[j] = slot[s].token /\ owner[j] = Owner[s] /\ lease[j] > 0

Handling(s) == slot[s].pc \in {"reconcile", "run", "fenced", "act"}

\* The renewal timer; a lost lease, or an error of the query, aborts the handler.
Renew(s) ==
  /\ Handling(s)
  /\ \/ Holds(s) /\ lease' = [lease EXCEPT ![slot[s].job] = Ttl] /\ UNCHANGED slot
     \/ slot' = [slot EXCEPT ![s].aborted = TRUE] /\ UNCHANGED lease
  /\ UNCHANGED <<state, token, owner, wait, why, unknown, retries, left, sent, fate, turn>>

-----------------------------------------------------------------------------
(* run(job).                                                               *)

Late(j) == Deadline[j] # 0 /\ left[j] = 0

Goto(s, p) == slot' = [slot EXCEPT ![s].pc = p]

\* The handler's outcome, to be published; p is the packet of an unknown one.
Report(s, o, p) ==
  slot' = [slot EXCEPT ![s].pc = "publish", ![s].out = o, ![s].packet = p]

Start(s) ==
  LET j == slot[s].job IN
  /\ slot[s].pc = "start"
  /\ \/ slot[s].unknown = 0 /\ Late(j) /\ Report(s, "deadline", 0)
     \/ slot[s].unknown = 0 /\ ~Late(j) /\ Goto(s, "run")
     \/ slot[s].unknown # 0 /\ Goto(s, "reconcile")
  /\ UNCHANGED <<row, left, sent, fate, turn>>

\* The deadline timer, set unless an unknown transaction waits.
DeadlineAbort(s) ==
  /\ Handling(s) /\ slot[s].unknown = 0 /\ Late(slot[s].job)
  /\ slot' = [slot EXCEPT ![s].aborted = TRUE]
  /\ UNCHANGED <<row, left, sent, fate, turn>>

ThrownRetries(s) == \E o \in {"retry", "failed", "yield"} : Report(s, o, 0)

\* An error: while a transaction is unknown it stays unknown, else it is
\* classified as transient, permanent or a wait for capacity or a grant.
Thrown(s) ==
  IF slot[s].unknown # 0 THEN Report(s, "unknown", slot[s].unknown)
  ELSE \E o \in {"retry", "failed", "yield"} : Report(s, o, 0)

\* The unknown transaction is reconciled before anything is rebuilt.
Reconcile(s) ==
  LET j == slot[s].job
      f == fate[j][slot[s].unknown]
  IN
  /\ slot[s].pc = "reconcile"
  /\ \/ Thrown(s)
     \/ f = "sent" /\ Report(s, "unknown", slot[s].unknown)
     \/ f = "dead" /\ Late(j) /\ Report(s, "deadline", 0)
     \/ (f = "landed" \/ (f = "dead" /\ ~Late(j))) /\ Goto(s, "run")
  /\ UNCHANGED <<row, left, sent, fate, turn>>

\* handler.run up to its write.  Anyone may have done the work already, so
\* the outcome "done" does not depend on the packets of this job.
Run(s) ==
  /\ slot[s].pc = "run"
  /\ \/ \E o \in {"done", "retry", "failed", "yield"} : Report(s, o, 0)
     \/ Thrown(s)
     \/ Goto(s, "fenced")
  /\ UNCHANGED <<row, left, sent, fate, turn>>

\* ctx.fenced, first half: the lease is checked; a stale runner stops.
Fenced(s) ==
  /\ slot[s].pc = "fenced"
  /\ slot' = [slot EXCEPT ![s] = IF Holds(s) /\ ~@.aborted THEN [@ EXCEPT !.pc = "act"] ELSE Free]
  /\ UNCHANGED <<row, left, sent, fate, turn>>

\* Second half: the outbox finds its packet, or signs and sends a new one.
Act(s) ==
  LET j == slot[s].job
      n == sent[j]
      f == IF n = 0 THEN "dead" ELSE fate[j][n]
  IN
  /\ slot[s].pc = "act"
  /\ \/ f = "landed" /\ Report(s, "done", 0) /\ UNCHANGED <<sent, fate>>
     \/ f = "sent" /\ Report(s, "unknown", n) /\ UNCHANGED <<sent, fate>>
     \/ f = "dead" /\ Report(s, "retry", 0) /\ UNCHANGED <<sent, fate>>
     \/ /\ f = "dead" /\ n < MaxPackets
        /\ sent' = [sent EXCEPT ![j] = n + 1]
        /\ fate' = [fate EXCEPT ![j][n + 1] = "sent"]
        /\ Report(s, "unknown", n + 1)
  /\ UNCHANGED <<row, left, turn>>

Exhausted(s) == slot[s].retries + 1 >= MaxAttempts

\* The row after the outcome was published.
Finish(s, st, reason, d, u, n) ==
  LET j == slot[s].job IN
  /\ state' = [state EXCEPT ![j] = st]
  /\ why' = [why EXCEPT ![j] = reason]
  /\ owner' = [owner EXCEPT ![j] = NoOne] /\ lease' = [lease EXCEPT ![j] = 0]
  /\ wait' = [wait EXCEPT ![j] = d]
  /\ unknown' = [unknown EXCEPT ![j] = u]
  /\ retries' = [retries EXCEPT ![j] = n]

Publish(s) ==
  LET o == slot[s].out
      n == slot[s].retries
  IN
  /\ slot[s].pc = "publish"
  /\ IF ~Current(s) THEN UNCHANGED row
     ELSE
     /\ \/ o = "done" /\ Finish(s, "done", "none", 0, 0, n)
        \/ o \in {"failed", "deadline"} /\ Finish(s, "failed", o, 0, 0, n)
        \/ o = "retry" /\ Exhausted(s) /\ Finish(s, "failed", "exhausted", 0, 0, n + 1)
        \/ o = "retry" /\ ~Exhausted(s)
           /\ \E d \in 0 .. MaxDelay : Finish(s, "queued", "none", d, 0, n + 1)
        \/ o = "yield" /\ Finish(s, "queued", "none", MaxDelay, 0, n)
        \/ o = "unknown" /\ Finish(s, "queued", "none", MaxDelay, slot[s].packet, n)
     /\ UNCHANGED token
  /\ slot' = [slot EXCEPT ![s] = Free]
  /\ UNCHANGED <<left, sent, fate, turn>>

Restart(r) ==
  /\ lastCampaign' = [lastCampaign EXCEPT ![r] = 0]
  /\ passed' = [passed EXCEPT ![r] = [c \in Campaigns |-> 0]]

\* Shutdown while the lease was being granted: the row goes back as it was.
ReturnLease(s) ==
  /\ slot[s].pc = "start"
  /\ IF Current(s) THEN Finish(s, "queued", "none", wait[slot[s].job], slot[s].unknown, slot[s].retries)
                        /\ UNCHANGED token
     ELSE UNCHANGED row
  /\ slot' = [slot EXCEPT ![s] = Free]
  /\ Restart(Owner[s])
  /\ UNCHANGED <<left, sent, fate>>

\* A process dies with all it runs.
Crash(r) ==
  /\ \E s \in Slots : Owner[s] = r /\ slot[s].pc # "free"
  /\ slot' = [s \in Slots |-> IF Owner[s] = r THEN Free ELSE slot[s]]
  /\ Restart(r)
  /\ UNCHANGED <<row, left, sent, fate>>

-----------------------------------------------------------------------------
(* recoverFailedJob: an operator puts a reviewed failed job back.          *)

NoPacketPending(j) == sent[j] > 0 => fate[j][sent[j]] # "sent"

RecoverFailed(j) ==
  /\ state[j] = "failed" /\ why[j] \in {"exhausted", "failed"}
  /\ NoPacketPending(j) /\ ~Late(j) /\ token[j] < MaxToken
  /\ state' = [state EXCEPT ![j] = "queued"]
  /\ token' = [token EXCEPT ![j] = @ + 1]
  /\ why' = [why EXCEPT ![j] = "none"]
  /\ unknown' = [unknown EXCEPT ![j] = 0]
  /\ retries' = [retries EXCEPT ![j] = 0]
  /\ UNCHANGED <<owner, lease, wait, left, sent, fate, slot, turn>>

(* The chain decides a packet and the outbox has recorded it; time passes. *)
Decide(j, n) ==
  /\ fate[j][n] = "sent"
  /\ \E f \in {"landed", "dead"} : fate' = [fate EXCEPT ![j][n] = f]
  /\ UNCHANGED <<row, left, sent, slot, turn>>

Down(f) == [j \in Jobs |-> IF f[j] = 0 THEN 0 ELSE f[j] - 1]

Tick ==
  /\ \E j \in Jobs : lease[j] + wait[j] + left[j] > 0
  /\ lease' = Down(lease) /\ wait' = Down(wait) /\ left' = Down(left)
  /\ UNCHANGED <<state, token, owner, why, unknown, retries, sent, fate, slot, turn>>

SlotStep(s) ==
  Start(s) \/ Reconcile(s) \/ Run(s) \/ Fenced(s) \/ Act(s) \/ Publish(s)

Next ==
  \/ \E j \in Jobs : Enqueue(j) \/ RecoverFailed(j) \/ \E n \in Packets : Decide(j, n)
  \/ \E s \in Slots : (\E j \in Jobs : Lease(s, j)) \/ Renew(s) \/ DeadlineAbort(s) \/ ReturnLease(s) \/ SlotStep(s)
  \/ \E r \in Runners : Crash(r)
  \/ Tick

Spec == Init /\ [][Next]_vars

-----------------------------------------------------------------------------
(* Properties.                                                             *)

TypeOK ==
  /\ state \in [Jobs -> {"absent", "queued", "leased", "done", "failed"}]
  /\ token \in [Jobs -> 0 .. MaxToken] /\ owner \in [Jobs -> Runners \cup {NoOne}]
  /\ lease \in [Jobs -> 0 .. Ttl] /\ wait \in [Jobs -> 0 .. MaxDelay]
  /\ why \in [Jobs -> {"none", "failed", "deadline", "exhausted"}]
  /\ unknown \in [Jobs -> 0 .. MaxPackets] /\ left \in [Jobs -> Nat]
  /\ retries \in [Jobs -> 0 .. MaxAttempts]
  /\ \A j \in Jobs : state[j] \notin {"done", "failed"} => retries[j] < MaxAttempts
  /\ sent \in [Jobs -> 0 .. MaxPackets]
  /\ fate \in [Jobs -> [Packets -> {"none", "sent", "landed", "dead"}]]
  /\ slot \in [Slots -> Executions]

\* At most one execution of a job holds its lease, even when a runner leases
\* again a job that it is still running: the fencing token tells them apart.
OneHolder ==
  \A s, t \in Slots : Holds(s) /\ Holds(t) /\ slot[s].job = slot[t].job => s = t

\* A transaction recorded as unknown is never dropped, failed or retried
\* until the chain has decided it, "including after scheduling deadlines".
UnknownKept ==
  [][\A j \in Jobs : unknown[j] # 0 /\ (unknown'[j] # unknown[j] \/ state'[j] \in {"failed", "done"})
       => fate[j][unknown[j]] \in {"landed", "dead"}]_vars

\* A leased job leaves that state only by the execution that holds its lease:
\* a runner that lost it publishes nothing, not even over its own newer lease.
ResultFromHolder ==
  [][\A j \in Jobs : state[j] = "leased" /\ state'[j] # "leased" =>
       \E s \in Slots : slot[s].job = j /\ Holds(s) /\ slot'[s].pc = "free"]_vars

\* A campaign that is due at every turn of a runner waits for at most one turn
\* of each other campaign, whatever backlog those have.
FairTurns ==
  \A r \in Runners : \A c \in Campaigns : passed[r][c] < Cardinality(Campaigns)

\* The inductive invariant behind OneHolder, ResultFromHolder and UnknownKept:
\* tokens are never given twice; the execution that holds the newest token has
\* the row's owner, unknown packet and retries; an execution past reconcile, or
\* about to publish anything but the same unknown packet, knows that packet to
\* be decided; and packets are numbered in order.
Decided(j, n) == fate[j][n] \in {"landed", "dead"}

Executing(s) == slot[s].pc # "free"

TokenInv ==
  /\ \A s \in Slots : Executing(s) => slot[s].job \in Jobs /\ slot[s].token <= token[slot[s].job]
  /\ \A s, t \in Slots : Executing(s) /\ Executing(t) /\ slot[s].job = slot[t].job
                            /\ slot[s].token = slot[t].token => s = t

HolderInv ==
  \A s \in Slots : Executing(s) =>
    LET j == slot[s].job IN
    state[j] = "leased" /\ slot[s].token = token[j] =>
      owner[j] = Owner[s] /\ slot[s].unknown = unknown[j]

PacketInv ==
  \A j \in Jobs :
    /\ unknown[j] <= sent[j] /\ (unknown[j] # 0 => state[j] \in {"queued", "leased"})
    /\ \A n \in Packets : n > sent[j] => fate[j][n] = "none"

ReconciledInv ==
  \A s \in Slots : Executing(s) =>
    LET x == slot[s] IN
    /\ x.unknown <= sent[x.job] /\ x.packet <= sent[x.job]
    /\ x.unknown # 0 /\ (x.pc \in {"run", "fenced", "act"}
                          \/ (x.pc = "publish" /\ (x.out # "unknown" \/ x.packet # x.unknown)))
         => Decided(x.job, x.unknown)

RetryInv ==
  \A s \in Slots : Executing(s) => slot[s].retries < MaxAttempts

JobsInv == TypeOK /\ TokenInv /\ HolderInv /\ PacketInv /\ ReconciledInv /\ RetryInv

=============================================================================
