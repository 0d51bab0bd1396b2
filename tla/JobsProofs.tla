----------------------------- MODULE JobsProofs -----------------------------
(***************************************************************************)
(* Proofs about the job runner for any number of jobs, runners and slots:  *)
(* JobsInv is inductive, hence leases exclude each other, only the holder  *)
(* of a lease publishes, and a recorded unknown transaction is kept until  *)
(* the chain has decided it.  Then the keys of the mints (MintInventory),  *)
(* by instance: the promises of the key store, for every call of it.       *)
(***************************************************************************)
EXTENDS Jobs, FiniteSetTheorems, WellFoundedInduction, TLAPS

\* Time limits of the provers for every leaf.
USE SMTT(30), ZenonT(20)

\* One execution changes its local state and keeps what it leased, or ends.
Keeps(s) ==
  /\ slot' \in [Slots -> Executions]
  /\ \A t \in Slots : t # s => slot'[t] = slot[t]
  /\ \/ slot'[s].pc = "free"
     \/ /\ slot[s].pc # "free" /\ slot'[s].pc # "free"
        /\ slot'[s].job = slot[s].job /\ slot'[s].token = slot[s].token
        /\ slot'[s].unknown = slot[s].unknown /\ slot'[s].retries = slot[s].retries

\* What ReconciledInv says of one execution.
Reconciled(s) ==
  LET x == slot[s] IN
  /\ x.unknown <= sent[x.job] /\ x.packet <= sent[x.job]
  /\ x.unknown # 0 /\ (x.pc \in {"run", "fenced", "act"}
                        \/ (x.pc = "publish" /\ (x.out # "unknown" \/ x.packet # x.unknown)))
       => Decided(x.job, x.unknown)

\* A free slot is a well-typed execution record (the constant Free).
LEMMA FreeType == Free \in Executions /\ Free.pc = "free"
BY JobsConstants DEF Free, Executions, Pcs, Outcomes

\* Report, the end of a handler, keeps the lease data and sets the outcome.
LEMMA ReportKeeps ==
  ASSUME slot \in [Slots -> Executions], NEW s \in Slots, slot[s].pc # "free",
         NEW o \in Outcomes, NEW p \in 0 .. MaxPackets, Report(s, o, p)
  PROVE  /\ Keeps(s) /\ slot'[s].pc = "publish" /\ slot'[s].out = o /\ slot'[s].packet = p
         /\ slot'[s].unknown = slot[s].unknown /\ slot'[s].job = slot[s].job
<1>1. slot[s] \in Executions  OBVIOUS
<1>2. slot' = [slot EXCEPT ![s] = [[[slot[s] EXCEPT !.pc = "publish"] EXCEPT !.out = o] EXCEPT !.packet = p]]
  BY Zenon, <1>1 DEF Report, Executions
<1>3. [[[slot[s] EXCEPT !.pc = "publish"] EXCEPT !.out = o] EXCEPT !.packet = p] \in Executions
  BY Zenon, <1>1 DEF Executions, Pcs
<1> QED BY Zenon, <1>1, <1>2, <1>3 DEF Keeps, Executions

\* Goto keeps the lease data and the outcome fields.
LEMMA GotoKeeps ==
  ASSUME slot \in [Slots -> Executions], NEW s \in Slots, slot[s].pc # "free",
         NEW p \in Pcs \ {"free"}, Goto(s, p)
  PROVE  /\ Keeps(s) /\ slot'[s].pc = p /\ slot'[s].packet = slot[s].packet
         /\ slot'[s].unknown = slot[s].unknown /\ slot'[s].job = slot[s].job
<1>1. slot[s] \in Executions  OBVIOUS
<1>2. slot' = [slot EXCEPT ![s] = [slot[s] EXCEPT !.pc = p]]
  BY Zenon, <1>1 DEF Goto
<1>3. [slot[s] EXCEPT !.pc = p] \in Executions
  BY Zenon, <1>1 DEF Executions, Pcs
<1> QED BY Zenon, <1>1, <1>2, <1>3 DEF Keeps, Executions

\* An abort signal (renewal lost, deadline) changes nothing else.
LEMMA AbortKeeps ==
  ASSUME slot \in [Slots -> Executions], NEW s \in Slots, slot[s].pc # "free",
         slot' = [slot EXCEPT ![s].aborted = TRUE]
  PROVE  /\ Keeps(s) /\ slot'[s].pc = slot[s].pc /\ slot'[s].packet = slot[s].packet
         /\ slot'[s].unknown = slot[s].unknown /\ slot'[s].job = slot[s].job
         /\ slot'[s].out = slot[s].out
<1>1. slot[s] \in Executions  OBVIOUS
<1>2. slot' = [slot EXCEPT ![s] = [slot[s] EXCEPT !.aborted = TRUE]]
  BY Zenon, <1>1
<1>3. [slot[s] EXCEPT !.aborted = TRUE] \in Executions
  BY Zenon, <1>1 DEF Executions
<1> QED BY <1>1, <1>2, <1>3 DEF Keeps, Executions

\* Ending an execution frees its slot.
LEMMA FreeKeeps ==
  ASSUME slot \in [Slots -> Executions], NEW s \in Slots, slot' = [slot EXCEPT ![s] = Free]
  PROVE  Keeps(s) /\ slot'[s].pc = "free"
BY Zenon, FreeType DEF Keeps

\* A step of one execution that leaves the rows alone keeps the invariants
\* that relate executions to the rows.
LEMMA KeepsRows ==
  ASSUME slot \in [Slots -> Executions], TokenInv, HolderInv, RetryInv,
         NEW s \in Slots, Keeps(s), UNCHANGED <<state, token, owner, unknown>>
  PROVE  TokenInv' /\ HolderInv' /\ RetryInv'
<1>1. \A t \in Slots : Executing(t)' =>
        /\ Executing(t) /\ slot'[t].job = slot[t].job /\ slot'[t].token = slot[t].token
        /\ slot'[t].unknown = slot[t].unknown /\ slot'[t].retries = slot[t].retries
  BY Zenon DEF Keeps, Executing
<1>2. TokenInv'
  BY Zenon, <1>1 DEF TokenInv
<1>3. HolderInv'
  BY <1>1 DEF HolderInv
<1>4. RetryInv'
  BY Zenon, <1>1 DEF RetryInv
<1> QED BY Zenon, <1>2, <1>3, <1>4

\* What an execution knows of decided packets stays true as packets are added.
LEMMA KeepsReconciled ==
  ASSUME slot \in [Slots -> Executions], TokenInv, ReconciledInv,
         sent \in [Jobs -> Nat], sent' \in [Jobs -> Nat],
         NEW s \in Slots, Keeps(s),
         \A j \in Jobs : sent[j] <= sent'[j],
         \A j \in Jobs : \A n \in Packets : Decided(j, n) => Decided(j, n)',
         slot'[s].pc # "free" => Reconciled(s)'
  PROVE  ReconciledInv'
<1> SUFFICES ASSUME NEW t \in Slots, Executing(t)' PROVE Reconciled(t)'
  BY Zenon DEF ReconciledInv, Reconciled
<1>1. CASE t = s
  BY Zenon, <1>1 DEF Executing
<1>2. CASE t # s
  <2>1. slot'[t] = slot[t] /\ Executing(t)
    BY Zenon, <1>2 DEF Keeps, Executing
  <2>2. Reconciled(t)
    BY Zenon, <2>1 DEF ReconciledInv, Reconciled
  <2>3. slot[t].job \in Jobs /\ slot[t] \in Executions
    BY Zenon, <2>1 DEF TokenInv
  <2>4. slot[t].unknown \in Nat /\ slot[t].packet \in Nat
        /\ (slot[t].unknown # 0 => slot[t].unknown \in Packets)
    BY <2>3, JobsConstants DEF Executions, Packets
  <2>5. slot[t].unknown <= sent'[slot[t].job] /\ slot[t].packet <= sent'[slot[t].job]
    BY <2>2, <2>3, <2>4 DEF Reconciled
  <2> QED BY Zenon, <2>1, <2>2, <2>3, <2>4, <2>5 DEF Reconciled
<1> QED BY Zenon, <1>1, <1>2

\* A step that only moves one execution keeps the inductive invariant when that
\* execution still knows what ReconciledInv asks of it.
LEMMA SlotOnly ==
  ASSUME JobsInv, NEW s \in Slots, Keeps(s), UNCHANGED <<row, left, sent, fate>>,
         slot'[s].pc # "free" => Reconciled(s)'
  PROVE  JobsInv'
<1>1. TypeOK'
  BY Zenon DEF JobsInv, TypeOK, row, Keeps
<1>2. TokenInv' /\ HolderInv' /\ RetryInv'
  BY Zenon, KeepsRows DEF JobsInv, TypeOK, row
<1>3. PacketInv'
  BY Zenon DEF JobsInv, PacketInv, row
<1>4. ReconciledInv'
  <2>1. sent \in [Jobs -> Nat] /\ sent' \in [Jobs -> Nat]
    BY JobsConstants DEF JobsInv, TypeOK
  <2>2. \A j \in Jobs : sent[j] <= sent'[j]
    BY <2>1
  <2>3. \A j \in Jobs : \A n \in Packets : Decided(j, n) => Decided(j, n)'
    BY Zenon DEF Decided
  <2> QED BY Zenon, <2>1, <2>2, <2>3, KeepsReconciled DEF JobsInv, TypeOK
<1> QED BY Zenon, <1>1, <1>2, <1>3, <1>4 DEF JobsInv

\* What JobsInv says of one execution, in the form the step lemmas use.
LEMMA OneExecution ==
  ASSUME JobsInv, NEW s \in Slots, slot[s].pc # "free"
  PROVE  /\ Reconciled(s) /\ slot[s] \in Executions /\ slot[s].job \in Jobs
         /\ slot[s].unknown \in 0 .. MaxPackets /\ slot[s].packet \in 0 .. MaxPackets
         /\ (slot[s].unknown # 0 => slot[s].unknown \in Packets)
         /\ sent[slot[s].job] \in 0 .. MaxPackets
         /\ slot \in [Slots -> Executions]
<1>1. slot \in [Slots -> Executions] /\ slot[s] \in Executions
  BY Zenon DEF JobsInv, TypeOK
<1>2. slot[s].job \in Jobs
  BY Zenon DEF JobsInv, TokenInv, Executing
<1>3. Reconciled(s)
  BY Zenon DEF JobsInv, ReconciledInv, Reconciled, Executing
<1>4. slot[s].unknown \in 0 .. MaxPackets /\ slot[s].packet \in 0 .. MaxPackets
  BY Zenon, <1>1 DEF Executions
<1>5. slot[s].unknown # 0 => slot[s].unknown \in Packets
  BY <1>4, JobsConstants DEF Packets
<1>6. sent[slot[s].job] \in 0 .. MaxPackets
  BY Zenon, <1>2 DEF JobsInv, TypeOK
<1> QED BY Zenon, <1>1, <1>2, <1>3, <1>4, <1>5, <1>6

\* A handler that ends without touching the packets.
LEMMA ReportStep ==
  ASSUME JobsInv, NEW s \in Slots, slot[s].pc # "free",
         NEW o \in Outcomes, NEW p \in 0 .. MaxPackets, Report(s, o, p),
         UNCHANGED <<row, left, sent, fate>>,
         p <= sent[slot[s].job],
         slot[s].unknown # 0 /\ (o # "unknown" \/ p # slot[s].unknown)
           => Decided(slot[s].job, slot[s].unknown)
  PROVE  JobsInv'
<1>1. /\ Keeps(s) /\ slot'[s].pc = "publish" /\ slot'[s].out = o /\ slot'[s].packet = p
      /\ slot'[s].unknown = slot[s].unknown /\ slot'[s].job = slot[s].job
  BY Zenon, OneExecution, ReportKeeps
<1>2. Reconciled(s)
  BY Zenon, OneExecution
<1>3. Reconciled(s)'
  BY Zenon, <1>1, <1>2 DEF Reconciled, Decided
<1> QED BY Zenon, <1>1, <1>3, SlotOnly

\* A handler that goes on.
LEMMA GotoStep ==
  ASSUME JobsInv, NEW s \in Slots, slot[s].pc # "free",
         NEW p \in {"reconcile", "run", "fenced", "act"}, Goto(s, p),
         UNCHANGED <<row, left, sent, fate>>,
         slot[s].unknown # 0 /\ p # "reconcile" => Decided(slot[s].job, slot[s].unknown)
  PROVE  JobsInv'
<1>0. p \in Pcs \ {"free"}  BY Zenon DEF Pcs
<1>1. /\ Keeps(s) /\ slot'[s].pc = p /\ slot'[s].packet = slot[s].packet
      /\ slot'[s].unknown = slot[s].unknown /\ slot'[s].job = slot[s].job
  BY Zenon, <1>0, OneExecution, GotoKeeps
<1>2. Reconciled(s)
  BY Zenon, OneExecution
<1>3. Reconciled(s)'
  BY Zenon, <1>1, <1>2 DEF Reconciled, Decided
<1> QED BY Zenon, <1>1, <1>3, SlotOnly

\* An abort signal.
LEMMA AbortStep ==
  ASSUME JobsInv, NEW s \in Slots, slot[s].pc # "free",
         slot' = [slot EXCEPT ![s].aborted = TRUE], UNCHANGED <<row, left, sent, fate>>
  PROVE  JobsInv'
<1>1. /\ Keeps(s) /\ slot'[s].pc = slot[s].pc /\ slot'[s].packet = slot[s].packet
      /\ slot'[s].unknown = slot[s].unknown /\ slot'[s].job = slot[s].job
      /\ slot'[s].out = slot[s].out
  BY Zenon, OneExecution, AbortKeeps
<1>2. Reconciled(s)
  BY Zenon, OneExecution
<1>3. Reconciled(s)'
  BY Zenon, <1>1, <1>2 DEF Reconciled, Decided
<1> QED BY Zenon, <1>1, <1>3, SlotOnly

\* An error of the handler (classifyError) keeps an unknown transaction unknown.
LEMMA ThrownStep ==
  ASSUME JobsInv, NEW s \in Slots, slot[s].pc # "free", Thrown(s),
         UNCHANGED <<row, left, sent, fate>>
  PROVE  JobsInv'
<1>1. /\ Reconciled(s) /\ slot[s].unknown \in 0 .. MaxPackets
      /\ sent[slot[s].job] \in 0 .. MaxPackets
  BY Zenon, OneExecution
<1>2. CASE slot[s].unknown # 0
  <2>1. Report(s, "unknown", slot[s].unknown)
    BY Zenon, <1>2 DEF Thrown
  <2>2. "unknown" \in Outcomes  BY Zenon DEF Outcomes
  <2>3. slot[s].unknown <= sent[slot[s].job]
    BY Zenon, <1>1 DEF Reconciled
  <2> QED BY Zenon, <1>1, <2>1, <2>2, <2>3, ReportStep
<1>3. CASE slot[s].unknown = 0
  <2>1. PICK o \in {"retry", "failed", "yield"} : Report(s, o, 0)
    BY Zenon, <1>3 DEF Thrown
  <2>2. o \in Outcomes  BY Zenon DEF Outcomes
  <2>3. 0 \in 0 .. MaxPackets /\ 0 <= sent[slot[s].job]
    BY <1>1, JobsConstants
  <2> QED BY Zenon, <1>3, <2>1, <2>2, <2>3, ReportStep
<1> QED BY Zenon, <1>2, <1>3

\* The steps of an execution that write neither the row nor the packets.
LEMMA StartInv ==
  ASSUME JobsInv, NEW s \in Slots, Start(s)  PROVE JobsInv'
<1>1. slot[s].pc # "free" /\ UNCHANGED <<row, left, sent, fate>>
  BY Zenon DEF Start
<1>2. 0 \in 0 .. MaxPackets /\ 0 <= sent[slot[s].job] /\ "deadline" \in Outcomes
  BY <1>1, OneExecution, JobsConstants DEF Outcomes
<1>3. CASE slot[s].unknown = 0 /\ Report(s, "deadline", 0)
  BY Zenon, <1>1, <1>2, <1>3, ReportStep
<1>4. CASE slot[s].unknown = 0 /\ Goto(s, "run")
  BY Zenon, <1>1, <1>4, GotoStep
<1>5. CASE Goto(s, "reconcile")
  BY Zenon, <1>1, <1>5, GotoStep
<1> QED BY Zenon, <1>3, <1>4, <1>5 DEF Start

\* A handler goes on past reconcile only with a decided packet.
LEMMA ReconcileInv ==
  ASSUME JobsInv, NEW s \in Slots, Reconcile(s)  PROVE JobsInv'
<1> DEFINE f == fate[slot[s].job][slot[s].unknown]
<1>1. slot[s].pc # "free" /\ UNCHANGED <<row, left, sent, fate>>
  BY Zenon DEF Reconcile
<1>2. /\ Reconciled(s) /\ slot[s].unknown \in 0 .. MaxPackets
      /\ sent[slot[s].job] \in 0 .. MaxPackets
  BY Zenon, <1>1, OneExecution
<1>3. 0 \in 0 .. MaxPackets /\ 0 <= sent[slot[s].job] /\ "deadline" \in Outcomes /\ "unknown" \in Outcomes
  BY <1>2, JobsConstants DEF Outcomes
<1>4. CASE Thrown(s)
  BY Zenon, <1>1, <1>4, ThrownStep
<1>5. CASE Report(s, "unknown", slot[s].unknown)
  <2>1. slot[s].unknown <= sent[slot[s].job]  BY Zenon, <1>2 DEF Reconciled
  <2> QED BY Zenon, <1>1, <1>2, <1>3, <1>5, <2>1, ReportStep
<1>6. CASE f = "dead" /\ Report(s, "deadline", 0)
  <2>1. Decided(slot[s].job, slot[s].unknown)  BY Zenon, <1>6 DEF Decided
  <2> QED BY Zenon, <1>1, <1>3, <1>6, <2>1, ReportStep
<1>7. CASE f \in {"landed", "dead"} /\ Goto(s, "run")
  <2>1. Decided(slot[s].job, slot[s].unknown)  BY Zenon, <1>7 DEF Decided
  <2> QED BY Zenon, <1>1, <1>7, <2>1, GotoStep
<1> QED BY Zenon, <1>4, <1>5, <1>6, <1>7 DEF Reconcile

\* handler.run ends, throws, or reaches its write.
LEMMA RunInv ==
  ASSUME JobsInv, NEW s \in Slots, Run(s)  PROVE JobsInv'
<1>1. slot[s].pc = "run" /\ slot[s].pc # "free" /\ UNCHANGED <<row, left, sent, fate>>
  BY Zenon DEF Run
<1>2. Reconciled(s) /\ sent[slot[s].job] \in 0 .. MaxPackets
  BY Zenon, <1>1, OneExecution
<1>3. slot[s].unknown # 0 => Decided(slot[s].job, slot[s].unknown)
  BY Zenon, <1>1, <1>2 DEF Reconciled
<1>4. CASE \E o \in {"done", "retry", "failed", "yield"} : Report(s, o, 0)
  <2>1. PICK o \in {"done", "retry", "failed", "yield"} : Report(s, o, 0)
    BY Zenon, <1>4
  <2>2. o \in Outcomes  BY Zenon DEF Outcomes
  <2>3. 0 \in 0 .. MaxPackets /\ 0 <= sent[slot[s].job]
    BY <1>2, JobsConstants
  <2> QED BY Zenon, <1>1, <1>3, <2>1, <2>2, <2>3, ReportStep
<1>5. CASE Thrown(s)
  BY Zenon, <1>1, <1>5, ThrownStep
<1>6. CASE Goto(s, "fenced")
  BY Zenon, <1>1, <1>3, <1>6, GotoStep
<1> QED BY Zenon, <1>4, <1>5, <1>6 DEF Run

\* ctx.fenced lets the holder on and stops a stale runner.
LEMMA FencedInv ==
  ASSUME JobsInv, NEW s \in Slots, Fenced(s)  PROVE JobsInv'
<1>1. slot[s].pc = "fenced" /\ slot[s].pc # "free" /\ UNCHANGED <<row, left, sent, fate>>
  BY Zenon DEF Fenced
<1>2. Reconciled(s) /\ slot \in [Slots -> Executions]
  BY Zenon, <1>1, OneExecution
<1>3. slot[s].unknown # 0 => Decided(slot[s].job, slot[s].unknown)
  BY Zenon, <1>1, <1>2 DEF Reconciled
<1>4. CASE Holds(s) /\ ~slot[s].aborted
  <2>1. Goto(s, "act")
    BY Zenon, <1>2, <1>4 DEF Fenced, Goto
  <2> QED BY Zenon, <1>1, <1>3, <2>1, GotoStep
<1>5. CASE ~(Holds(s) /\ ~slot[s].aborted)
  <2>1. slot' = [slot EXCEPT ![s] = Free]
    BY Zenon, <1>2, <1>5 DEF Fenced
  <2>2. Keeps(s) /\ slot'[s].pc = "free"
    BY Zenon, <1>2, <2>1, FreeKeeps
  <2> QED BY Zenon, <1>1, <2>2, SlotOnly
<1> QED BY Zenon, <1>4, <1>5

\* The renewal and deadline timers.
LEMMA RenewInv ==
  ASSUME JobsInv, NEW s \in Slots, Renew(s)  PROVE JobsInv'
<1>1. slot[s].pc # "free"
  BY Zenon DEF Renew, Handling
<1>2. CASE lease' = [lease EXCEPT ![slot[s].job] = Ttl] /\ UNCHANGED slot
  <2>1. UNCHANGED <<state, token, owner, wait, why, unknown, retries, left, sent, fate, slot>>
    BY Zenon, <1>2 DEF Renew
  <2>2. lease' \in [Jobs -> 0 .. Ttl]
    <3>1. lease \in [Jobs -> 0 .. Ttl] /\ Ttl \in 0 .. Ttl
      BY JobsConstants DEF JobsInv, TypeOK
    <3> QED BY Zenon, <1>2, <3>1
  <2>3. TypeOK'
    BY Zenon, <2>1, <2>2 DEF JobsInv, TypeOK
  <2>4. TokenInv' /\ HolderInv' /\ RetryInv'
    BY Zenon, <2>1 DEF JobsInv, TokenInv, HolderInv, RetryInv, Executing
  <2>5. PacketInv' /\ ReconciledInv'
    BY Zenon, <2>1 DEF JobsInv, PacketInv, ReconciledInv, Executing, Decided
  <2> QED BY Zenon, <2>3, <2>4, <2>5 DEF JobsInv
<1>3. CASE slot' = [slot EXCEPT ![s].aborted = TRUE] /\ UNCHANGED lease
  <2>1. UNCHANGED <<row, left, sent, fate>>
    BY Zenon, <1>3 DEF Renew, row
  <2> QED BY Zenon, <1>1, <1>3, <2>1, AbortStep
<1> QED BY Zenon, <1>2, <1>3 DEF Renew

\* The deadline timer only signals the handler.
LEMMA DeadlineAbortInv ==
  ASSUME JobsInv, NEW s \in Slots, DeadlineAbort(s)  PROVE JobsInv'
<1>1. /\ slot[s].pc # "free" /\ UNCHANGED <<row, left, sent, fate>>
      /\ slot' = [slot EXCEPT ![s].aborted = TRUE]
  BY Zenon DEF DeadlineAbort, Handling
<1> QED BY Zenon, <1>1, AbortStep

\* The guarded write: a new packet never reuses the number of a decided one.
LEMMA ActInv ==
  ASSUME JobsInv, NEW s \in Slots, Act(s)  PROVE JobsInv'
<1> DEFINE j == slot[s].job
<1> DEFINE n == sent[j]
<1>1. slot[s].pc = "act" /\ slot[s].pc # "free" /\ UNCHANGED <<row, left>>
  BY Zenon DEF Act
<1>2. /\ Reconciled(s) /\ slot \in [Slots -> Executions] /\ j \in Jobs /\ n \in 0 .. MaxPackets
      /\ slot[s].unknown \in 0 .. MaxPackets
      /\ (slot[s].unknown # 0 => slot[s].unknown \in Packets)
  BY Zenon, <1>1, OneExecution
<1>3. slot[s].unknown # 0 => Decided(j, slot[s].unknown)
  BY Zenon, <1>1, <1>2 DEF Reconciled
<1>4. /\ {"done", "unknown", "retry"} \subseteq Outcomes /\ 0 \in 0 .. MaxPackets /\ 0 <= n /\ n <= n
  BY <1>2, JobsConstants DEF Outcomes
<1>5. CASE Report(s, "done", 0) /\ UNCHANGED <<sent, fate>>
  BY Zenon, <1>1, <1>3, <1>4, <1>5, ReportStep
<1>6. CASE Report(s, "unknown", n) /\ UNCHANGED <<sent, fate>>
  BY Zenon, <1>1, <1>2, <1>3, <1>4, <1>6, ReportStep
<1>7. CASE Report(s, "retry", 0) /\ UNCHANGED <<sent, fate>>
  BY Zenon, <1>1, <1>3, <1>4, <1>7, ReportStep
<1>8. CASE /\ n < MaxPackets
           /\ sent' = [sent EXCEPT ![j] = n + 1]
           /\ fate' = [fate EXCEPT ![j][n + 1] = "sent"]
           /\ Report(s, "unknown", n + 1)
  <2>1. n + 1 \in Packets /\ n + 1 \in 0 .. MaxPackets
    BY <1>2, <1>8, JobsConstants DEF Packets
  <2>2. /\ Keeps(s) /\ slot'[s].pc = "publish" /\ slot'[s].out = "unknown" /\ slot'[s].packet = n + 1
        /\ slot'[s].unknown = slot[s].unknown /\ slot'[s].job = j
    BY Zenon, <1>1, <1>2, <1>4, <1>8, <2>1, ReportKeeps
  <2>3. /\ sent \in [Jobs -> 0 .. MaxPackets]
        /\ fate \in [Jobs -> [Packets -> {"none", "sent", "landed", "dead"}]]
    BY Zenon DEF JobsInv, TypeOK
  <2>4. /\ sent' \in [Jobs -> 0 .. MaxPackets] /\ sent'[j] = n + 1
        /\ \A i \in Jobs : i # j => sent'[i] = sent[i]
    BY Zenon, <1>2, <1>8, <2>1, <2>3
  <2>5. fate[j] \in [Packets -> {"none", "sent", "landed", "dead"}]
    BY Zenon, <1>2, <2>3
  <2>6. fate' = [fate EXCEPT ![j] = [fate[j] EXCEPT ![n + 1] = "sent"]]
    BY Zenon, <1>2, <1>8, <2>3
  <2>7. fate' \in [Jobs -> [Packets -> {"none", "sent", "landed", "dead"}]]
    BY Zenon, <1>2, <2>1, <2>3, <2>5, <2>6
  <2>8. \A i \in Jobs : \A m \in Packets : i # j \/ m # n + 1 => fate'[i][m] = fate[i][m]
    BY Zenon, <1>2, <2>1, <2>3, <2>5, <2>6
  <2>9. fate[j][n + 1] = "none"
    BY <1>2, <2>1 DEF JobsInv, PacketInv
  <2>10. \A i \in Jobs : \A m \in Packets : Decided(i, m) => Decided(i, m)'
    BY Zenon, <2>8, <2>9 DEF Decided
  <2>11. TypeOK'
    BY Zenon, <1>1, <2>2, <2>4, <2>7 DEF JobsInv, TypeOK, row, Keeps
  <2>12. TokenInv' /\ HolderInv' /\ RetryInv'
    BY Zenon, <1>1, <1>2, <2>2, KeepsRows DEF JobsInv, row
  <2>13. PacketInv'
    <3> SUFFICES ASSUME NEW i \in Jobs
                 PROVE  /\ unknown'[i] <= sent'[i] /\ (unknown'[i] # 0 => state'[i] \in {"queued", "leased"})
                        /\ \A m \in Packets : m > sent'[i] => fate'[i][m] = "none"
      BY Zenon DEF PacketInv
    <3>1. /\ unknown[i] <= sent[i] /\ (unknown[i] # 0 => state[i] \in {"queued", "leased"})
          /\ \A m \in Packets : m > sent[i] => fate[i][m] = "none"
      BY Zenon DEF JobsInv, PacketInv
    <3>2. unknown'[i] = unknown[i] /\ state'[i] = state[i] /\ unknown[i] \in Nat
      BY <1>1, JobsConstants DEF row, JobsInv, TypeOK
    <3>3. CASE i # j
      BY Zenon, <2>4, <2>8, <3>1, <3>2, <3>3
    <3>4. CASE i = j
      <4>1. sent[i] = n /\ sent'[i] = n + 1 /\ n \in Nat
        BY <1>2, <2>4, <3>4, JobsConstants
      <4>2. \A m \in Packets : m \in Nat /\ (m > n + 1 => m > n /\ m # n + 1)
        BY <4>1, JobsConstants DEF Packets
      <4>3. \A m \in Packets : m > sent'[i] => fate'[i][m] = "none"
        BY Zenon, <2>8, <3>1, <4>1, <4>2
      <4>4. unknown'[i] <= sent'[i]
        BY <3>1, <3>2, <4>1
      <4> QED BY Zenon, <3>1, <3>2, <4>3, <4>4
    <3> QED BY Zenon, <3>3, <3>4
  <2>14. Reconciled(s)'
    <3>1. slot[s].unknown <= n
      BY Zenon, <1>2 DEF Reconciled
    <3>2. slot[s].unknown # 0 => fate'[j][slot[s].unknown] \in {"landed", "dead"}
      BY Zenon, <1>2, <1>3, <2>10 DEF Decided
    <3> QED BY <1>2, <2>1, <2>2, <2>4, <3>1, <3>2 DEF Reconciled, Decided
  <2>15. ReconciledInv'
    <3>1. sent \in [Jobs -> Nat] /\ sent' \in [Jobs -> Nat]
      BY <2>3, <2>4
    <3>2. \A i \in Jobs : sent[i] <= sent'[i]
      BY <1>2, <2>4, <3>1
    <3> QED BY Zenon, <1>2, <2>2, <2>10, <2>14, <3>1, <3>2, KeepsReconciled DEF JobsInv
  <2> QED BY Zenon, <2>11, <2>12, <2>13, <2>15 DEF JobsInv
<1> QED BY Zenon, <1>5, <1>6, <1>7, <1>8 DEF Act

\* A write to the row by the execution that holds its newest token.
LEMMA FinishStep ==
  ASSUME JobsInv, NEW s \in Slots, slot[s].pc # "free", Current(s),
         NEW st \in {"queued", "done", "failed"},
         NEW reason \in {"none", "failed", "deadline", "exhausted"},
         NEW d \in 0 .. MaxDelay, NEW u \in 0 .. MaxPackets, NEW n \in 0 .. MaxAttempts,
         Finish(s, st, reason, d, u, n), UNCHANGED <<token, left, sent, fate>>,
         slot' = [slot EXCEPT ![s] = Free],
         u <= sent[slot[s].job], u # 0 => st = "queued", st = "queued" => n < MaxAttempts
  PROVE  JobsInv'
<1> DEFINE j == slot[s].job
<1>1. j \in Jobs /\ slot \in [Slots -> Executions]
  BY Zenon, OneExecution
<1>2. Keeps(s) /\ slot'[s].pc = "free"
  BY Zenon, <1>1, FreeKeeps
<1>3. /\ state' = [state EXCEPT ![j] = st] /\ why' = [why EXCEPT ![j] = reason]
      /\ owner' = [owner EXCEPT ![j] = NoOne] /\ lease' = [lease EXCEPT ![j] = 0]
      /\ wait' = [wait EXCEPT ![j] = d] /\ unknown' = [unknown EXCEPT ![j] = u]
      /\ retries' = [retries EXCEPT ![j] = n]
  BY Zenon DEF Finish
<1>4. TypeOK
  BY Zenon DEF JobsInv
<1> HIDE DEF j
<1>5. TypeOK'
  <2>1. state' \in [Jobs -> {"absent", "queued", "leased", "done", "failed"}]
    BY Zenon, <1>1, <1>3, <1>4 DEF TypeOK
  <2>2. why' \in [Jobs -> {"none", "failed", "deadline", "exhausted"}]
    BY Zenon, <1>1, <1>3, <1>4 DEF TypeOK
  <2>3. owner' \in [Jobs -> Runners \cup {NoOne}]
    BY Zenon, <1>1, <1>3, <1>4 DEF TypeOK
  <2>4. 0 \in 0 .. Ttl  BY JobsConstants
  <2>5. lease' \in [Jobs -> 0 .. Ttl]
    BY Zenon, <1>1, <1>3, <1>4, <2>4 DEF TypeOK
  <2>6. wait' \in [Jobs -> 0 .. MaxDelay]
    BY Zenon, <1>1, <1>3, <1>4 DEF TypeOK
  <2>7. unknown' \in [Jobs -> 0 .. MaxPackets] /\ retries' \in [Jobs -> 0 .. MaxAttempts]
    BY Zenon, <1>1, <1>3, <1>4 DEF TypeOK
  <2>8. \A i \in Jobs : state'[i] \notin {"done", "failed"} => retries'[i] < MaxAttempts
    BY Zenon, <1>1, <1>3, <1>4 DEF TypeOK
  <2> QED BY Zenon, <1>2, <1>4, <2>1, <2>2, <2>3, <2>5, <2>6, <2>7, <2>8 DEF TypeOK, Keeps
<1>6. \A t \in Slots : Executing(t)' => t # s /\ slot'[t] = slot[t] /\ Executing(t)
  BY Zenon, <1>2 DEF Keeps, Executing
<1>7. TokenInv' /\ RetryInv'
  BY Zenon, <1>6 DEF JobsInv, TokenInv, RetryInv
<1>8. HolderInv'
  <2> SUFFICES ASSUME NEW t \in Slots, Executing(t)', state'[slot'[t].job] = "leased",
                      slot'[t].token = token'[slot'[t].job]
               PROVE  /\ owner'[slot'[t].job] = Owner[t]
                      /\ slot'[t].unknown = unknown'[slot'[t].job]
    BY Zenon DEF HolderInv
  <2>1. slot'[t] = slot[t] /\ Executing(t) /\ slot[t].job \in Jobs
    BY Zenon, <1>6 DEF JobsInv, TokenInv
  <2>2. slot[t].job # j
    BY Zenon, <1>1, <1>3, <1>4, <2>1 DEF TypeOK
  <2>3. /\ state'[slot[t].job] = state[slot[t].job] /\ owner'[slot[t].job] = owner[slot[t].job]
        /\ unknown'[slot[t].job] = unknown[slot[t].job]
    BY Zenon, <1>3, <1>4, <2>1, <2>2 DEF TypeOK
  <2> QED BY <2>1, <2>3 DEF JobsInv, HolderInv
<1>9. PacketInv'
  <2> SUFFICES ASSUME NEW i \in Jobs
               PROVE  unknown'[i] <= sent[i] /\ (unknown'[i] # 0 => state'[i] \in {"queued", "leased"})
    BY Zenon DEF JobsInv, PacketInv
  <2>1. CASE i = j
    BY Zenon, <1>1, <1>3, <1>4, <2>1 DEF TypeOK, j
  <2>2. CASE i # j
    <3>1. unknown'[i] = unknown[i] /\ state'[i] = state[i]
      BY Zenon, <1>3, <1>4, <2>2 DEF TypeOK
    <3> QED BY Zenon, <3>1 DEF JobsInv, PacketInv
  <2> QED BY Zenon, <2>1, <2>2
<1>10. ReconciledInv'
  BY Zenon, <1>6 DEF JobsInv, ReconciledInv, Decided
<1> QED BY Zenon, <1>5, <1>7, <1>8, <1>9, <1>10 DEF JobsInv

\* Each outcome writes the row under the current token, or writes nothing.
LEMMA PublishInv ==
  ASSUME JobsInv, NEW s \in Slots, Publish(s)  PROVE JobsInv'
<1> DEFINE o == slot[s].out
<1> DEFINE n == slot[s].retries
<1>1. slot[s].pc = "publish" /\ slot[s].pc # "free" /\ UNCHANGED <<left, sent, fate>>
      /\ slot' = [slot EXCEPT ![s] = Free]
  BY Zenon DEF Publish
<1>2. /\ Reconciled(s) /\ slot \in [Slots -> Executions] /\ slot[s] \in Executions
      /\ slot[s].packet \in 0 .. MaxPackets /\ sent[slot[s].job] \in 0 .. MaxPackets
  BY Zenon, <1>1, OneExecution
<1>3. n \in Nat /\ n < MaxAttempts /\ n \in 0 .. MaxAttempts /\ n + 1 \in 0 .. MaxAttempts
  BY <1>1, <1>2, JobsConstants DEF JobsInv, RetryInv, Executing, Executions
<1>4. slot[s].packet <= sent[slot[s].job]
  BY Zenon, <1>2 DEF Reconciled
<1>5. CASE ~Current(s)
  <2>1. UNCHANGED row  BY Zenon, <1>5 DEF Publish
  <2>2. Keeps(s) /\ slot'[s].pc = "free"  BY Zenon, <1>1, <1>2, FreeKeeps
  <2> QED BY Zenon, <1>1, <2>1, <2>2, SlotOnly
<1>6. CASE Current(s)
  <2>1. UNCHANGED <<token, left, sent, fate>>
    BY Zenon, <1>1, <1>6 DEF Publish
  <2>2. 0 \in 0 .. MaxDelay /\ MaxDelay \in 0 .. MaxDelay /\ 0 \in 0 .. MaxPackets
        /\ 0 <= sent[slot[s].job]
    BY <1>2, JobsConstants
  <2>3. CASE Finish(s, "done", "none", 0, 0, n)
    BY Zenon, <1>1, <1>3, <1>6, <2>1, <2>2, <2>3, FinishStep
  <2>4. CASE o = "failed" /\ Finish(s, "failed", o, 0, 0, n)
    BY Zenon, <1>1, <1>3, <1>6, <2>1, <2>2, <2>4, FinishStep
  <2>5. CASE o = "deadline" /\ Finish(s, "failed", o, 0, 0, n)
    BY Zenon, <1>1, <1>3, <1>6, <2>1, <2>2, <2>5, FinishStep
  <2>6. CASE Finish(s, "failed", "exhausted", 0, 0, n + 1)
    BY Zenon, <1>1, <1>3, <1>6, <2>1, <2>2, <2>6, FinishStep
  <2>7. CASE ~Exhausted(s) /\ \E d \in 0 .. MaxDelay : Finish(s, "queued", "none", d, 0, n + 1)
    <3>1. n + 1 < MaxAttempts  BY <1>3, <2>7, JobsConstants DEF Exhausted
    <3>2. PICK d \in 0 .. MaxDelay : Finish(s, "queued", "none", d, 0, n + 1)
      BY Zenon, <2>7
    <3> QED BY Zenon, <1>1, <1>3, <1>6, <2>1, <2>2, <3>1, <3>2, FinishStep
  <2>8. CASE Finish(s, "queued", "none", MaxDelay, 0, n)
    BY Zenon, <1>1, <1>3, <1>6, <2>1, <2>2, <2>8, FinishStep
  <2>9. CASE Finish(s, "queued", "none", MaxDelay, slot[s].packet, n)
    BY Zenon, <1>1, <1>2, <1>3, <1>4, <1>6, <2>1, <2>2, <2>9, FinishStep
  <2> QED BY Zenon, <1>6, <2>3, <2>4, <2>5, <2>6, <2>7, <2>8, <2>9 DEF Publish
<1> QED BY Zenon, <1>5, <1>6

\* A lease given back at shutdown leaves the row as it was leased.
LEMMA ReturnLeaseInv ==
  ASSUME JobsInv, NEW s \in Slots, ReturnLease(s)  PROVE JobsInv'
<1>1. slot[s].pc # "free" /\ UNCHANGED <<left, sent, fate>> /\ slot' = [slot EXCEPT ![s] = Free]
  BY Zenon DEF ReturnLease
<1>2. /\ Reconciled(s) /\ slot \in [Slots -> Executions] /\ slot[s] \in Executions
      /\ slot[s].unknown \in 0 .. MaxPackets /\ slot[s].job \in Jobs
  BY Zenon, <1>1, OneExecution
<1>3. slot[s].retries < MaxAttempts /\ slot[s].retries \in 0 .. MaxAttempts
  BY <1>1, <1>2, JobsConstants DEF JobsInv, RetryInv, Executing, Executions
<1>4. wait[slot[s].job] \in 0 .. MaxDelay /\ slot[s].unknown <= sent[slot[s].job]
  BY Zenon, <1>2 DEF JobsInv, TypeOK, Reconciled
<1>5. CASE ~Current(s)
  <2>1. UNCHANGED row  BY Zenon, <1>5 DEF ReturnLease
  <2>2. Keeps(s) /\ slot'[s].pc = "free"  BY Zenon, <1>1, <1>2, FreeKeeps
  <2> QED BY Zenon, <1>1, <2>1, <2>2, SlotOnly
<1>6. CASE Current(s)
  <2>1. UNCHANGED <<token, left, sent, fate>>
        /\ Finish(s, "queued", "none", wait[slot[s].job], slot[s].unknown, slot[s].retries)
    BY Zenon, <1>1, <1>6 DEF ReturnLease
  <2> QED BY Zenon, <1>1, <1>2, <1>3, <1>4, <1>6, <2>1, FinishStep
<1> QED BY Zenon, <1>5, <1>6

\* A lease gives a token that no execution has.
LEMMA LeaseInv ==
  ASSUME JobsInv, NEW s \in Slots, NEW j \in Jobs, Lease(s, j)  PROVE JobsInv'
<1> DEFINE r == Owner[s]
<1>0. r \in Runners  BY Zenon, JobsConstants
<1>1. TypeOK  BY Zenon DEF JobsInv
<1>2. /\ slot[s].pc = "free" /\ state[j] \in {"queued", "leased"}
      /\ token[j] < MaxToken
      /\ state' = [state EXCEPT ![j] = "leased"] /\ token' = [token EXCEPT ![j] = token[j] + 1]
      /\ owner' = [owner EXCEPT ![j] = r] /\ lease' = [lease EXCEPT ![j] = Ttl]
      /\ UNCHANGED <<wait, why, unknown, retries, left, sent, fate>>
  BY Zenon DEF Lease, PickFair, Due, NextToken
<1>3. token[j] \in Nat /\ token'[j] = token[j] + 1
      /\ \A i \in Jobs : i # j => token'[i] = token[i] /\ state'[i] = state[i] /\ owner'[i] = owner[i]
  BY <1>1, <1>2, JobsConstants DEF TypeOK
<1> DEFINE x == [Free EXCEPT !.pc = "start", !.job = j, !.token = token'[j],
                             !.unknown = unknown[j], !.retries = retries[j]]
<1>4. slot' = [slot EXCEPT ![s] = x]
  BY Zenon DEF Lease
<1>5. /\ x \in Executions
      /\ x.pc = "start" /\ x.job = j /\ x.token = token'[j] /\ x.unknown = unknown[j]
      /\ x.retries = retries[j] /\ x.packet = 0
  <2>1. Free \in Executions /\ Free.packet = 0
    BY Zenon, FreeType DEF Free
  <2>2. unknown[j] \in 0 .. MaxPackets /\ retries[j] \in Nat /\ token'[j] \in Nat
    BY <1>1, <1>3, JobsConstants DEF TypeOK
  <2> QED BY Zenon, <2>1, <2>2 DEF Executions, Pcs
<1> HIDE DEF x
<1>6. /\ slot' \in [Slots -> Executions] /\ slot'[s] = x
      /\ \A t \in Slots : t # s => slot'[t] = slot[t]
  BY Zenon, <1>1, <1>4, <1>5 DEF TypeOK
<1>7. slot'[s].pc = "start" /\ slot'[s].job = j /\ slot'[s].token = token[j] + 1
      /\ slot'[s].unknown = unknown[j] /\ slot'[s].retries = retries[j] /\ slot'[s].packet = 0
  BY Zenon, <1>3, <1>5, <1>6
<1> HIDE DEF r
<1>8. TypeOK'
  <2>1. state' \in [Jobs -> {"absent", "queued", "leased", "done", "failed"}]
    BY Zenon, <1>1, <1>2 DEF TypeOK
  <2>2. token[j] + 1 \in 0 .. MaxToken
    BY <1>2, <1>3, JobsConstants
  <2>3. token' \in [Jobs -> 0 .. MaxToken]
    BY Zenon, <1>1, <1>2, <2>2 DEF TypeOK
  <2>4. owner' \in [Jobs -> Runners \cup {NoOne}]
    BY Zenon, <1>0, <1>1, <1>2 DEF TypeOK
  <2>5. Ttl \in 0 .. Ttl  BY JobsConstants
  <2>6. lease' \in [Jobs -> 0 .. Ttl]
    BY Zenon, <1>1, <1>2, <2>5 DEF TypeOK
  <2>7. \A i \in Jobs : state'[i] \notin {"done", "failed"} => retries'[i] < MaxAttempts
    BY Zenon, <1>1, <1>2 DEF TypeOK
  <2> QED BY Zenon, <1>1, <1>2, <1>6, <2>1, <2>3, <2>4, <2>6, <2>7 DEF TypeOK
<1>9. \A t \in Slots : t # s /\ Executing(t)' =>
        /\ slot'[t] = slot[t] /\ Executing(t) /\ slot[t].job \in Jobs
        /\ slot[t].token \in Nat /\ slot[t].token <= token[slot[t].job]
  BY Zenon, <1>1, <1>6 DEF Executing, JobsInv, TokenInv, TypeOK, Executions
<1>10. \A t \in Slots : t # s /\ Executing(t)' /\ slot'[t].job = j => slot'[t].token < token[j] + 1
  <2> SUFFICES ASSUME NEW t \in Slots, t # s, Executing(t)', slot'[t].job = j
               PROVE  slot'[t].token < token[j] + 1
    OBVIOUS
  <2>1. slot'[t] = slot[t] /\ slot[t].token \in Nat /\ slot[t].token <= token[slot[t].job]
    BY Zenon, <1>9
  <2> QED BY <1>3, <2>1
<1>11. TokenInv'
  <2>1. ASSUME NEW t \in Slots, Executing(t)'
        PROVE  slot'[t].job \in Jobs /\ slot'[t].token <= token'[slot'[t].job]
    <3>1. CASE t = s
      BY <1>3, <1>7, <3>1
    <3>2. CASE t # s
      <4>1. /\ slot'[t] = slot[t] /\ slot[t].job \in Jobs
            /\ slot[t].token \in Nat /\ slot[t].token <= token[slot[t].job]
        BY Zenon, <1>9, <2>1, <3>2
      <4>2. CASE slot[t].job = j
        BY <1>3, <4>1, <4>2
      <4>3. CASE slot[t].job # j
        BY Zenon, <1>3, <4>1, <4>3
      <4> QED BY Zenon, <4>2, <4>3
    <3> QED BY Zenon, <3>1, <3>2
  <2>2. ASSUME NEW t \in Slots, NEW v \in Slots, Executing(t)', Executing(v)',
               slot'[t].job = slot'[v].job, slot'[t].token = slot'[v].token
        PROVE  t = v
    <3>1. CASE t # s /\ v # s
      BY Zenon, <1>9, <2>2, <3>1 DEF JobsInv, TokenInv
    <3>2. CASE t = s /\ v # s
      <4>1. slot'[v].token < token[j] + 1 /\ slot'[v].token = token[j] + 1
        BY Zenon, <1>7, <1>10, <2>2, <3>2
      <4> QED BY <1>3, <4>1
    <3>3. CASE t # s /\ v = s
      <4>1. slot'[t].token < token[j] + 1 /\ slot'[t].token = token[j] + 1
        BY Zenon, <1>7, <1>10, <2>2, <3>3
      <4> QED BY <1>3, <4>1
    <3> QED BY Zenon, <3>1, <3>2, <3>3
  <2> QED BY Zenon, <2>1, <2>2 DEF TokenInv
<1>12. HolderInv'
  <2> SUFFICES ASSUME NEW t \in Slots, Executing(t)', state'[slot'[t].job] = "leased",
                      slot'[t].token = token'[slot'[t].job]
               PROVE  /\ owner'[slot'[t].job] = Owner[t]
                      /\ slot'[t].unknown = unknown'[slot'[t].job]
    BY Zenon DEF HolderInv
  <2>1. CASE t = s
    <3>1. owner'[j] = r
      BY Zenon, <1>1, <1>2 DEF TypeOK
    <3> QED BY Zenon, <1>2, <1>7, <2>1, <3>1 DEF r
  <2>2. CASE t # s
    <3>1. slot'[t] = slot[t] /\ Executing(t) /\ slot[t].job \in Jobs /\ slot[t].token \in Nat
      BY Zenon, <1>9, <2>2
    <3>2. slot[t].job # j
      BY <1>3, <1>10, <2>2, <3>1
    <3>3. /\ state[slot[t].job] = "leased" /\ slot[t].token = token[slot[t].job]
          /\ owner'[slot[t].job] = owner[slot[t].job]
      BY Zenon, <1>3, <3>1, <3>2
    <3>4. owner[slot[t].job] = Owner[t] /\ slot[t].unknown = unknown[slot[t].job]
      BY Zenon, <3>1, <3>3 DEF JobsInv, HolderInv
    <3> QED BY Zenon, <1>2, <3>1, <3>3, <3>4
  <2> QED BY Zenon, <2>1, <2>2
<1>13. PacketInv'
  <2>1. unknown' = unknown /\ sent' = sent /\ fate' = fate
    BY Zenon, <1>2
  <2>2. \A i \in Jobs : state'[i] = state[i] \/ state'[i] = "leased"
    BY Zenon, <1>1, <1>2 DEF TypeOK
  <2> QED BY Zenon, <2>1, <2>2 DEF JobsInv, PacketInv
<1>14. ReconciledInv'
  <2> SUFFICES ASSUME NEW t \in Slots, Executing(t)' PROVE Reconciled(t)'
    BY Zenon DEF ReconciledInv, Reconciled
  <2>1. CASE t = s
    <3>1. unknown[j] <= sent[j] /\ 0 <= sent[j]
      BY <1>1 DEF JobsInv, PacketInv, TypeOK
    <3> QED BY Zenon, <1>2, <1>7, <2>1, <3>1 DEF Reconciled
  <2>2. CASE t # s
    <3>1. slot'[t] = slot[t] /\ Executing(t)
      BY Zenon, <1>9, <2>2
    <3> QED BY Zenon, <1>2, <3>1 DEF JobsInv, ReconciledInv, Reconciled, Decided
  <2> QED BY Zenon, <2>1, <2>2
<1>15. RetryInv'
  <2>1. retries[j] < MaxAttempts
    BY Zenon, <1>1, <1>2 DEF TypeOK
  <2> QED BY Zenon, <1>7, <1>9, <2>1 DEF JobsInv, RetryInv
<1> QED BY Zenon, <1>8, <1>11, <1>12, <1>13, <1>14, <1>15 DEF JobsInv

\* A process that dies takes its executions with it and leaves the rows.
LEMMA CrashInv ==
  ASSUME JobsInv, NEW r \in Runners, Crash(r)  PROVE JobsInv'
<1>1. slot' = [t \in Slots |-> IF Owner[t] = r THEN Free ELSE slot[t]] /\ UNCHANGED <<row, left, sent, fate>>
  BY Zenon DEF Crash
<1>2. slot \in [Slots -> Executions]
  BY Zenon DEF JobsInv, TypeOK
<1>3. slot' \in [Slots -> Executions] /\ \A t \in Slots : Executing(t)' => slot'[t] = slot[t] /\ Executing(t)
  BY Zenon, <1>1, <1>2, FreeType DEF Executing
<1>4. TypeOK'
  BY Zenon, <1>1, <1>3 DEF JobsInv, TypeOK, row
<1>5. /\ state' = state /\ token' = token /\ owner' = owner /\ unknown' = unknown
      /\ sent' = sent /\ fate' = fate
  BY Zenon, <1>1 DEF row
<1>6. TokenInv'
  BY Zenon, <1>3, <1>5 DEF JobsInv, TokenInv
<1>7. HolderInv' /\ RetryInv'
  BY Zenon, <1>3, <1>5 DEF JobsInv, HolderInv, RetryInv
<1>8. PacketInv'
  BY Zenon, <1>5 DEF JobsInv, PacketInv
<1>9. ReconciledInv'
  BY Zenon, <1>3, <1>5 DEF JobsInv, ReconciledInv, Decided
<1> QED BY Zenon, <1>4, <1>6, <1>7, <1>8, <1>9 DEF JobsInv

\* A new row has no lease, no packet and all its retries.
LEMMA EnqueueInv ==
  ASSUME JobsInv, NEW j \in Jobs, Enqueue(j)  PROVE JobsInv'
<1>1. /\ state[j] = "absent" /\ state' = [state EXCEPT ![j] = "queued"]
      /\ UNCHANGED <<token, owner, lease, wait, why, unknown, retries, left, sent, fate, slot>>
  BY Zenon DEF Enqueue
<1>2. TypeOK  BY Zenon DEF JobsInv
<1>3. state'[j] = "queued" /\ \A i \in Jobs : i # j => state'[i] = state[i]
  BY Zenon, <1>1, <1>2 DEF TypeOK
<1>4. TokenInv' /\ ReconciledInv' /\ RetryInv'
  BY Zenon, <1>1 DEF JobsInv, TokenInv, ReconciledInv, RetryInv, Executing, Decided
<1>5. HolderInv'
  <2>1. \A i \in Jobs : state'[i] = "leased" => state[i] = "leased"
    BY Zenon, <1>3
  <2>2. token' = token /\ owner' = owner /\ unknown' = unknown /\ slot' = slot
    BY Zenon, <1>1
  <2>3. \A t \in Slots : Executing(t) => slot[t].job \in Jobs
    BY Zenon DEF JobsInv, TokenInv
  <2> QED BY Zenon, <2>1, <2>2, <2>3 DEF JobsInv, HolderInv, Executing
<1>6. PacketInv'
  <2>1. \A i \in Jobs : state[i] \in {"queued", "leased"} => state'[i] = state[i]
    BY Zenon, <1>1, <1>3
  <2>2. unknown' = unknown /\ sent' = sent /\ fate' = fate
    BY Zenon, <1>1
  <2> QED BY <2>1, <2>2 DEF JobsInv, PacketInv
<1> QED BY Zenon, <1>1, <1>2, <1>3, <1>4, <1>5, <1>6 DEF JobsInv, TypeOK

\* Recovery gives the row a token that no execution has.
LEMMA RecoverFailedInv ==
  ASSUME JobsInv, NEW j \in Jobs, RecoverFailed(j)  PROVE JobsInv'
<1>1. /\ state[j] = "failed" /\ token[j] < MaxToken
      /\ state' = [state EXCEPT ![j] = "queued"] /\ token' = [token EXCEPT ![j] = token[j] + 1]
      /\ why' = [why EXCEPT ![j] = "none"] /\ unknown' = [unknown EXCEPT ![j] = 0]
      /\ retries' = [retries EXCEPT ![j] = 0]
      /\ UNCHANGED <<owner, lease, wait, left, sent, fate, slot>>
  BY Zenon DEF RecoverFailed
<1>2. TypeOK  BY Zenon DEF JobsInv
<1>3. /\ state'[j] = "queued" /\ token[j] \in Nat /\ token'[j] = token[j] + 1 /\ unknown'[j] = 0
      /\ \A i \in Jobs : i # j => /\ state'[i] = state[i] /\ token'[i] = token[i]
                                  /\ unknown'[i] = unknown[i] /\ retries'[i] = retries[i]
  BY <1>1, <1>2, JobsConstants DEF TypeOK
<1>4. TypeOK'
  <2>1. token[j] + 1 \in 0 .. MaxToken /\ 0 \in 0 .. MaxPackets /\ 0 \in 0 .. MaxAttempts /\ 0 < MaxAttempts
    BY <1>1, <1>3, JobsConstants
  <2>2. token' \in [Jobs -> 0 .. MaxToken]
    BY Zenon, <1>1, <1>2, <2>1 DEF TypeOK
  <2>3. state' \in [Jobs -> {"absent", "queued", "leased", "done", "failed"}]
    BY Zenon, <1>1, <1>2 DEF TypeOK
  <2>4. why' \in [Jobs -> {"none", "failed", "deadline", "exhausted"}]
    BY Zenon, <1>1, <1>2 DEF TypeOK
  <2>5. unknown' \in [Jobs -> 0 .. MaxPackets] /\ retries' \in [Jobs -> 0 .. MaxAttempts]
    BY Zenon, <1>1, <1>2, <2>1 DEF TypeOK
  <2>6. \A i \in Jobs : state'[i] \notin {"done", "failed"} => retries'[i] < MaxAttempts
    BY Zenon, <1>1, <1>2, <2>1 DEF TypeOK
  <2> QED BY Zenon, <1>1, <1>2, <2>2, <2>3, <2>4, <2>5, <2>6 DEF TypeOK
<1>5. \A t \in Slots : Executing(t) => /\ slot[t].job \in Jobs /\ slot[t].token \in Nat
                                       /\ slot[t].token <= token[slot[t].job]
  BY Zenon, <1>2 DEF JobsInv, TokenInv, TypeOK, Executions, Executing
<1>6. TokenInv'
  <2>0. \A i \in Jobs : token[i] \in Nat /\ (token'[i] = token[i] \/ token'[i] = token[i] + 1)
    BY <1>2, <1>3, JobsConstants DEF TypeOK
  <2>1. \A t \in Slots : Executing(t) => slot[t].token <= token'[slot[t].job]
    BY <1>5, <2>0
  <2> QED BY Zenon, <1>1, <1>5, <2>1 DEF JobsInv, TokenInv, Executing
<1>7. HolderInv'
  <2>1. \A i \in Jobs : state'[i] = "leased" =>
          state[i] = "leased" /\ token'[i] = token[i] /\ unknown'[i] = unknown[i]
    BY Zenon, <1>3
  <2>2. owner' = owner /\ slot' = slot
    BY Zenon, <1>1
  <2> QED BY Zenon, <1>5, <2>1, <2>2 DEF JobsInv, HolderInv, Executing
<1>8. PacketInv'
  <2>1. sent[j] \in Nat /\ sent' = sent /\ fate' = fate
    BY <1>1, <1>2, JobsConstants DEF TypeOK
  <2>2. 0 <= sent[j]
    BY <2>1
  <2> SUFFICES ASSUME NEW i \in Jobs
               PROVE  /\ unknown'[i] <= sent[i] /\ (unknown'[i] # 0 => state'[i] \in {"queued", "leased"})
                      /\ \A m \in Packets : m > sent[i] => fate[i][m] = "none"
    BY Zenon, <2>1 DEF PacketInv
  <2>3. /\ unknown[i] <= sent[i] /\ (unknown[i] # 0 => state[i] \in {"queued", "leased"})
        /\ \A m \in Packets : m > sent[i] => fate[i][m] = "none"
    BY Zenon DEF JobsInv, PacketInv
  <2>4. CASE i = j
    BY Zenon, <1>3, <2>2, <2>3, <2>4
  <2>5. CASE i # j
    BY Zenon, <1>3, <2>3, <2>5
  <2> QED BY Zenon, <2>4, <2>5
<1>9. ReconciledInv' /\ RetryInv'
  BY Zenon, <1>1 DEF JobsInv, ReconciledInv, RetryInv, Executing, Decided
<1> QED BY Zenon, <1>4, <1>6, <1>7, <1>8, <1>9 DEF JobsInv

\* The chain decides a packet: what was decided stays decided.
LEMMA DecideInv ==
  ASSUME JobsInv, NEW j \in Jobs, NEW n \in Packets, Decide(j, n)  PROVE JobsInv'
<1>1. fate[j][n] = "sent" /\ UNCHANGED <<row, left, sent, slot>>
  BY Zenon DEF Decide
<1>2. PICK f \in {"landed", "dead"} : fate' = [fate EXCEPT ![j][n] = f]
  BY Zenon DEF Decide
<1>3. TypeOK  BY Zenon DEF JobsInv
<1>4. fate[j] \in [Packets -> {"none", "sent", "landed", "dead"}]
  BY Zenon, <1>3 DEF TypeOK
<1>5. fate' = [fate EXCEPT ![j] = [fate[j] EXCEPT ![n] = f]]
  BY Zenon, <1>2, <1>3 DEF TypeOK
<1>6. fate' \in [Jobs -> [Packets -> {"none", "sent", "landed", "dead"}]]
  BY Zenon, <1>3, <1>4, <1>5 DEF TypeOK
<1>7. \A i \in Jobs : \A m \in Packets : i # j \/ m # n => fate'[i][m] = fate[i][m]
  BY Zenon, <1>3, <1>4, <1>5 DEF TypeOK
<1>8. \A i \in Jobs : \A m \in Packets : /\ Decided(i, m) => fate'[i][m] \in {"landed", "dead"}
                                         /\ fate[i][m] = "none" => fate'[i][m] = "none"
  BY Zenon, <1>1, <1>7 DEF Decided
<1>9. TypeOK'
  BY Zenon, <1>1, <1>3, <1>6 DEF TypeOK, row
<1>10. TokenInv' /\ HolderInv' /\ RetryInv'
  BY Zenon, <1>1 DEF JobsInv, TokenInv, HolderInv, RetryInv, Executing, row
<1>11. PacketInv'
  BY Zenon, <1>1, <1>8 DEF JobsInv, PacketInv, row
<1>12. ReconciledInv'
  <2> SUFFICES ASSUME NEW t \in Slots, Executing(t) PROVE Reconciled(t)'
    BY Zenon, <1>1 DEF ReconciledInv, Reconciled, Executing
  <2>1. /\ Reconciled(t) /\ slot[t].job \in Jobs
        /\ (slot[t].unknown # 0 => slot[t].unknown \in Packets)
    BY Zenon, OneExecution DEF Executing
  <2> QED BY Zenon, <1>1, <1>8, <2>1 DEF Reconciled, Decided
<1> QED BY Zenon, <1>9, <1>10, <1>11, <1>12 DEF JobsInv

\* Time only counts leases, delays and deadlines down.
LEMMA TickInv ==
  ASSUME JobsInv, Tick  PROVE JobsInv'
<1>1. /\ lease' = Down(lease) /\ wait' = Down(wait) /\ left' = Down(left)
      /\ UNCHANGED <<state, token, owner, why, unknown, retries, sent, fate, slot>>
  BY Zenon DEF Tick
<1>2. lease' \in [Jobs -> 0 .. Ttl] /\ wait' \in [Jobs -> 0 .. MaxDelay] /\ left' \in [Jobs -> Nat]
  BY <1>1, JobsConstants DEF JobsInv, TypeOK, Down
<1>3. TypeOK'
  BY Zenon, <1>1, <1>2 DEF JobsInv, TypeOK
<1>4. TokenInv' /\ HolderInv' /\ RetryInv'
  BY Zenon, <1>1 DEF JobsInv, TokenInv, HolderInv, RetryInv, Executing
<1>5. PacketInv' /\ ReconciledInv'
  BY Zenon, <1>1 DEF JobsInv, PacketInv, ReconciledInv, Executing, Decided
<1> QED BY Zenon, <1>3, <1>4, <1>5 DEF JobsInv

\* Every step of the runners, of recovery and of time keeps JobsInv.
LEMMA NextInv ==
  ASSUME JobsInv, [Next]_vars  PROVE JobsInv'
<1>1. CASE \E j \in Jobs : Enqueue(j) \/ RecoverFailed(j) \/ \E n \in Packets : Decide(j, n)
  BY Zenon, <1>1, EnqueueInv, RecoverFailedInv, DecideInv
<1>2. CASE \E s \in Slots : \E j \in Jobs : Lease(s, j)
  BY Zenon, <1>2, LeaseInv
<1>3. CASE \E s \in Slots : Renew(s) \/ DeadlineAbort(s) \/ ReturnLease(s)
  BY Zenon, <1>3, RenewInv, DeadlineAbortInv, ReturnLeaseInv
<1>4. CASE \E s \in Slots : SlotStep(s)
  BY Zenon, <1>4, StartInv, ReconcileInv, RunInv, FencedInv, ActInv, PublishInv DEF SlotStep
<1>5. CASE \E r \in Runners : Crash(r)
  BY Zenon, <1>5, CrashInv
<1>6. CASE Tick
  BY Zenon, <1>6, TickInv
<1>7. CASE UNCHANGED vars
  <2>1. UNCHANGED <<state, token, owner, lease, wait, why, unknown, retries, left, sent, fate, slot>>
    BY Zenon, <1>7 DEF vars, row
  <2>2. TypeOK' /\ TokenInv' /\ HolderInv' /\ RetryInv'
    BY Zenon, <2>1 DEF JobsInv, TypeOK, TokenInv, HolderInv, RetryInv, Executing
  <2>3. PacketInv' /\ ReconciledInv'
    BY Zenon, <2>1 DEF JobsInv, PacketInv, ReconciledInv, Executing, Decided
  <2> QED BY Zenon, <2>2, <2>3 DEF JobsInv
<1> QED BY Zenon, <1>1, <1>2, <1>3, <1>4, <1>5, <1>6, <1>7 DEF Next

\* No job is in the table and no slot is taken at the start.
LEMMA InitInv ==
  ASSUME Init  PROVE JobsInv
<1>1. \A s \in Slots : slot[s] = Free /\ slot[s].pc = "free"
  BY Zenon, FreeType DEF Init
<1>2. TypeOK
  BY FreeType, JobsConstants DEF Init, TypeOK
<1>3. TokenInv /\ HolderInv /\ ReconciledInv /\ RetryInv
  BY Zenon, <1>1 DEF TokenInv, HolderInv, ReconciledInv, RetryInv, Executing
<1>4. PacketInv
  BY DEF Init, PacketInv
<1> QED BY Zenon, <1>2, <1>3, <1>4 DEF JobsInv

\* JobsInv holds in every reachable state, for any jobs, runners and slots.
THEOREM JobsInvariant == Spec => []JobsInv
<1>1. Init => JobsInv
  BY Zenon, InitInv
<1>2. JobsInv /\ [Next]_vars => JobsInv'
  BY Zenon, NextInv
<1> QED BY <1>1, <1>2, PTL DEF Spec

\* The rows, packets and slots keep their types; in particular a job that is
\* not finished has retries left and tokens stay within the bound.
THEOREM JobsTypes == Spec => []TypeOK
<1>1. JobsInv => TypeOK
  BY Zenon DEF JobsInv
<1> QED BY <1>1, JobsInvariant, PTL

\* At most one execution holds the lease of a job (lease, renew, holds).
THEOREM LeaseExcludes == Spec => []OneHolder
<1>1. JobsInv => OneHolder
  <2> SUFFICES ASSUME JobsInv, NEW s \in Slots, NEW t \in Slots, Holds(s), Holds(t),
                      slot[s].job = slot[t].job
               PROVE  s = t
    BY Zenon DEF OneHolder
  <2>1. slot[s].token = slot[t].token /\ Executing(s) /\ Executing(t)
    BY Zenon DEF Holds, Executing
  <2> QED BY Zenon, <2>1 DEF JobsInv, TokenInv
<1> QED BY <1>1, JobsInvariant, PTL

\* Which steps take a job out of "leased", or change its unknown packet: those
\* of the execution with the newest token; or the job was absent or failed.
LEMMA RowStep ==
  ASSUME JobsInv, [Next]_vars, NEW j \in Jobs
  PROVE  \/ unknown'[j] = unknown[j] /\ (state'[j] = state[j] \/ state'[j] = "leased")
         \/ state[j] \in {"absent", "failed"}
         \/ \E s \in Slots : /\ slot[s].job = j /\ Current(s)
                             /\ Publish(s) \/ ReturnLease(s)
<1>0. TypeOK  BY Zenon DEF JobsInv
<1>1. CASE UNCHANGED <<state, unknown>>
  BY Zenon, <1>1
<1>2. ASSUME NEW i \in Jobs, Enqueue(i) \/ RecoverFailed(i)
      PROVE  state[j] \in {"absent", "failed"} \/ (unknown'[j] = unknown[j] /\ state'[j] = state[j])
  <2>1. CASE i = j
    BY Zenon, <1>2, <2>1 DEF Enqueue, RecoverFailed
  <2>2. CASE i # j
    BY Zenon, <1>0, <1>2, <2>2 DEF Enqueue, RecoverFailed, TypeOK
  <2> QED BY Zenon, <2>1, <2>2
<1>3. ASSUME NEW s \in Slots, NEW i \in Jobs, Lease(s, i)
      PROVE  unknown'[j] = unknown[j] /\ (state'[j] = state[j] \/ state'[j] = "leased")
  <2>1. state' = [state EXCEPT ![i] = "leased"] /\ unknown' = unknown
    BY Zenon, <1>3 DEF Lease
  <2> QED BY Zenon, <1>0, <2>1 DEF TypeOK
<1>4. ASSUME NEW s \in Slots, Publish(s) \/ ReturnLease(s), ~(slot[s].job = j /\ Current(s))
      PROVE  unknown'[j] = unknown[j] /\ state'[j] = state[j]
  <2>1. CASE ~Current(s)
    BY Zenon, <1>4, <2>1 DEF Publish, ReturnLease, row
  <2>2. CASE Current(s) /\ slot[s].job # j
    <3>1. \E st, reason, d, u, n : Finish(s, st, reason, d, u, n)
      BY Zenon, <1>4, <2>2 DEF Publish, ReturnLease
    <3> QED BY Zenon, <1>0, <2>2, <3>1 DEF Finish, TypeOK
  <2> QED BY Zenon, <1>4, <2>1, <2>2
<1>5. CASE \E i \in Jobs : \E n \in Packets : Decide(i, n)
  BY Zenon, <1>1, <1>5 DEF Decide, row
<1>6. ASSUME NEW s \in Slots, Renew(s) \/ DeadlineAbort(s) \/ Start(s) \/ Reconcile(s) \/ Run(s)
                              \/ Fenced(s) \/ Act(s)
      PROVE  UNCHANGED <<state, unknown>>
  BY Zenon, <1>6 DEF Renew, DeadlineAbort, Start, Reconcile, Run, Fenced, Act, row
<1>7. CASE \E r \in Runners : Crash(r)
  BY Zenon, <1>1, <1>7 DEF Crash, row
<1>8. CASE Tick
  BY Zenon, <1>1, <1>8 DEF Tick
<1>9. CASE UNCHANGED vars
  BY Zenon, <1>1, <1>9 DEF vars, row
<1>10. CASE \E s \in Slots : (\E i \in Jobs : Lease(s, i)) \/ Renew(s) \/ DeadlineAbort(s) \/ ReturnLease(s) \/ SlotStep(s)
  BY Zenon, <1>3, <1>4, <1>6, <1>10 DEF SlotStep
<1>11. CASE \E i \in Jobs : Enqueue(i) \/ RecoverFailed(i)
  BY Zenon, <1>2, <1>11
<1> QED BY Zenon, <1>5, <1>7, <1>8, <1>9, <1>10, <1>11 DEF Next

\* The execution that may write the row holds the lease, its owner included.
LEMMA CurrentHolds ==
  ASSUME JobsInv, NEW s \in Slots, slot[s].pc # "free", Current(s)
  PROVE  Holds(s) /\ slot[s].unknown = unknown[slot[s].job]
BY Zenon DEF Current, Holds, JobsInv, HolderInv, Executing

\* Only the holder of a job's lease ends it: complete, fail and requeue of a
\* runner that lost the lease change nothing.
THEOREM HolderPublishes == Spec => ResultFromHolder
<1>1. JobsInv /\ [Next]_vars =>
        [\A j \in Jobs : state[j] = "leased" /\ state'[j] # "leased" =>
           \E s \in Slots : slot[s].job = j /\ Holds(s) /\ slot'[s].pc = "free"]_vars
  <2> SUFFICES ASSUME JobsInv, [Next]_vars, NEW j \in Jobs, state[j] = "leased", state'[j] # "leased"
               PROVE  \E s \in Slots : slot[s].job = j /\ Holds(s) /\ slot'[s].pc = "free"
    BY Zenon
  <2>1. PICK s \in Slots : slot[s].job = j /\ Current(s) /\ (Publish(s) \/ ReturnLease(s))
    BY Zenon, RowStep
  <2>2. slot[s].pc # "free" /\ slot' = [slot EXCEPT ![s] = Free]
    BY Zenon, <2>1 DEF Publish, ReturnLease
  <2>3. slot'[s].pc = "free"
    BY Zenon, <2>2, FreeKeeps DEF JobsInv, TypeOK
  <2>4. Holds(s)
    BY Zenon, <2>1, <2>2, CurrentHolds
  <2> QED BY Zenon, <2>1, <2>3, <2>4
<1> QED BY <1>1, JobsInvariant, PTL DEF Spec, ResultFromHolder

\* A transaction recorded as unknown stays in the row until it is decided.
THEOREM UnknownIsKept == Spec => UnknownKept
<1>1. JobsInv /\ [Next]_vars =>
        [\A j \in Jobs : unknown[j] # 0 /\ (unknown'[j] # unknown[j] \/ state'[j] \in {"failed", "done"})
           => fate[j][unknown[j]] \in {"landed", "dead"}]_vars
  <2> SUFFICES ASSUME JobsInv, [Next]_vars, NEW j \in Jobs, unknown[j] # 0,
                      unknown'[j] # unknown[j] \/ state'[j] \in {"failed", "done"}
               PROVE  fate[j][unknown[j]] \in {"landed", "dead"}
    OBVIOUS
  <2>1. state[j] \in {"queued", "leased"}
    BY Zenon DEF JobsInv, PacketInv
  <2>2. PICK s \in Slots : slot[s].job = j /\ Current(s) /\ (Publish(s) \/ ReturnLease(s))
    BY Zenon, <2>1, RowStep
  <2>3. slot[s].pc # "free"
    BY Zenon, <2>2 DEF Publish, ReturnLease
  <2>4. slot[s].unknown = unknown[j] /\ Reconciled(s)
    BY Zenon, <2>2, <2>3, CurrentHolds, OneExecution
  <2>5. unknown \in [Jobs -> 0 .. MaxPackets] /\ state \in [Jobs -> {"absent", "queued", "leased", "done", "failed"}]
    BY Zenon DEF JobsInv, TypeOK
  <2>6. CASE ReturnLease(s)
    <3>1. unknown' = [unknown EXCEPT ![j] = slot[s].unknown] /\ state' = [state EXCEPT ![j] = "queued"]
      BY Zenon, <2>2, <2>6 DEF ReturnLease, Finish
    <3> QED BY Zenon, <2>4, <2>5, <3>1
  <2>7. CASE Publish(s)
    <3>1. slot[s].pc = "publish"  BY Zenon, <2>7 DEF Publish
    <3>2. CASE slot[s].out = "unknown" /\ slot[s].packet = slot[s].unknown
      <4>1. unknown' = [unknown EXCEPT ![j] = slot[s].packet] /\ state' = [state EXCEPT ![j] = "queued"]
        BY Zenon, <2>2, <2>7, <3>2 DEF Publish, Finish
      <4> QED BY Zenon, <2>4, <2>5, <3>2, <4>1
    <3>3. CASE ~(slot[s].out = "unknown" /\ slot[s].packet = slot[s].unknown)
      BY Zenon, <2>2, <2>4, <3>1, <3>3 DEF Reconciled, Decided
    <3> QED BY Zenon, <3>2, <3>3
  <2> QED BY Zenon, <2>2, <2>6, <2>7
<1> QED BY <1>1, JobsInvariant, PTL DEF Spec, UnknownKept

-----------------------------------------------------------------------------
(* The inventory of mint keys, for any number of mints, bindings, messages  *)
(* and retries.                                                             *)
CONSTANTS Bindings, Messages, AssetIntents, PlanIntents, Scopes, MaxMints, MaxTickets, MaxRetry,
          MaxLaunches, MaxLaunchTries, Fallback
VARIABLES status, intentHash, coverage, feeNft, sigs, holding, receipts, tickets

Keys == INSTANCE MintInventory WITH MaxAttempts <- MaxLaunchTries

\* The bounds are numbers, and no intent is the empty one.
InventoryConstants ==
  /\ MaxMints \in Nat /\ MaxTickets \in Nat /\ MaxRetry \in Nat /\ MaxLaunches \in Nat
  /\ Keys!Unset \notin Keys!Intents

\* The smallest member of a set of numbers is one of its members.
LEMMA LeastMember == ASSUME NEW S \in SUBSET Nat, S # {} PROVE Keys!Min(S) \in S
<1> DEFINE R == OpToRel(<, Nat)
<1>1. IsWellFoundedOn(R, Nat)
  BY Zenon, NatLessThanWellFounded
<1>2. \A y \in Nat, x \in Nat : y < x => <<y, x>> \in R
  BY DEF OpToRel
<1> HIDE DEF R
<1>3. \E x \in S : \A y \in S : ~(<<y, x>> \in R)
  BY Zenon, <1>1, WFMin
<1>p. PICK x \in S : \A y \in S : ~(<<y, x>> \in R)
  BY Zenon, <1>3
<1>4. \A y \in S : x <= y
  <2> TAKE y \in S
  <2>1. x \in Nat /\ y \in Nat
    BY Zenon
  <2>2. ~(y < x)
    BY Zenon, <1>2, <1>p, <2>1
  <2> QED BY <2>1, <2>2
<1> QED BY Zenon, <1>4 DEF Keys!Min

\* The inventory counts the way the library does.
LEMMA SameCount == \A S : Keys!Cardinality(S) = Cardinality(S) /\ (Keys!IsFiniteSet(S) <=> IsFiniteSet(S))
  BY Zenon DEF Keys!Cardinality, Cardinality, Keys!IsFiniteSet, IsFiniteSet

\* A binding that holds something holds a mint, and only such a binding does.
LEMMA HeldMint ==
  ASSUME Keys!TypeOK, NEW b \in Bindings
  PROVE  /\ Keys!Held(b) => holding[b] \in Keys!Tickets /\ holding[b].mint \in Keys!Mints
         /\ \A m \in Keys!Mints : holding[b].mint = m => Keys!Held(b)
<1>1. holding[b] \in Keys!Tickets \/ holding[b] = Keys!NoTicket
  BY Zenon DEF Keys!TypeOK
<1>2. \A t \in Keys!Tickets : t.mint \in Keys!Mints
  BY DEF Keys!Tickets
<1>3. Keys!NoTicket.mint \notin Keys!Mints
  BY DEF Keys!NoTicket, Keys!Mints
<1> QED BY Zenon, <1>1, <1>2, <1>3 DEF Keys!Held

\* A status that changes for one mint, which stays on its side of the pool's door, moves no holder.
LEMMA HoldersKept ==
  ASSUME Keys!TypeOK, Keys!Holders, NEW m \in Keys!Mints, NEW w, UNCHANGED holding,
         status' = [status EXCEPT ![m] = w],
         status[m] \in {Keys!Unset, "available"} <=> w \in {Keys!Unset, "available"}
  PROVE  Keys!Holders'
<1>1. status'[m] = w /\ \A k \in Keys!Mints \ {m} : status'[k] = status[k]
  BY Zenon DEF Keys!TypeOK
<1>2. \A k \in Keys!Mints : status'[k] \in {Keys!Unset, "available"} <=> status[k] \in {Keys!Unset, "available"}
  BY Zenon, <1>1
<1>3. \A b \in Bindings : Keys!Held(b)' <=> Keys!Held(b)
  BY Zenon DEF Keys!Held
<1>4. \A b \in Bindings : Keys!Held(b) => holding[b].mint \in Keys!Mints
  BY Zenon, HeldMint
<1> QED BY Zenon, <1>2, <1>3, <1>4 DEF Keys!Holders

\* What one signature on the journal of a mint leaves: the others, and one more of this one.
Kept(m, s) == sigs' = [sigs EXCEPT ![m] = @ \cup {s}]

\* A step that signs nothing leaves the journal's order as it was.
LEMMA Unsigned ==
  ASSUME Keys!OneMessagePerGeneration, Keys!LaunchFollowsOpening, UNCHANGED <<sigs, feeNft>>
  PROVE  Keys!OneMessagePerGeneration' /\ Keys!LaunchFollowsOpening'
<1>1. \A m, a, h : Keys!Stored(m, a, h)' = Keys!Stored(m, a, h)
  BY DEF Keys!Stored
<1>2. \A m : Keys!SignedLaunches(m)' = Keys!SignedLaunches(m)
  BY DEF Keys!SignedLaunches
<1> QED BY Zenon, <1>1, <1>2 DEF Keys!OneMessagePerGeneration, Keys!LaunchFollowsOpening

\* A key that cannot be read any more is put aside.
LEMMA QuarantineStep ==
  ASSUME Keys!InventoryInv, NEW m \in Keys!Mints, Keys!Unexpired(m),
         status' = [status EXCEPT ![m] = "quarantined"],
         UNCHANGED <<intentHash, coverage, feeNft, sigs, holding, receipts, tickets>>
  PROVE  Keys!InventoryInv' /\ Keys!JournalGrows
<1> USE DEF Keys!InventoryInv
<1>1. Keys!TypeOK'
  BY Zenon DEF Keys!TypeOK
<1>2. Keys!Holders'
  BY HoldersKept DEF Keys!Unexpired, Keys!Unset
<1>3. status'[m] = "quarantined" /\ \A k \in Keys!Mints \ {m} : status'[k] = status[k]
  BY Zenon DEF Keys!TypeOK
<1>4. Keys!Journal'
  BY Zenon, <1>3 DEF Keys!Journal
<1>5. Keys!OneMessagePerGeneration' /\ Keys!LaunchFollowsOpening'
  BY Zenon, Unsigned
<1>6. Keys!JournalGrows
  BY Zenon, <1>3 DEF Keys!JournalGrows
<1> QED BY Zenon, <1>1, <1>2, <1>4, <1>5, <1>6

\* One signature more, for the intent the mint is bound to or becomes bound to.
LEMMA SignedStep ==
  ASSUME InventoryConstants, Keys!InventoryInv,
         NEW m \in Keys!Mints, NEW table \in Keys!Tables, NEW g \in Keys!Generations, NEW x \in Messages, NEW i \in Keys!Intents,
         Keys!Unexpired(m), intentHash[m] \in {Keys!Unset, i}, Keys!Stored(m, table, g) = {},
         g > 0 /\ i \notin PlanIntents => Keys!Stored(m, table, g - 1) # {},
         table = "launch" => feeNft[m] = i /\ \E o \in sigs[m] : o.table = "opening",
         Kept(m, [table |-> table, generation |-> g, message |-> x, intent |-> i]),
         status' = [status EXCEPT ![m] = "signed"], intentHash' = [intentHash EXCEPT ![m] = i],
         UNCHANGED <<coverage, feeNft, holding, receipts, tickets>>
  PROVE  Keys!InventoryInv' /\ Keys!JournalGrows
<1> USE DEF Keys!InventoryInv
<1>1. PICK n : n = [table |-> table, generation |-> g, message |-> x, intent |-> i]
  OBVIOUS
<1>2. n \in Keys!Signatures /\ n.table = table /\ n.generation = g /\ n.intent = i
  BY <1>1 DEF Keys!Signatures
<1>3. sigs' = [sigs EXCEPT ![m] = sigs[m] \cup {n}]
  BY Zenon, <1>1 DEF Kept
<1>4. sigs \in [Keys!Mints -> SUBSET Keys!Signatures] /\ sigs[m] \in SUBSET Keys!Signatures
  BY Zenon DEF Keys!TypeOK
<1>5. sigs'[m] = sigs[m] \cup {n} /\ \A k \in Keys!Mints \ {m} : sigs'[k] = sigs[k]
  BY Zenon, <1>3, <1>4
<1>6. Keys!TypeOK'
  <2>1. sigs[m] \cup {n} \in SUBSET Keys!Signatures
    BY <1>2, <1>4
  <2>2. sigs' \in [Keys!Mints -> SUBSET Keys!Signatures]
    BY Zenon, <1>3, <1>4, <2>1
  <2> QED BY Zenon, <2>2 DEF Keys!TypeOK
<1>7. Keys!Holders'
  BY HoldersKept DEF Keys!Unexpired, Keys!Unset
<1>8. /\ status'[m] = "signed" /\ \A k \in Keys!Mints \ {m} : status'[k] = status[k]
      /\ intentHash'[m] = i /\ \A k \in Keys!Mints \ {m} : intentHash'[k] = intentHash[k]
  BY Zenon DEF Keys!TypeOK
<1>9. \A s \in sigs[m] : s.intent = i
  <2> TAKE s \in sigs[m]
  <2>1. s.intent = intentHash[m]
    BY Zenon DEF Keys!Journal
  <2>2. s.intent \in Keys!Intents
    BY <1>4 DEF Keys!Signatures
  <2> QED BY Zenon, <2>1, <2>2 DEF InventoryConstants
<1>10. Keys!Journal'
  <2>1. IsFiniteSet(sigs[m] \cup {n})
    BY Zenon, SameCount, FS_AddElement DEF Keys!Journal
  <2>2. feeNft[m] # Keys!Unset => i = feeNft[m]
    <3>1. feeNft[m] # Keys!Unset => feeNft[m] \in Scopes /\ feeNft[m] = intentHash[m]
      BY Zenon DEF Keys!TypeOK, Keys!Journal
    <3>2. feeNft[m] # Keys!Unset => intentHash[m] = i
      BY Zenon, <3>1
    <3> QED BY Zenon, <3>1, <3>2
  <2>3. \A s \in sigs'[m] : s.intent = i
    BY Zenon, <1>2, <1>5, <1>9
  <2> QED BY Zenon, <1>5, <1>8, <2>1, <2>2, <2>3, SameCount DEF Keys!Journal
<1>11. Keys!OneMessagePerGeneration'
  <2>2. \A r \in sigs[m] : ~(r.table = table /\ r.generation = g)
    BY Zenon DEF Keys!Stored
  <2>3. ASSUME NEW k \in Keys!Mints, NEW s \in sigs'[k], NEW t \in sigs'[k],
               s.table = t.table, s.generation = t.generation
        PROVE  s = t
    <3>1. CASE s \in sigs[k] /\ t \in sigs[k]
      BY Zenon, <2>3, <3>1 DEF Keys!OneMessagePerGeneration
    <3>2. CASE k = m /\ (s = n \/ t = n)
      <4>1. s \in sigs[m] \cup {n} /\ t \in sigs[m] \cup {n}
        BY Zenon, <1>5, <3>2
      <4> QED BY Zenon, <1>2, <2>2, <2>3, <3>2, <4>1
    <3> QED BY Zenon, <1>5, <3>1, <3>2
  <2>4. ASSUME NEW k \in Keys!Mints, NEW s \in sigs'[k], s.generation > 0, s.intent \notin PlanIntents
        PROVE  Keys!Stored(k, s.table, s.generation - 1)' # {}
    <3>1. Keys!Stored(k, s.table, s.generation - 1) # {}
      <4>1. CASE s \in sigs[k]
        BY Zenon, <2>4, <4>1 DEF Keys!OneMessagePerGeneration
      <4>2. CASE k = m /\ s = n
        BY Zenon, <1>2, <2>4, <4>2
      <4> QED BY Zenon, <1>5, <4>1, <4>2
    <3>2. Keys!Stored(k, s.table, s.generation - 1) \subseteq Keys!Stored(k, s.table, s.generation - 1)'
      BY Zenon, <1>5 DEF Keys!Stored
    <3> QED BY Zenon, <3>1, <3>2
  <2> QED BY Zenon, <2>3, <2>4 DEF Keys!OneMessagePerGeneration
<1>12. Keys!LaunchFollowsOpening'
  <2>1. ASSUME NEW k \in Keys!Mints, NEW s \in sigs'[k], s.table = "launch"
        PROVE  /\ feeNft[k] = s.intent
               /\ \E o \in sigs'[k] : o.table = "opening" /\ o.intent = s.intent
    <3>1. CASE s \in sigs[k]
      <4>1. s \in Keys!SignedLaunches(k)
        BY Zenon, <2>1, <3>1 DEF Keys!SignedLaunches
      <4>2. /\ feeNft[k] = s.intent
            /\ \E o \in sigs[k] : o.table = "opening" /\ o.intent = s.intent
        BY Zenon, <4>1 DEF Keys!LaunchFollowsOpening
      <4>3. sigs[k] \subseteq sigs'[k]
        BY Zenon, <1>5
      <4> QED BY Zenon, <4>2, <4>3
    <3>2. CASE k = m /\ s = n
      <4>1. table = "launch"
        BY Zenon, <1>2, <2>1, <3>2
      <4>2. PICK o \in sigs[m] : o.table = "opening"
        BY Zenon, <4>1
      <4>3. o \in sigs'[m] /\ o.intent = i /\ feeNft[m] = i
        BY Zenon, <1>5, <1>9, <4>1
      <4> QED BY Zenon, <1>2, <3>2, <4>2, <4>3
    <3> QED BY Zenon, <1>5, <3>1, <3>2
  <2> QED BY Zenon, <2>1 DEF Keys!LaunchFollowsOpening, Keys!SignedLaunches
<1>13. Keys!JournalGrows
  BY Zenon, <1>5, <1>8 DEF Keys!JournalGrows, Keys!Unexpired
<1> QED BY Zenon, <1>6, <1>7, <1>10, <1>11, <1>12, <1>13

\* A mint that goes in or out of the pool unsigned leaves every journal as it was.
LEMMA PoolStep ==
  ASSUME Keys!InventoryInv, NEW m \in Keys!Mints, NEW w \in {"available", "reserved"},
         status[m] \notin {"signed", "quarantined"}, status' = [status EXCEPT ![m] = w],
         UNCHANGED <<intentHash, coverage, feeNft, sigs>>
  PROVE  /\ status' \in [Keys!Mints -> {Keys!Unset, "available", "reserved", "signed", "quarantined"}]
         /\ Keys!Journal' /\ Keys!OneMessagePerGeneration' /\ Keys!LaunchFollowsOpening' /\ Keys!JournalGrows
<1> USE DEF Keys!InventoryInv
<1>1. status'[m] = w /\ \A k \in Keys!Mints \ {m} : status'[k] = status[k]
  BY Zenon DEF Keys!TypeOK
<1>2. sigs[m] = {}
  BY Zenon DEF Keys!Journal
<1>3. Keys!Journal'
  BY Zenon, <1>1, <1>2 DEF Keys!Journal
<1>4. Keys!JournalGrows
  BY Zenon, <1>1 DEF Keys!JournalGrows
<1> QED BY Zenon, <1>3, <1>4, Unsigned DEF Keys!TypeOK

\* importPrivateKeyFile: a mint that did not exist joins the pool.
LEMMA ImportStep ==
  ASSUME InventoryConstants, Keys!InventoryInv, Keys!ImportPrivateKeyFile
  PROVE  Keys!InventoryInv' /\ Keys!JournalGrows
<1>1. Keys!Fresh \in SUBSET Nat /\ Keys!Fresh # {}
  BY DEF Keys!ImportPrivateKeyFile, Keys!Fresh, Keys!Mints, InventoryConstants
<1>2. PICK f : f = Keys!Min(Keys!Fresh)
  OBVIOUS
<1>3. f \in Keys!Mints /\ status[f] = Keys!Unset
  BY Zenon, <1>1, <1>2, LeastMember DEF Keys!Fresh
<1>4. status' = [status EXCEPT ![f] = "available"]
  BY Zenon, <1>2 DEF Keys!ImportPrivateKeyFile
<1>5. status[f] \notin {"signed", "quarantined"}
  BY <1>3 DEF Keys!Unset
<1>6. UNCHANGED <<intentHash, coverage, feeNft, sigs, holding, receipts, tickets>>
  BY Zenon DEF Keys!ImportPrivateKeyFile
<1>7. Keys!Holders'
  BY Zenon, <1>3, <1>4, <1>6, HoldersKept DEF Keys!InventoryInv
<1> QED BY Zenon, <1>3, <1>4, <1>5, <1>6, <1>7, PoolStep DEF Keys!InventoryInv, Keys!TypeOK

\* The mint `reserve` takes is one of the pool, or one made on the spot.
LEMMA ReservedMint ==
  ASSUME InventoryConstants, NEW b \in Bindings, NEW lane \in {"plain", "covered", "prefer", "unprepared"},
         Keys!Reserve(b, lane)
  PROVE  \E m \in Keys!Mints : /\ status[m] \in {Keys!Unset, "available"}
                          /\ status' = [status EXCEPT ![m] = "reserved"]
                          /\ holding' = [holding EXCEPT ![b] = [id |-> tickets + 1, mint |-> m]]
<1> DEFINE C == Keys!Choice(lane)
           S == IF C # {} THEN C
                ELSE IF Fallback /\ lane # "covered" /\ Keys!Fresh # {} THEN {Keys!Min(Keys!Fresh)}
                ELSE {}
<1>1. PICK m \in S : /\ status' = [status EXCEPT ![m] = "reserved"]
                     /\ holding' = [holding EXCEPT ![b] = [id |-> tickets + 1, mint |-> m]]
  BY Zenon DEF Keys!Reserve
<1>2. Keys!Available \in SUBSET Nat /\ Keys!Fresh \in SUBSET Nat
  BY DEF Keys!Available, Keys!Fresh, Keys!Mints, InventoryConstants
<1>3. \A A \in SUBSET Keys!Available, B \in SUBSET Keys!Available : Keys!FirstOf(A, B) \subseteq Keys!Available
  <2> TAKE A \in SUBSET Keys!Available, B \in SUBSET Keys!Available
  <2>1. A \in SUBSET Nat /\ B \in SUBSET Nat
    BY Zenon, <1>2
  <2>2. (A # {} => Keys!Min(A) \in A) /\ (B # {} => Keys!Min(B) \in B)
    BY Zenon, <2>1, LeastMember
  <2> QED BY Zenon, <2>2 DEF Keys!FirstOf
<1>4. C \subseteq Keys!Available
  <2>1. /\ Keys!Available \ Keys!Covered \in SUBSET Keys!Available /\ Keys!Available \in SUBSET Keys!Available
        /\ Keys!Available \cap Keys!Covered \in SUBSET Keys!Available /\ {} \in SUBSET Keys!Available
        /\ Keys!Available \cap Keys!Frozen \in SUBSET Keys!Available
    BY Zenon
  <2>2. \/ C = Keys!FirstOf(Keys!Available \ Keys!Covered, Keys!Available)
        \/ C = Keys!FirstOf(Keys!Available \cap Keys!Covered, {})
        \/ C = Keys!FirstOf(Keys!Available \cap Keys!Frozen, Keys!Available)
        \/ C = Keys!FirstOf(Keys!Available \cap Keys!Covered, Keys!Available \ Keys!Covered)
    BY DEF Keys!Choice
  <2> QED BY Zenon, <1>3, <2>1, <2>2
<1>5. m \in Keys!Available \cup Keys!Fresh
  <2> HIDE DEF C
  <2>1. CASE C # {}
    BY Zenon, <1>4, <2>1
  <2>2. CASE C = {}
    BY Zenon, <1>2, <2>2, LeastMember
  <2> QED BY Zenon, <2>1, <2>2
<1>6. m \in Keys!Mints /\ status[m] \in {Keys!Unset, "available"}
  BY Zenon, <1>5 DEF Keys!Available, Keys!Fresh
<1> QED BY Zenon, <1>1, <1>6

\* reserve: the mint leaves the pool and has one holder.
LEMMA ReserveStep ==
  ASSUME InventoryConstants, Keys!InventoryInv, NEW b \in Bindings,
         NEW lane \in {"plain", "covered", "prefer", "unprepared"}, Keys!Reserve(b, lane)
  PROVE  Keys!InventoryInv' /\ Keys!JournalGrows
<1> USE DEF Keys!InventoryInv
<1>1. PICK m \in Keys!Mints : /\ status[m] \in {Keys!Unset, "available"}
                         /\ status' = [status EXCEPT ![m] = "reserved"]
                         /\ holding' = [holding EXCEPT ![b] = [id |-> tickets + 1, mint |-> m]]
  BY Zenon, ReservedMint
<1>2. PICK k : k = [id |-> tickets + 1, mint |-> m]
  OBVIOUS
<1>3. /\ ~Keys!Held(b) /\ tickets < MaxTickets /\ tickets' = tickets + 1
      /\ UNCHANGED <<intentHash, coverage, feeNft, sigs, receipts>>
  BY Zenon DEF Keys!Reserve
<1>4. tickets' \in 0 .. MaxTickets /\ k \in Keys!Tickets /\ k.mint = m /\ k # Keys!NoTicket
  BY <1>2, <1>3 DEF Keys!TypeOK, Keys!Tickets, Keys!NoTicket, InventoryConstants
<1>5. holding' = [holding EXCEPT ![b] = k]
  BY Zenon, <1>1, <1>2
<1>6. /\ holding' \in [Bindings -> Keys!Tickets \cup {Keys!NoTicket}]
      /\ holding'[b] = k /\ \A d \in Bindings \ {b} : holding'[d] = holding[d]
  BY Zenon, <1>4, <1>5 DEF Keys!TypeOK
<1>7. status[m] \notin {"signed", "quarantined"}
  BY <1>1 DEF Keys!Unset
<1>8. status'[m] = "reserved" /\ \A n \in Keys!Mints \ {m} : status'[n] = status[n]
  BY Zenon, <1>1 DEF Keys!TypeOK
<1>9. Keys!Holders'
  <2>1. \A d \in Bindings : Keys!Held(d)' <=> (d = b \/ Keys!Held(d))
    BY Zenon, <1>4, <1>6 DEF Keys!Held
  <2>2. \A d \in Bindings : Keys!Held(d) => /\ d # b /\ holding'[d].mint = holding[d].mint
                                       /\ holding[d].mint \in Keys!Mints \ {m}
    BY Zenon, <1>1, <1>3, <1>6, HeldMint DEF Keys!Holders
  <2>3. "reserved" \notin {Keys!Unset, "available"}
    BY DEF Keys!Unset
  <2>4. ASSUME NEW d \in Bindings, Keys!Held(d)' PROVE status'[holding'[d].mint] \notin {Keys!Unset, "available"}
    <3>1. CASE d = b
      BY Zenon, <1>4, <1>6, <1>8, <2>3, <3>1
    <3>2. CASE d # b
      <4>1. Keys!Held(d)
        BY Zenon, <2>1, <2>4, <3>2
      <4>2. status[holding[d].mint] \notin {Keys!Unset, "available"}
        BY Zenon, <4>1 DEF Keys!Holders
      <4>3. status'[holding'[d].mint] = status[holding[d].mint]
        BY Zenon, <1>8, <2>2, <4>1
      <4> QED BY Zenon, <4>2, <4>3
    <3> QED BY Zenon, <3>1, <3>2
  <2>5. ASSUME NEW d \in Bindings, NEW e \in Bindings, Keys!Held(d)', Keys!Held(e)', holding'[d].mint = holding'[e].mint
        PROVE  d = e
    <3>1. CASE d = b \/ e = b
      BY Zenon, <1>4, <1>6, <2>1, <2>2, <2>5, <3>1
    <3>2. CASE d # b /\ e # b
      <4>1. Keys!Held(d) /\ Keys!Held(e) /\ holding[d].mint = holding[e].mint
        BY Zenon, <1>6, <2>1, <2>5, <3>2
      <4> QED BY Zenon, <4>1 DEF Keys!Holders
    <3> QED BY Zenon, <3>1, <3>2
  <2>6. ASSUME NEW n \in Keys!Mints, status'[n] \notin {Keys!Unset, "available"}
        PROVE  \E d \in Bindings : holding'[d].mint = n
    <3>1. CASE n = m
      BY Zenon, <1>4, <1>6, <3>1
    <3>2. CASE n # m
      <4>1. PICK d \in Bindings : holding[d].mint = n
        BY Zenon, <1>8, <2>6, <3>2 DEF Keys!Holders
      <4>2. d # b
        BY Zenon, <1>3, <4>1, HeldMint
      <4> QED BY Zenon, <1>6, <4>1, <4>2
    <3> QED BY Zenon, <3>1, <3>2
  <2> QED BY Zenon, <2>4, <2>5, <2>6 DEF Keys!Holders
<1>10. /\ status' \in [Keys!Mints -> {Keys!Unset, "available", "reserved", "signed", "quarantined"}]
       /\ Keys!Journal' /\ Keys!OneMessagePerGeneration' /\ Keys!LaunchFollowsOpening' /\ Keys!JournalGrows
  BY Zenon, <1>1, <1>3, <1>7, PoolStep
<1>11. Keys!TypeOK'
  BY Zenon, <1>3, <1>4, <1>6, <1>10 DEF Keys!TypeOK
<1> QED BY Zenon, <1>9, <1>10, <1>11

\* releaseUnsignedReservation: only an unsigned mint goes back, and its holder is gone.
LEMMA ReleaseStep ==
  ASSUME InventoryConstants, Keys!InventoryInv, NEW b \in Bindings, NEW expected \in 0 .. MaxTickets,
         Keys!ReleaseUnsignedReservation(b, expected)
  PROVE  Keys!InventoryInv' /\ Keys!JournalGrows
<1> USE DEF Keys!InventoryInv
<1>1. PICK m : m = holding[b].mint
  OBVIOUS
<1>2. /\ Keys!Held(b) /\ status[m] = "reserved" /\ status' = [status EXCEPT ![m] = "available"]
      /\ receipts' = receipts \cup {[ticket |-> holding[b], binding |-> b]}
      /\ holding' = [holding EXCEPT ![b] = Keys!NoTicket]
      /\ UNCHANGED <<intentHash, coverage, feeNft, sigs, tickets>>
  BY Zenon, <1>1 DEF Keys!ReleaseUnsignedReservation, Keys!Releasable
<1>3. m \in Keys!Mints /\ holding[b] \in Keys!Tickets
  BY Zenon, <1>1, <1>2, HeldMint
<1>4. /\ holding' \in [Bindings -> Keys!Tickets \cup {Keys!NoTicket}]
      /\ holding'[b] = Keys!NoTicket /\ \A d \in Bindings \ {b} : holding'[d] = holding[d]
  BY Zenon, <1>2 DEF Keys!TypeOK
<1>5. receipts' \subseteq [ticket : Keys!Tickets, binding : Bindings]
  BY <1>2, <1>3 DEF Keys!TypeOK
<1>6. status[m] \notin {"signed", "quarantined"} /\ "available" \in {"available", "reserved"}
  BY <1>2
<1>7. status'[m] = "available" /\ \A n \in Keys!Mints \ {m} : status'[n] = status[n]
  BY Zenon, <1>2, <1>3 DEF Keys!TypeOK
<1>8. Keys!Holders'
  <2>1. \A d \in Bindings : Keys!Held(d)' <=> (d # b /\ Keys!Held(d))
    BY Zenon, <1>4 DEF Keys!Held
  <2>2. \A d \in Bindings : Keys!Held(d)' => /\ holding'[d] = holding[d] /\ Keys!Held(d)
                                        /\ holding[d].mint \in Keys!Mints \ {m}
    BY Zenon, <1>1, <1>2, <1>4, <2>1, HeldMint DEF Keys!Holders
  <2>3. ASSUME NEW d \in Bindings, Keys!Held(d)' PROVE status'[holding'[d].mint] \notin {Keys!Unset, "available"}
    <3>1. status'[holding'[d].mint] = status[holding[d].mint] /\ Keys!Held(d)
      BY Zenon, <1>7, <2>2, <2>3
    <3> QED BY Zenon, <3>1 DEF Keys!Holders
  <2>4. \A d, e \in Bindings : Keys!Held(d)' /\ Keys!Held(e)' /\ holding'[d].mint = holding'[e].mint => d = e
    BY Zenon, <2>2 DEF Keys!Holders
  <2>5. ASSUME NEW n \in Keys!Mints, status'[n] \notin {Keys!Unset, "available"}
        PROVE  \E d \in Bindings : holding'[d].mint = n
    <3>1. n # m
      BY Zenon, <1>7, <2>5
    <3>2. PICK d \in Bindings : holding[d].mint = n
      BY Zenon, <1>7, <2>5, <3>1 DEF Keys!Holders
    <3>3. d # b
      BY Zenon, <1>1, <3>1, <3>2
    <3> QED BY Zenon, <1>4, <3>2, <3>3
  <2> QED BY Zenon, <2>3, <2>4, <2>5 DEF Keys!Holders
<1>9. /\ status' \in [Keys!Mints -> {Keys!Unset, "available", "reserved", "signed", "quarantined"}]
      /\ Keys!Journal' /\ Keys!OneMessagePerGeneration' /\ Keys!LaunchFollowsOpening' /\ Keys!JournalGrows
  BY Zenon, <1>2, <1>3, <1>6, PoolStep
<1>10. Keys!TypeOK'
  BY Zenon, <1>2, <1>4, <1>5, <1>9 DEF Keys!TypeOK
<1> QED BY Zenon, <1>8, <1>9, <1>10

\* registerLookupCoverage: pinned once.
LEMMA RegisterStep ==
  ASSUME Keys!InventoryInv, NEW m \in Keys!Mints, NEW schema \in 1 .. 2, Keys!RegisterLookupCoverage(m, schema)
  PROVE  Keys!InventoryInv' /\ Keys!JournalGrows
<1> USE DEF Keys!InventoryInv
<1>1. /\ coverage[m] = 0 /\ coverage' = [coverage EXCEPT ![m] = schema]
      /\ UNCHANGED <<status, intentHash, feeNft, sigs, holding, receipts, tickets>>
  BY Zenon DEF Keys!RegisterLookupCoverage
<1>2. schema \in 0 .. 2
  OBVIOUS
<1>3. Keys!TypeOK'
  BY Zenon, <1>1, <1>2 DEF Keys!TypeOK
<1>4. Keys!Holders' /\ Keys!Journal'
  BY Zenon, <1>1 DEF Keys!Holders, Keys!Held, Keys!Journal
<1>5. Keys!OneMessagePerGeneration' /\ Keys!LaunchFollowsOpening'
  BY Zenon, <1>1, Unsigned
<1>6. \A k \in Keys!Mints : coverage[k] # 0 => coverage'[k] = coverage[k]
  BY Zenon, <1>1 DEF Keys!TypeOK
<1>7. Keys!JournalGrows
  BY Zenon, <1>1, <1>6 DEF Keys!JournalGrows
<1> QED BY Zenon, <1>3, <1>4, <1>5, <1>7

\* What is bound elsewhere is refused; a mint with a journal is bound to its intent.
LEMMA BoundIntent ==
  ASSUME InventoryConstants, Keys!InventoryInv, NEW m \in Keys!Mints, NEW i \in Keys!Intents, ~Keys!BoundElsewhere(m, i)
  PROVE  intentHash[m] \in {Keys!Unset, i} /\ \A s \in sigs[m] : s.intent = i
<1>1. intentHash[m] \in {Keys!Unset, i}
  BY Zenon DEF Keys!BoundElsewhere
<1>2. \A s \in sigs[m] : s.intent = intentHash[m] /\ s.intent \in Keys!Intents
  <2>1. \A s \in Keys!Signatures : s.intent \in Keys!Intents
    BY DEF Keys!Signatures
  <2> QED BY Zenon, <2>1 DEF Keys!InventoryInv, Keys!TypeOK, Keys!Journal
<1> QED BY Zenon, <1>1, <1>2 DEF InventoryConstants

\* reserveFundingFirstKeys: a mint bound to another intent is refused.
LEMMA FundingFirstKeysStep ==
  ASSUME InventoryConstants, Keys!InventoryInv, NEW b \in Bindings, NEW c \in Scopes, Keys!ReserveFundingFirstKeys(b, c)
  PROVE  Keys!InventoryInv' /\ Keys!JournalGrows
<1> USE DEF Keys!InventoryInv
<1>1. PICK m : m = holding[b].mint
  OBVIOUS
<1>2. /\ Keys!Held(b) /\ ~Keys!BoundElsewhere(m, c) /\ feeNft[m] = Keys!Unset
      /\ feeNft' = [feeNft EXCEPT ![m] = c] /\ intentHash' = [intentHash EXCEPT ![m] = c]
      /\ UNCHANGED <<status, coverage, sigs, holding, receipts, tickets>>
  BY Zenon, <1>1 DEF Keys!ReserveFundingFirstKeys
<1>3. m \in Keys!Mints /\ c \in Keys!Intents
  BY Zenon, <1>1, <1>2, HeldMint DEF Keys!Intents
<1>4. /\ feeNft'[m] = c /\ \A k \in Keys!Mints \ {m} : feeNft'[k] = feeNft[k]
      /\ intentHash'[m] = c /\ \A k \in Keys!Mints \ {m} : intentHash'[k] = intentHash[k]
  BY Zenon, <1>2, <1>3 DEF Keys!TypeOK
<1>5. Keys!TypeOK'
  BY Zenon, <1>2, <1>3 DEF Keys!TypeOK
<1>6. Keys!Holders'
  BY Zenon, <1>2 DEF Keys!Holders, Keys!Held
<1>7. Keys!Journal'
  <2>1. \A s \in sigs[m] : s.intent = c
    BY Zenon, <1>2, <1>3, BoundIntent
  <2> QED BY Zenon, <1>2, <1>4, <2>1 DEF Keys!Journal
<1>8. Keys!OneMessagePerGeneration'
  <2>1. \A k, a, h : Keys!Stored(k, a, h)' = Keys!Stored(k, a, h)
    BY <1>2 DEF Keys!Stored
  <2> QED BY Zenon, <1>2, <2>1 DEF Keys!OneMessagePerGeneration
<1>9. Keys!SignedLaunches(m) = {}
  <2> SUFFICES ASSUME NEW s \in Keys!SignedLaunches(m) PROVE FALSE
    BY Zenon
  <2>1. feeNft[m] = s.intent
    BY Zenon, <1>3 DEF Keys!LaunchFollowsOpening
  <2>2. s.intent = c
    BY Zenon, <1>2, <1>3, BoundIntent DEF Keys!SignedLaunches
  <2> QED BY Zenon, <1>2, <1>3, <2>1, <2>2 DEF InventoryConstants
<1>10. Keys!LaunchFollowsOpening'
  <2>1. \A k : Keys!SignedLaunches(k)' = Keys!SignedLaunches(k)
    BY <1>2 DEF Keys!SignedLaunches
  <2> QED BY Zenon, <1>2, <1>4, <1>9, <2>1 DEF Keys!LaunchFollowsOpening
<1>11. Keys!JournalGrows
  BY Zenon, <1>2, <1>4 DEF Keys!JournalGrows
<1> QED BY Zenon, <1>5, <1>6, <1>7, <1>8, <1>10, <1>11

\* A signer's step: the key is read and the signature kept, or the mint is put aside.
LEMMA SignerStep ==
  ASSUME InventoryConstants, Keys!InventoryInv,
         NEW m \in Keys!Mints, NEW table \in Keys!Tables, NEW g \in Keys!Generations, NEW x \in Messages, NEW i \in Keys!Intents,
         Keys!Unexpired(m), intentHash[m] \in {Keys!Unset, i}, Keys!Stored(m, table, g) = {},
         g > 0 /\ i \notin PlanIntents => Keys!Stored(m, table, g - 1) # {},
         table = "launch" => feeNft[m] = i /\ \E o \in sigs[m] : o.table = "opening",
         Keys!SignAndKeep(m, table, g, x, i)
  PROVE  Keys!InventoryInv' /\ Keys!JournalGrows
<1>1. CASE status' = [status EXCEPT ![m] = "quarantined"]
           /\ UNCHANGED <<intentHash, coverage, feeNft, sigs, holding, receipts, tickets>>
  BY Zenon, <1>1, QuarantineStep
<1>2. CASE /\ Kept(m, [table |-> table, generation |-> g, message |-> x, intent |-> i])
           /\ status' = [status EXCEPT ![m] = "signed"] /\ intentHash' = [intentHash EXCEPT ![m] = i]
           /\ UNCHANGED <<coverage, feeNft, holding, receipts, tickets>>
  BY Zenon, <1>2, SignedStep
<1> QED BY Zenon, <1>1, <1>2 DEF Keys!SignAndKeep, Kept

\* A retry that names the message before it finds it in the journal.
LEMMA Retained ==
  ASSUME NEW m, NEW table, NEW g, NEW previous, Keys!Retains(m, table, g, previous)
  PROVE  Keys!Stored(m, table, g - 1) # {}
  BY Zenon DEF Keys!Retains

\* assetMintSigner: one intent, and a retry only of the generation before it.
LEMMA AssetStep ==
  ASSUME InventoryConstants, Keys!InventoryInv, NEW b \in Bindings, NEW i \in AssetIntents, NEW x \in Messages,
         NEW previous \in Messages, NEW g \in 0 .. MaxRetry, Keys!AssetMintSigner(b, i, x, g, previous)
  PROVE  Keys!InventoryInv' /\ Keys!JournalGrows
<1>1. PICK m : m = holding[b].mint
  OBVIOUS
<1>2. /\ Keys!Held(b) /\ Keys!Unexpired(m) /\ ~Keys!BoundElsewhere(m, i) /\ Keys!Stored(m, "mint", g) = {}
      /\ g > 0 => Keys!Retains(m, "mint", g, previous)
      /\ Keys!SignAndKeep(m, "mint", g, x, i)
  BY Zenon, <1>1 DEF Keys!AssetMintSigner
<1>3. m \in Keys!Mints /\ i \in Keys!Intents
  BY Zenon, <1>1, <1>2, HeldMint DEF Keys!InventoryInv, Keys!Intents
<1>4. intentHash[m] \in {Keys!Unset, i}
  BY Zenon, <1>2, <1>3, BoundIntent
<1>5. g \in Keys!Generations /\ "mint" \in Keys!Tables /\ "mint" # "launch"
  BY DEF Keys!Generations, Keys!Tables, InventoryConstants
<1>6. g > 0 /\ i \notin PlanIntents => Keys!Stored(m, "mint", g - 1) # {}
  BY Zenon, <1>2, Retained
<1> QED BY Zenon, <1>2, <1>3, <1>4, <1>5, <1>6, SignerStep

\* signPreparedMint: a generation newer than every one signed.
LEMMA PreparedStep ==
  ASSUME InventoryConstants, Keys!InventoryInv, NEW b \in Bindings, NEW i \in PlanIntents, NEW x \in Messages,
         NEW g \in 0 .. MaxRetry, NEW need \in {"none", "buy", "zero-buy"}, Keys!SignPreparedMint(b, i, x, g, need)
  PROVE  Keys!InventoryInv' /\ Keys!JournalGrows
<1>1. PICK m : m = holding[b].mint
  OBVIOUS
<1>2. /\ Keys!Held(b) /\ Keys!Unexpired(m) /\ ~Keys!BoundElsewhere(m, i)
      /\ \A s \in sigs[m] : s.table = "mint" => s.generation < g
      /\ Keys!SignAndKeep(m, "mint", g, x, i)
  BY Zenon, <1>1 DEF Keys!SignPreparedMint
<1>3. m \in Keys!Mints /\ i \in Keys!Intents
  BY Zenon, <1>1, <1>2, HeldMint DEF Keys!InventoryInv, Keys!Intents
<1>4. intentHash[m] \in {Keys!Unset, i}
  BY Zenon, <1>2, <1>3, BoundIntent
<1>5. g \in Keys!Generations /\ "mint" \in Keys!Tables /\ "mint" # "launch" /\ ~(g < g)
  BY DEF Keys!Generations, Keys!Tables, InventoryConstants
<1>6. Keys!Stored(m, "mint", g) = {}
  BY Zenon, <1>2, <1>5 DEF Keys!Stored
<1> QED BY Zenon, <1>2, <1>3, <1>4, <1>5, <1>6, SignerStep

\* fundingFirstOpeningSigner
LEMMA OpeningStep ==
  ASSUME InventoryConstants, Keys!InventoryInv, NEW b \in Bindings, NEW c \in Scopes, NEW x \in Messages,
         NEW previous \in Messages, NEW g \in 0 .. MaxRetry, Keys!FundingFirstOpeningSigner(b, c, x, g, previous)
  PROVE  Keys!InventoryInv' /\ Keys!JournalGrows
<1>1. PICK m : m = holding[b].mint
  OBVIOUS
<1>2. /\ Keys!Held(b) /\ Keys!Unexpired(m) /\ intentHash[m] = c /\ Keys!Stored(m, "opening", g) = {}
      /\ g > 0 => Keys!Retains(m, "opening", g, previous)
      /\ Keys!SignAndKeep(m, "opening", g, x, c)
  BY Zenon, <1>1 DEF Keys!FundingFirstOpeningSigner, Keys!BoundTo, Keys!FundingFirstSign
<1>3. m \in Keys!Mints /\ c \in Keys!Intents
  BY Zenon, <1>1, <1>2, HeldMint DEF Keys!InventoryInv, Keys!Intents
<1>4. intentHash[m] \in {Keys!Unset, c}
  BY Zenon, <1>2
<1>5. g \in Keys!Generations /\ "opening" \in Keys!Tables /\ "opening" # "launch"
  BY DEF Keys!Generations, Keys!Tables, InventoryConstants
<1>6. g > 0 /\ c \notin PlanIntents => Keys!Stored(m, "opening", g - 1) # {}
  BY Zenon, <1>2, Retained
<1> QED BY Zenon, <1>2, <1>3, <1>4, <1>5, <1>6, SignerStep

\* fundingFirstLaunchSigner: the generation is the count of launches signed.
LEMMA LaunchStep ==
  ASSUME InventoryConstants, Keys!InventoryInv, NEW m \in Keys!Mints, NEW c \in Scopes, NEW x \in Messages,
         NEW previous \in Messages, NEW attempt \in 1 .. MaxLaunchTries,
         Keys!FundingFirstLaunchSigner(m, c, x, attempt, previous)
  PROVE  Keys!InventoryInv' /\ Keys!JournalGrows
<1>1. PICK g : g = Cardinality(Keys!SignedLaunches(m))
  OBVIOUS
<1>2. /\ status[m] = "signed" /\ intentHash[m] = c /\ feeNft[m] = c
      /\ \E o \in sigs[m] : o.table = "opening"
      /\ g <= MaxLaunches /\ Keys!Stored(m, "launch", g) = {}
      /\ g > 0 => Keys!Retains(m, "launch", g, previous)
      /\ Keys!SignAndKeep(m, "launch", g, x, c)
  BY Zenon, <1>1, SameCount DEF Keys!FundingFirstLaunchSigner, Keys!LaunchGuard, Keys!BoundTo, Keys!FundingFirstSign
<1>3. g \in Nat
  <2>1. IsFiniteSet(sigs[m]) /\ Keys!SignedLaunches(m) \subseteq sigs[m]
    BY Zenon, SameCount DEF Keys!InventoryInv, Keys!Journal, Keys!SignedLaunches
  <2>2. IsFiniteSet(Keys!SignedLaunches(m))
    BY Zenon, <2>1, FS_Subset
  <2> QED BY Zenon, <1>1, <2>2, FS_CardinalityType
<1>4. g \in Keys!Generations /\ "launch" \in Keys!Tables /\ c \in Keys!Intents /\ Keys!Unexpired(m)
  BY <1>2, <1>3 DEF Keys!Generations, Keys!Tables, InventoryConstants, Keys!Intents, Keys!Unexpired
<1>5. intentHash[m] \in {Keys!Unset, c}
  BY Zenon, <1>2
<1>6. g > 0 /\ c \notin PlanIntents => Keys!Stored(m, "launch", g - 1) # {}
  BY Zenon, <1>2, Retained
<1> QED BY Zenon, <1>2, <1>4, <1>5, <1>6, SignerStep

\* Every method keeps the invariant and only adds to the journals.
LEMMA MethodStep ==
  ASSUME InventoryConstants, Keys!InventoryInv, [Keys!Next]_(Keys!vars)
  PROVE  Keys!InventoryInv' /\ (Keys!JournalGrows \/ UNCHANGED Keys!vars)
<1>1. CASE UNCHANGED Keys!vars
  <2>1. Keys!OneMessagePerGeneration' /\ Keys!LaunchFollowsOpening'
    BY Zenon, <1>1, Unsigned DEF Keys!vars, Keys!InventoryInv
  <2>2. Keys!TypeOK' /\ Keys!Holders' /\ Keys!Journal'
    BY Zenon, <1>1 DEF Keys!vars, Keys!InventoryInv, Keys!TypeOK, Keys!Holders, Keys!Held, Keys!Journal
  <2> QED BY Zenon, <1>1, <2>1, <2>2 DEF Keys!InventoryInv
<1>2. ASSUME NEW m \in Keys!Mints, Keys!ReleaseUnsignedReservationByMint(m) PROVE Keys!InventoryInv' /\ Keys!JournalGrows
  <2>1. 0 \in 0 .. MaxTickets
    BY DEF InventoryConstants
  <2> QED BY Zenon, <1>2, <2>1, ReleaseStep DEF Keys!ReleaseUnsignedReservationByMint
<1>3. CASE Keys!Next
  BY Zenon, <1>2, <1>3, ImportStep, ReserveStep, ReleaseStep, RegisterStep, AssetStep, PreparedStep,
     FundingFirstKeysStep, OpeningStep, LaunchStep DEF Keys!Next
<1> QED BY Zenon, <1>1, <1>3

\* However reservations, releases and signers interleave: a mint out of the pool has one holder, a
\* key signs for the one intent its mint is bound to, generations are signed in order, and a launch
\* follows its opening (mint-inventory.js, every method of SqliteVanityMintInventory).
THEOREM InventoryInductive ==
  ASSUME InventoryConstants
  PROVE  Keys!Spec => []Keys!InventoryInv
<1>1. Keys!Init => Keys!InventoryInv
  <2> SUFFICES ASSUME Keys!Init PROVE Keys!InventoryInv
    OBVIOUS
  <2>1. Keys!TypeOK
    BY DEF Keys!Init, Keys!TypeOK, InventoryConstants
  <2>2. Keys!Holders /\ Keys!Journal
    <3>1. \A b \in Bindings : ~Keys!Held(b)
      BY Zenon DEF Keys!Init, Keys!Held
    <3>2. \A m \in Keys!Mints : status[m] = Keys!Unset /\ sigs[m] = {} /\ feeNft[m] = Keys!Unset
      BY Zenon DEF Keys!Init
    <3> QED BY Zenon, <3>1, <3>2, SameCount, FS_EmptySet DEF Keys!Holders, Keys!Journal
  <2>3. Keys!OneMessagePerGeneration /\ Keys!LaunchFollowsOpening
    BY Zenon DEF Keys!Init, Keys!OneMessagePerGeneration, Keys!LaunchFollowsOpening, Keys!SignedLaunches
  <2> QED BY Zenon, <2>1, <2>2, <2>3 DEF Keys!InventoryInv
<1>2. Keys!InventoryInv /\ [Keys!Next]_(Keys!vars) => Keys!InventoryInv'
  BY Zenon, MethodStep
<1> QED BY <1>1, <1>2, PTL DEF Keys!Spec

\* Two launches never share an address, a key that signed stays out of the pool and signs for one
\* intent, a generation names one message, and a launch is signed only after its opening, for any
\* number of mints, bindings, messages and retries (mint-inventory.js 297-432, 653-900, 942-1183).
THEOREM KeysAlwaysSound ==
  ASSUME InventoryConstants
  PROVE  Keys!Spec => [](Keys!OneHolder /\ Keys!OneRoute /\ Keys!OneMessagePerGeneration /\ Keys!LaunchFollowsOpening)
<1>1. ASSUME Keys!InventoryInv PROVE Keys!OneHolder
  <2>1. ASSUME NEW m \in Keys!Mints
        PROVE  Cardinality({b \in Bindings : holding[b].mint = m})
                 = IF status[m] \in {Keys!Unset, "available"} THEN 0 ELSE 1
    <3> DEFINE H == {b \in Bindings : holding[b].mint = m}
    <3>1. \A b \in H : b \in Bindings /\ Keys!Held(b) /\ holding[b].mint = m
      BY Zenon, <1>1, HeldMint DEF Keys!InventoryInv
    <3>2. CASE status[m] \in {Keys!Unset, "available"}
      <4>1. H = {}
        BY Zenon, <1>1, <3>1, <3>2 DEF Keys!InventoryInv, Keys!Holders
      <4> HIDE DEF H
      <4>2. Cardinality(H) = 0
        BY Zenon, <4>1, FS_EmptySet
      <4> QED BY Zenon, <3>2, <4>2 DEF H
    <3>3. CASE status[m] \notin {Keys!Unset, "available"}
      <4>1. PICK b \in Bindings : holding[b].mint = m
        BY Zenon, <1>1, <3>3 DEF Keys!InventoryInv, Keys!Holders
      <4>2. H = {b}
        BY Zenon, <1>1, <3>1, <4>1, HeldMint DEF Keys!InventoryInv, Keys!Holders
      <4> HIDE DEF H
      <4>3. Cardinality(H) = 1
        BY Zenon, <4>2, FS_Singleton
      <4> QED BY Zenon, <3>3, <4>3 DEF H
    <3> QED BY Zenon, <3>2, <3>3
  <2> QED BY Zenon, <2>1, SameCount DEF Keys!OneHolder
<1>2. Keys!InventoryInv => Keys!OneRoute /\ Keys!OneMessagePerGeneration /\ Keys!LaunchFollowsOpening
  BY Zenon DEF Keys!InventoryInv, Keys!Journal, Keys!OneRoute
<1>3. Keys!InventoryInv => Keys!OneHolder
  BY Zenon, <1>1
<1> QED BY <1>2, <1>3, InventoryInductive, PTL

\* No method erases a signature, a pinned coverage or a fee-NFT key, and a quarantined key signs
\* nothing more (mint-inventory.js 441-472, 721-749, 989-1060).
THEOREM JournalAlwaysGrows ==
  ASSUME InventoryConstants
  PROVE  Keys!Spec => [][Keys!JournalGrows]_(Keys!vars)
<1>1. Keys!InventoryInv /\ [Keys!Next]_(Keys!vars) => [Keys!JournalGrows]_(Keys!vars)
  BY Zenon, MethodStep
<1> QED BY <1>1, InventoryInductive, PTL DEF Keys!Spec
=============================================================================
