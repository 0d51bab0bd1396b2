----------------------------- MODULE TablePlans -----------------------------
(***************************************************************************)
(* The lookup table of a funding-first launch: its durable plan            *)
(* (jobs/lookup-table-plan.mjs), the job that builds it                    *)
(* (handlers-funding-first.mjs launchTable) and the adapter's packets      *)
(* (protocol-v2/chain-adapter.mjs launchTable).                            *)
(*                                                                         *)
(* A table is named by its creation slot: the keeper is the authority of   *)
(* all of them.  The ledger knows the last Window slots.  A packet creates *)
(* the table with its first chunk or appends the next one.                 *)
(***************************************************************************)
EXTENDS Naturals, Sequences, FiniteSets, TLC

CONSTANTS
  Campaigns, Workers,
  Chunks,        \* packets a table takes
  MaxSlot,       \* bound on the slots
  Window,        \* slots of the SlotHashes sysvar
  Lapses         \* a run may outlive its lease: two runs of one campaign

Slots == 1 .. MaxSlot
NoPlan == [slot |-> 0, status |-> "none"]
Idle == [at |-> "idle"]

VARIABLES
  slot,      \* the newest finalized slot
  tables,    \* the ledger: entries <<campaign, chunk>> of each slot's table
  plans,     \* lookup_table_plans
  journal,   \* operatorPackets.latest of each table packet: none, signed, finalized, dead
  run        \* the runs in progress

vars == <<slot, tables, plans, journal, run>>

Packets == Campaigns \X Slots \X (1 .. Chunks)

Init ==
  /\ slot = 1 /\ tables = [s \in Slots |-> <<>>]
  /\ plans = [c \in Campaigns |-> NoPlan]
  /\ journal = [p \in Packets |-> "none"]
  /\ run = [w \in Workers |-> Idle]

recentSlots(hi) == {s \in Slots : s <= hi /\ s + Window > hi}

unresolvedTablePackets(c, s) ==
  \E n \in 1 .. Chunks : /\ journal[<<c, s, n>>] \in {"signed", "finalized"}
                         /\ \A m \in 1 .. n : journal[<<c, s, m>>] # "none"

-----------------------------------------------------------------------------
(* The ledger.                                                             *)

Tick == slot < MaxSlot /\ slot' = slot + 1 /\ UNCHANGED <<tables, plans, journal, run>>

Lands(p) == IF p[3] = 1 THEN tables[p[2]] = <<>> /\ p[2] \in recentSlots(slot)
            ELSE tables[p[2]] # <<>>

Land(p) ==
  /\ journal[p] = "signed" /\ Lands(p)
  /\ tables' = [tables EXCEPT ![p[2]] = Append(@, <<p[1], p[3]>>)]
  /\ journal' = [journal EXCEPT ![p] = "finalized"]
  /\ UNCHANGED <<slot, plans, run>>

\* The packet expires, or the program refuses it.
Die(p) ==
  /\ journal[p] = "signed"
  /\ journal' = [journal EXCEPT ![p] = "dead"]
  /\ UNCHANGED <<slot, tables, plans, run>>

-----------------------------------------------------------------------------
(* The job.                                                                *)

Goto(w, r) == run' = [run EXCEPT ![w] = r]

\* A run starts on the plan it reads; without one it allocates.
Begin(w, c) ==
  /\ run[w] = Idle /\ plans[c].status # "complete"
  /\ Lapses \/ \A v \in Workers : run[v] # Idle => run[v].c # c
  /\ Goto(w, IF plans[c] = NoPlan THEN [at |-> "slots", c |-> c]
             ELSE [at |-> "current", c |-> c, slot |-> plans[c].slot, n |-> 1])
  /\ UNCHANGED <<slot, tables, plans, journal>>

\* allocate: the slots the ledger knows now.
AllocateSlots(w) ==
  /\ run[w].at = "slots"
  /\ Goto(w, [at |-> "existing", c |-> run[w].c, known |-> recentSlots(slot)])
  /\ UNCHANGED <<slot, tables, plans, journal>>

Use(w, s) == Goto(w, [at |-> "current", c |-> run[w].c, slot |-> s, n |-> 1])

Kept(p, known) == p.status # "planned" \/ p.slot \in known

\* allocate: the plan there is, kept unless it is stale, untried and not on the ledger.
AllocateExisting(w) ==
  LET r == run[w]
      p == plans[r.c] IN
  /\ r.at = "existing"
  /\ IF p # NoPlan /\ (Kept(p, r.known) \/ unresolvedTablePackets(r.c, p.slot))
     THEN Use(w, p.slot)
     ELSE Goto(w, [at |-> IF p = NoPlan THEN "lock" ELSE "live", c |-> r.c, known |-> r.known, slot |-> p.slot])
  /\ UNCHANGED <<slot, tables, plans, journal>>

Rank(st) == CASE st = "planned" -> 0 [] st = "created" -> 1 [] OTHER -> 2

\* The plan of that slot advances, never back, and no other plan does.
markLookupTablePlan(c, s, st) ==
  [plans EXCEPT ![c] = IF @ # NoPlan /\ @.slot = s /\ Rank(@.status) < Rank(st)
                       THEN [@ EXCEPT !.status = st] ELSE @]

AllocateLive(w) ==
  LET r == run[w] IN
  /\ r.at = "live"
  /\ IF tables[r.slot] # <<>>
     THEN plans' = markLookupTablePlan(r.c, r.slot, "created") /\ Use(w, plans[r.c].slot)
     ELSE Goto(w, [r EXCEPT !.at = "lock"]) /\ UNCHANGED plans
  /\ UNCHANGED <<slot, tables, journal>>

Newest(S) == CHOOSE s \in S : \A t \in S : t <= s

\* allocate, under the keeper's lock: checked again, then the newest slot no plan holds.
AllocateLock(w) ==
  LET r == run[w]
      p == plans[r.c]
      free == r.known \ {plans[d].slot : d \in Campaigns \ {r.c}} IN
  /\ r.at = "lock"
  /\ IF p # NoPlan /\ (Kept(p, r.known) \/ unresolvedTablePackets(r.c, p.slot))
     THEN Use(w, p.slot) /\ UNCHANGED plans
     ELSE IF free = {} THEN Goto(w, Idle) /\ UNCHANGED plans
     ELSE plans' = [plans EXCEPT ![r.c] = [slot |-> Newest(free), status |-> "planned"]] /\ Use(w, Newest(free))
  /\ UNCHANGED <<slot, tables, journal>>

\* The adapter builds a packet only while the plan names this table.
PlanCurrent(w) ==
  LET r == run[w] IN
  /\ r.at = "current"
  /\ Goto(w, IF plans[r.c].slot = r.slot THEN [r EXCEPT !.at = "send"] ELSE Idle)
  /\ UNCHANGED <<slot, tables, plans, journal>>

Packet(r) == <<r.c, r.slot, r.n>>

\* The packet is journaled and sent, or the journal already holds it.
Send(w) ==
  LET r == run[w] IN
  /\ r.at = "send"
  /\ journal' = [journal EXCEPT ![Packet(r)] = IF @ \in {"none", "dead"} THEN "signed" ELSE @]
  /\ Goto(w, [r EXCEPT !.at = "await"])
  /\ UNCHANGED <<slot, tables, plans>>

\* MUTANT: the plan counts as complete once its last packet was sent.
AwaitSent(w) ==
  LET r == run[w] IN
  /\ r.at = "await"
  /\ Goto(w, IF r.n = Chunks THEN [r EXCEPT !.at = "mark"]
             ELSE IF journal[Packet(r)] = "finalized" THEN [r EXCEPT !.at = "current", !.n = @ + 1] ELSE Idle)
  /\ UNCHANGED <<slot, tables, plans, journal>>

\* Confirmed: the next chunk, or the plan is complete.  Otherwise the run ends, unknown or to be
\* retried, and the next one resumes from the journal.
Await(w) ==
  LET r == run[w] IN
  /\ r.at = "await"
  /\ Goto(w, IF journal[Packet(r)] # "finalized" THEN Idle
             ELSE IF r.n < Chunks THEN [r EXCEPT !.at = "current", !.n = @ + 1] ELSE [r EXCEPT !.at = "mark"])
  /\ UNCHANGED <<slot, tables, plans, journal>>

MarkComplete(w) ==
  /\ run[w].at = "mark"
  /\ plans' = markLookupTablePlan(run[w].c, run[w].slot, "complete")
  /\ Goto(w, Idle)
  /\ UNCHANGED <<slot, tables, journal>>

Crash(w) == run[w] # Idle /\ Goto(w, Idle) /\ UNCHANGED <<slot, tables, plans, journal>>

Step(w) ==
  \/ AllocateSlots(w) \/ AllocateExisting(w) \/ AllocateLive(w) \/ AllocateLock(w)
  \/ PlanCurrent(w) \/ Send(w) \/ Await(w) \/ MarkComplete(w)

Next ==
  \/ Tick
  \/ \E p \in Packets : Land(p) \/ Die(p)
  \/ \E w \in Workers : (\E c \in Campaigns : Begin(w, c)) \/ Step(w) \/ Crash(w)

Spec == Init /\ [][Next]_vars

-----------------------------------------------------------------------------
(* Properties.                                                             *)

\* Every variable keeps its type.
TypeOK ==
  /\ slot \in Slots /\ tables \in [Slots -> Seq(Campaigns \X (1 .. Chunks))]
  /\ plans \in [Campaigns -> {NoPlan} \cup [slot : Slots, status : {"planned", "created", "complete"}]]
  /\ journal \in [Packets -> {"none", "signed", "finalized", "dead"}]
  /\ \A w \in Workers : run[w] # Idle => run[w].c \in Campaigns

\* A table holds the chunks of one campaign, each once and in order, whatever runs, retries and
\* late packets there were (chain-adapter.mjs 109-120).
TablesExact ==
  \A s \in Slots : \E c \in Campaigns :
    /\ Len(tables[s]) <= Chunks
    /\ \A i \in DOMAIN tables[s] : tables[s][i] = <<c, i>>

\* A complete plan names a whole table of its campaign (handlers-funding-first.mjs 59-60).
CompleteIsWhole ==
  \A c \in Campaigns : plans[c].status = "complete" =>
    /\ Len(tables[plans[c].slot]) = Chunks
    /\ \A i \in 1 .. Chunks : tables[plans[c].slot][i][1] = c

\* No two campaigns of the keeper are planned on one table, and a table that another campaign
\* has written is nobody's plan (lookup-table-plan.mjs 1-5).
NoSharedTable ==
  \A c, d \in Campaigns : c # d /\ plans[c] # NoPlan =>
    /\ plans[c].slot # plans[d].slot
    /\ \A i \in DOMAIN tables[plans[c].slot] : tables[plans[c].slot][i][1] # d

\* A plan is never replaced once its table exists, and its status never goes back
\* (lookup-table-plan.mjs 8-10).
PlanKept ==
  \A c \in Campaigns : plans[c] # NoPlan =>
    \/ plans'[c].slot = plans[c].slot /\ Rank(plans'[c].status) >= Rank(plans[c].status)
    \/ plans'[c].slot # plans[c].slot /\ plans[c].status = "planned" /\ tables[plans[c].slot] = <<>>

-----------------------------------------------------------------------------

=============================================================================
