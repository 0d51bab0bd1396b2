----------------------------- MODULE MintRefill -----------------------------
(***************************************************************************)
(* The workers that keep the mint pool full (kids-mint-worker:              *)
(* mint-refill-parallel.js, mint-refill-process.js, mint-import-server.js)  *)
(* and the fenced lease of the inventory under which they import            *)
(* (mint-inventory.js).  A worker is one process with an event loop: a      *)
(* timer tick, the handlers of its compute children, and the private import *)
(* server.  A child is pending (searching), returned (its answer is handled, *)
(* the next job is scheduled), idle (no job), or stale (idle since before   *)
(* the last tick); children carry no other state, so the pool is a record   *)
(* of counts.  What a search finds is a choice.        *)
(***************************************************************************)
EXTENDS Integers, FiniteSets, FiniteSetsExt

CONSTANTS Workers,         \* worker processes sharing one inventory
          Configured, Parallelism, LimitBytes, ReserveBytes, PerChildBytes,
          Target,          \* MINT_REFILL_POLICY.targetAvailable
          MaxReplacements, \* MINT_REFILL_POOL_POLICY.maximumReplacements
          Levels,          \* cgroup usage the watchdog may read
          MaxExpiries,     \* bound: leases a live owner lets expire
          MaxTakes,        \* bound: mints reserved by launches
          MaxFaults        \* bound: children that crash or stall, worker crashes

(* deriveMintRefillProcesses *)
Processes ==
  Max({1, Min({Configured, Parallelism, Max({1, (LimitBytes - ReserveBytes) \div PerChildBytes})})})

VARIABLES lease,     \* the row of kids_mint_refill_lease; live: not expired
          available, \* mints in the pool
          run,       \* "on", "stopping" (aborted or failed), "burst", "down"
          mine,      \* the worker's own copy of the lease's fence, 0 for null
          pool,      \* children and watchdog of each worker
          tick,      \* where the tick awaits: "no", "release", "standby"
          pausedFile, takes, faults, expiries,
          blame,     \* children of the worker that really crashed or stalled
          lastImport \* <<fence, worker>> of the latest import

vars == <<lease, available, run, mine, pool, tick, pausedFile, takes, faults, expiries, blame, lastImport>>

States == {"idle", "stale", "pending", "returned"}
EmptyPool == [idle |-> 0, stale |-> 0, pending |-> 0, returned |-> 0, active |-> FALSE,
              paused |-> FALSE, recycling |-> FALSE, shed |-> 0, failures |-> 0]
NoOwner == "none"

Init ==
  /\ lease = [owner |-> NoOwner, fence |-> 0, live |-> FALSE]
  /\ available = 0
  /\ run = [w \in Workers |-> "on"]
  /\ mine = [w \in Workers |-> 0]
  /\ pool = [w \in Workers |-> EmptyPool]
  /\ tick = [w \in Workers |-> "no"]
  /\ pausedFile = FALSE
  /\ takes = 0 /\ faults = 0 /\ expiries = 0
  /\ blame = [w \in Workers |-> 0]
  /\ lastImport = <<0, NoOwner>>

Holds(w) == lease.live /\ lease.owner = w /\ lease.fence = mine[w]
Full == available >= Target

(* `request`: a child gets a job unless the pool is paused or full; a lease *)
(* past its own expiry fails the run.                                       *)
Asks(w, p) == mine[w] # 0 /\ ~p.paused
Overdue(w, p) == Asks(w, p) /\ ~Holds(w)
Seat(w, p) == IF Asks(w, p) /\ ~Full THEN "pending" ELSE "idle"
Spawn(w, p) == [p EXCEPT ![Seat(w, p)] = @ + 1]

Fail(w, why) ==
  /\ run' = [run EXCEPT ![w] = why]
  /\ UNCHANGED pool

(* `retire` of a child that failed: the replacements of the last minute are *)
(* bounded, and a replacement starts at once.                               *)
RetireFailed(w, state) ==
  LET gone == [pool[w] EXCEPT ![state] = @ - 1, !.failures = @ + 1] IN
  IF gone.failures > MaxReplacements THEN Fail(w, "burst")
  ELSE IF gone.active /\ Overdue(w, gone) THEN Fail(w, "stopping")
  ELSE /\ pool' = [pool EXCEPT ![w] = IF gone.active THEN Spawn(w, gone) ELSE gone]
       /\ UNCHANGED run

Retire(p, state) == [p EXCEPT ![state] = @ - 1, !.shed = @ + 1]
Oldest(p) == {s \in States : p[s] > 0}

(* acquireRefillLease *)
Acquired(w) ==
  [owner |-> w, live |-> TRUE,
   fence |-> lease.fence + IF lease.owner = w /\ lease.live THEN 0 ELSE 1]
Refused(w) == lease.live /\ lease.owner # w

(* `watch`, once every few ticks: the watchdog's verdict on the memory *)
Watched(w, p, level) ==
  CASE level = "shed" /\ Oldest(p) = {} -> {[p EXCEPT !.paused = TRUE]}
    [] level = "shed" -> {Retire([p EXCEPT !.paused = TRUE], s) : s \in Oldest(p)}
    [] level = "pause" -> {[p EXCEPT !.paused = TRUE]}
    [] level = "between" -> {p}
    [] level = "resume" ->
         LET awake == IF p.paused /\ ~Full
               THEN [p EXCEPT !.paused = FALSE, !.idle = 0, !.stale = 0, !.returned = 0,
                              !.pending = @ + p.idle + p.stale + p.returned]
               ELSE [p EXCEPT !.paused = FALSE]
         IN {IF p.shed > 0 THEN Spawn(w, [awake EXCEPT !.shed = @ - 1]) ELSE awake}

(* `tick` on a full or paused pool: children stop, then the lease is given back *)
TickStop(w) ==
  /\ run[w] = "on" /\ tick[w] = "no"
  /\ Full \/ pausedFile
  /\ pool' = [pool EXCEPT ![w] = [EmptyPool EXCEPT !.failures = pool[w].failures]]
  /\ tick' = [tick EXCEPT ![w] = "release"]
  /\ UNCHANGED <<lease, available, run, mine, pausedFile, takes, faults, blame, expiries, lastImport>>

(* `tick` with work to do: acquire or renew the lease, start or watch the pool *)
TickWork(w) ==
  /\ run[w] = "on" /\ tick[w] = "no"
  /\ ~Full /\ ~pausedFile
  /\ IF Refused(w)
       THEN /\ mine' = [mine EXCEPT ![w] = 0]
            /\ pool' = [pool EXCEPT ![w] = [EmptyPool EXCEPT !.failures = pool[w].failures]]
            /\ tick' = [tick EXCEPT ![w] = "standby"]
            /\ UNCHANGED lease
       ELSE /\ lease' = Acquired(w)
            /\ mine' = [mine EXCEPT ![w] = Acquired(w).fence]
            /\ \E level \in Levels : \E p \in
                 LET started == IF pool[w].active THEN pool[w]
                                ELSE [pool[w] EXCEPT !.active = TRUE, !.pending = Processes]
                 IN Watched(w, started, level) \cup {started} :
                   pool' = [pool EXCEPT ![w] = [p EXCEPT !.idle = 0, !.stale = @ + p.idle]]
            /\ UNCHANGED tick
  /\ UNCHANGED <<available, run, pausedFile, takes, faults, blame, expiries, lastImport>>

(* releaseRefillLease: only the row of this owner and fence expires *)
Released(w) == [lease EXCEPT !.live = @ /\ ~(lease.owner = w /\ lease.fence = mine[w])]

(* `tick` after its children exited *)
TickStopped(w) ==
  /\ tick[w] # "no"
  /\ tick' = [tick EXCEPT ![w] = "no"]
  /\ lease' = IF tick[w] = "release" /\ mine[w] # 0 THEN Released(w) ELSE lease
  /\ mine' = [mine EXCEPT ![w] = 0]
  /\ UNCHANGED <<available, run, pool, pausedFile, takes, faults, blame, expiries, lastImport>>

(* importGeneratedMint: the lease is checked in the transaction that inserts *)
ImporterUnchecked(w) == TRUE
Importer(w) == Holds(w)
Import(w) ==
  /\ available' = available + 1
  /\ lastImport' = <<mine[w], w>>

(* A child's answer: its winners are imported under the worker's lease; an  *)
(* import refused by the inventory fails the run.                           *)
ChildAnswers(w) ==
  /\ run[w] = "on" /\ pool[w].pending > 0
  /\ \/ /\ mine[w] # 0 /\ ~Full /\ Importer(w)
        /\ Import(w)
        /\ pool' = [pool EXCEPT ![w].pending = @ - 1, ![w].returned = @ + 1]
        /\ UNCHANGED run
     \/ /\ mine[w] # 0
        /\ pool' = [pool EXCEPT ![w].pending = @ - 1, ![w].returned = @ + 1]
        /\ UNCHANGED <<run, available, lastImport>>
     \/ /\ mine[w] = 0 \/ (~Full /\ ~Importer(w))
        /\ Fail(w, "stopping")
        /\ UNCHANGED <<available, lastImport>>
  /\ UNCHANGED <<lease, mine, tick, pausedFile, takes, faults, expiries, blame>>

(* The callback after an answer: an aged child is replaced, its successor   *)
(* first; any other gets its next job.                                      *)
ChildNext(w) ==
  /\ run[w] = "on" /\ pool[w].returned > 0
  /\ LET p == [pool[w] EXCEPT !.returned = @ - 1] IN
       IF Overdue(w, p) THEN Fail(w, "stopping")
       ELSE /\ \/ pool' = [pool EXCEPT ![w] = Spawn(w, p)]
               \/ /\ ~p.recycling /\ ~p.paused
                  /\ pool' = [pool EXCEPT ![w] = [Spawn(w, p) EXCEPT !.recycling = TRUE]]
            /\ UNCHANGED run
  /\ UNCHANGED <<lease, available, mine, tick, pausedFile, takes, faults, blame, expiries, lastImport>>

Recycled(w) ==
  /\ pool[w].recycling
  /\ pool' = [pool EXCEPT ![w].recycling = FALSE]
  /\ UNCHANGED <<lease, available, run, mine, tick, pausedFile, takes, faults, blame, expiries, lastImport>>

(* An idle child that is not replaced. *)
IdleExitIgnored(w) ==
  /\ run[w] = "on" /\ pool[w].stale > 0 /\ pool[w].paused
  /\ pool' = [pool EXCEPT ![w] = Retire(pool[w], "stale")]
  /\ UNCHANGED <<lease, available, run, mine, tick, pausedFile, takes, faults, blame, expiries, lastImport>>

(* A child without a job for five seconds exits by itself: memory returned  *)
(* while the pool is paused, a failure at any other time.                   *)
IdleExit(w) ==
  /\ run[w] = "on" /\ pool[w].stale > 0
  /\ IF pool[w].paused
       THEN pool' = [pool EXCEPT ![w] = Retire(pool[w], "stale")] /\ UNCHANGED run
       ELSE RetireFailed(w, "stale")
  /\ UNCHANGED <<lease, available, mine, tick, pausedFile, takes, faults, blame, expiries, lastImport>>

(* A child crashes, answers nonsense or does not answer for five seconds. *)
ChildFails(w, state) ==
  /\ run[w] = "on" /\ pool[w][state] > 0 /\ faults < MaxFaults
  /\ faults' = faults + 1
  /\ blame' = [blame EXCEPT ![w] = @ + 1]
  /\ RetireFailed(w, state)
  /\ UNCHANGED <<lease, available, mine, tick, pausedFile, takes, expiries, lastImport>>

(* The private import server: `accepting` is read again after the body, in  *)
(* the same turn as the import.                                             *)
RemoteImport(w) ==
  /\ run[w] = "on" /\ ~pausedFile /\ ~Full
  /\ mine[w] # 0 /\ Holds(w) /\ Importer(w)
  /\ Import(w)
  /\ UNCHANGED <<lease, run, mine, pool, tick, pausedFile, takes, faults, expiries, blame>>

(* abort on SIGTERM, and the `finally` of the run: children, then the lease *)
Abort(w) ==
  /\ run[w] = "on" /\ faults < MaxFaults
  /\ faults' = faults + 1
  /\ run' = [run EXCEPT ![w] = "stopping"]
  /\ UNCHANGED <<lease, available, mine, pool, tick, pausedFile, takes, blame, expiries, lastImport>>
Finish(w) ==
  /\ run[w] \in {"stopping", "burst"}
  /\ run' = [run EXCEPT ![w] = "down"]
  /\ pool' = [pool EXCEPT ![w] = EmptyPool]
  /\ lease' = IF mine[w] # 0 THEN Released(w) ELSE lease
  /\ mine' = [mine EXCEPT ![w] = 0]
  /\ tick' = [tick EXCEPT ![w] = "no"]
  /\ UNCHANGED <<available, pausedFile, takes, faults, blame, expiries, lastImport>>

(* The process dies where it stands; a restart has a new owner name. *)
Crash(w) ==
  /\ run[w] # "down" /\ faults < MaxFaults
  /\ faults' = faults + 1
  /\ run' = [run EXCEPT ![w] = "down"]
  /\ pool' = [pool EXCEPT ![w] = EmptyPool]
  /\ mine' = [mine EXCEPT ![w] = 0]
  /\ tick' = [tick EXCEPT ![w] = "no"]
  /\ lease' = IF lease.owner = w THEN [lease EXCEPT !.owner = NoOwner] ELSE lease
  /\ UNCHANGED <<available, pausedFile, takes, blame, expiries, lastImport>>
Restart(w) ==
  /\ run[w] = "down"
  /\ run' = [run EXCEPT ![w] = "on"]
  /\ blame' = [blame EXCEPT ![w] = 0]
  /\ UNCHANGED <<lease, available, mine, pool, tick, pausedFile, takes, faults, expiries, lastImport>>

(* Time: the lease's thirty seconds, and the minute of the failure window. *)
LeaseExpires ==
  /\ lease.live
  /\ expiries' = expiries + IF lease.owner = NoOwner THEN 0 ELSE 1
  /\ expiries' <= MaxExpiries
  /\ lease' = [lease EXCEPT !.live = FALSE]
  /\ UNCHANGED <<available, run, mine, pool, tick, pausedFile, takes, faults, blame, lastImport>>
WindowPasses(w) ==
  /\ pool[w].failures > 0
  /\ pool' = [pool EXCEPT ![w].failures = @ - 1]
  /\ UNCHANGED <<lease, available, run, mine, tick, pausedFile, takes, faults, blame, expiries, lastImport>>

(* A launch reserves a mint; the operator writes the pause file. *)
Take ==
  /\ available > 0 /\ takes < MaxTakes
  /\ available' = available - 1
  /\ takes' = takes + 1
  /\ UNCHANGED <<lease, run, mine, pool, tick, pausedFile, faults, blame, expiries, lastImport>>
PauseFile ==
  /\ takes < MaxTakes
  /\ pausedFile' = ~pausedFile
  /\ takes' = takes + 1
  /\ UNCHANGED <<lease, available, run, mine, pool, tick, faults, blame, expiries, lastImport>>

Step(w) ==
  \/ TickStop(w) \/ TickWork(w) \/ TickStopped(w)
  \/ ChildAnswers(w) \/ ChildNext(w) \/ Recycled(w) \/ IdleExit(w)
  \/ RemoteImport(w) \/ Finish(w) \/ Restart(w)

Next ==
  \/ \E w \in Workers : Step(w)
  \/ \E w \in Workers, s \in States : ChildFails(w, s)
  \/ \E w \in Workers : Abort(w) \/ Crash(w) \/ WindowPasses(w)
  \/ LeaseExpires \/ Take \/ PauseFile

Spec == Init /\ [][Next]_vars

-----------------------------------------------------------------------------

(* Every child the pool started is running or counted as shed: crashes,     *)
(* recycling, idle exits and the memory watchdog lose no child and leave    *)
(* none behind (retire, spawnChild, watch).                                 *)
ChildrenAccounted ==
  \A w \in Workers : LET p == pool[w] IN
    p.idle + p.stale + p.pending + p.returned + p.shed = IF p.active THEN Processes ELSE 0

(* Imports follow the fence: once a successor imported, its predecessor     *)
(* imports nothing, and no fence is used by two workers, whatever was still *)
(* in flight when the lease changed hands (importGeneratedMint).            *)
FencedImports == lastImport' # lastImport => lastImport'[1] > lastImport[1]

=============================================================================
