--------------------------- MODULE SqliteRegistry ---------------------------
(***************************************************************************)
(* The registry over one SQLite file (registry/registry.mjs registryApi    *)
(* and SqliteRegistry): jobs, creator drafts, wallet packets, mint leases  *)
(* and the migrations.  Every call is synchronous, and is one statement or *)
(* one BEGIN IMMEDIATE transaction, so a call is one step; what races are  *)
(* the callers, processes of one host that act later on what they read.    *)
(* Tables names the tables in use, so that one run explores one group.     *)
(***************************************************************************)
EXTENDS Integers, FiniteSets, Sequences, TLC

CONSTANTS Procs,       \* processes that share the file
          Jobs, Mints, Bindings, Requests,
          Tables,      \* the tables in use
          MaxTime,     \* ticks of the host clock
          Ttl,         \* ticks of a job lease
          MaxToken,    \* leases of one job, and of one mint
          MaxRevision, \* saves of one draft
          MaxPending,  \* unfinished packets of one wallet: 16 in the code
          Versions,    \* number of migrations
          MaxCrashes

VARIABLES
    now,     \* the host clock
    job,     \* job -> row of jobs
    claim,   \* process -> job -> token it was given, 0: none
    draft,   \* row of creator_drafts: revision, status, body
    tab,     \* process -> the draft as its browser tab loaded it
    kept,    \* the edits whose save was accepted
    packet,  \* request -> row of wallet_packets
    lease,   \* mint -> row of mint_leases
    read,    \* process -> mint -> the lease row it read
    schema,  \* migrations recorded in schema_migrations
    ran,     \* version -> times its statements took effect
    migr,    \* process -> versions it still has to apply, or "off"
    crashes

jobVars == <<job, claim>>
draftVars == <<draft, tab, kept>>
mintVars == <<lease, read>>
schemaVars == <<schema, ran, migr, crashes>>
vars == <<now, jobVars, draftVars, packet, mintVars, schemaVars>>

(***************************************************************************)
(* jobs.  Rows are taken oldest first: `Jobs` are numbers in that order.   *)
(***************************************************************************)
Due(j) == /\ job[j].after <= now
          /\ \/ job[j].state = "queued"
             \/ job[j].state = "leased" /\ job[j].until <= now

Leased(j, p) ==
    [job[j] EXCEPT !.state = "leased", !.owner = p, !.until = now + Ttl,
                   !.token = @ + 1,
                   !.retries = @ + IF job[j].state = "leased" THEN 1 ELSE 0]

Take(j, p) ==
    /\ job[j].token < MaxToken
    /\ job' = [job EXCEPT ![j] = Leased(j, p)]
    /\ claim' = [claim EXCEPT ![p][j] = job[j].token + 1]

jobLease(p) ==
    /\ \E j \in Jobs : /\ Due(j) /\ \A i \in Jobs : Due(i) => j <= i
                       /\ Take(j, p)
    /\ UNCHANGED <<now, draftVars, packet, mintVars, schemaVars>>

LeasableSeen(j, t) == job[j].token = t /\ Due(j)
leaseById(p, j, t) ==
    /\ LeasableSeen(j, t)
    /\ Take(j, p)
    /\ UNCHANGED <<now, draftVars, packet, mintVars, schemaVars>>

holds(p, j) == /\ claim[p][j] # 0 /\ job[j].token = claim[p][j]
               /\ job[j].state = "leased" /\ job[j].owner = p
               /\ job[j].until > now

renew(p, j) ==
    /\ holds(p, j)
    /\ job' = [job EXCEPT ![j].until = now + Ttl]
    /\ UNCHANGED <<now, claim, draftVars, packet, mintVars, schemaVars>>

\* complete, fail and requeue: only with the current token of a live lease.
CurrentByOwner(p, j) == claim[p][j] # 0 /\ job[j].state = "leased"
Current(p, j) == /\ claim[p][j] # 0 /\ job[j].token = claim[p][j]
                 /\ job[j].state = "leased" /\ job[j].until > now

Publish(p, j, state, after) ==
    /\ Current(p, j)
    /\ job' = [job EXCEPT ![j].state = state, ![j].owner = "none",
                          ![j].until = 0, ![j].after = after,
                          ![j].by = claim[p][j]]
    /\ UNCHANGED <<now, claim, draftVars, packet, mintVars, schemaVars>>

complete(p, j) == Publish(p, j, "done", job[j].after)
fail(p, j)     == \E s \in {"queued", "failed"} : Publish(p, j, s, job[j].after)
requeue(p, j)  == \E t \in {0, now + 1} : Publish(p, j, "queued", t)

(***************************************************************************)
(* drafts.  A tab loads the draft, adds its edit and saves on the revision *)
(* it loaded; accepting a quote starts the creation, which freezes it.     *)
(***************************************************************************)
Open(p) == /\ tab' = [tab EXCEPT ![p] = [revision |-> draft.revision,
                                         body |-> draft.body]]
           /\ UNCHANGED <<now, jobVars, draft, kept, packet, mintVars, schemaVars>>

Saveable(p) == draft.revision = tab[p].revision /\ draft.status = "draft"

save(p) ==
    LET edit == <<p, draft.revision>> IN
    /\ draft.revision < MaxRevision
    /\ Saveable(p)
    /\ draft' = [draft EXCEPT !.revision = @ + 1,
                              !.body = tab[p].body \cup {edit}]
    /\ kept' = kept \cup {edit}
    /\ tab' = [tab EXCEPT ![p] = [revision |-> draft.revision + 1,
                                  body |-> tab[p].body \cup {edit}]]
    /\ UNCHANGED <<now, jobVars, packet, mintVars, schemaVars>>

Create ==
    /\ draft.revision > 0 /\ draft.status = "draft"
    /\ draft' = [draft EXCEPT !.status = "creating"]
    /\ UNCHANGED <<now, jobVars, tab, kept, packet, mintVars, schemaVars>>

(***************************************************************************)
(* walletPackets of one wallet.                                            *)
(***************************************************************************)
Finished == {"confirmed", "finalized", "failed", "expired", "cancelled"}
pending == {r \in Requests : packet[r].status \notin Finished \cup {"absent"}}

packetPrepare(r) ==
    /\ packet[r].status = "absent"
    /\ Cardinality(pending) < MaxPending
    /\ packet' = [packet EXCEPT ![r] = [status |-> "prepared", bytes |-> "none"]]

packetSign(r, bytes) ==
    /\ packet[r].bytes = "none" /\ packet[r].status = "prepared"
    /\ packet' = [packet EXCEPT ![r] = [status |-> "signed", bytes |-> bytes]]

packetCancel(r) ==
    /\ packet[r].status = "prepared" /\ packet[r].bytes = "none"
    /\ packet' = [packet EXCEPT ![r].status = "cancelled"]

\* A known success is never downgraded; `seen` is the expected status.
packetProgress(r, status, seen) ==
    /\ packet[r].status \notin {"absent", "finalized", "cancelled"}
    /\ packet[r].status # "confirmed" \/ status = "finalized"
    /\ seen \in {"any", packet[r].status}
    /\ packet' = [packet EXCEPT ![r].status = status]

packetStep(r) ==
    /\ \/ packetPrepare(r)
       \/ \E bytes \in {"b1", "b2"} : packetSign(r, bytes)
       \/ packetCancel(r)
       \/ \E status \in {"submitted", "unknown"} \cup (Finished \ {"cancelled"}),
             seen \in {"any", "submitted"} : packetProgress(r, status, seen)
    /\ UNCHANGED <<now, jobVars, draftVars, mintVars, schemaVars>>

(***************************************************************************)
(* mintLeases.                                                             *)
(***************************************************************************)
allowedFrom(from) ==
    CASE from = "reserved"       -> {"signed-pending", "releasing", "quarantined"}
      [] from = "releasing"      -> {"released", "signed-pending", "quarantined"}
      [] from = "signed-pending" -> {"signed-pending", "consumed", "quarantined"}
      [] from = "quarantined"    -> {"quarantined"}
      [] OTHER                   -> {}

\* UNIQUE(mint) and UNIQUE(creator, idempotency_key).
Unbound(b) == \A m \in Mints : lease[m].binding # b

insert(m, b) ==
    /\ lease[m].state = "none" /\ Unbound(b)
    /\ lease' = [lease EXCEPT ![m] = [id |-> 1, state |-> "reserved", binding |-> b]]
    /\ UNCHANGED <<now, jobVars, draftVars, packet, read, schemaVars>>

ReadLease(p, m) ==
    /\ lease[m].state # "none"
    /\ read' = [read EXCEPT ![p][m] = lease[m]]
    /\ UNCHANGED <<now, jobVars, draftVars, packet, lease, schemaVars>>

\* The compare-and-set is on the lease identifier and the state read.
SameStateOnly(p, m) == lease[m].state = read[p][m].state
SameLease(p, m) == /\ lease[m].id = read[p][m].id
                   /\ lease[m].state = read[p][m].state

transition(p, m, to) ==
    /\ to \in allowedFrom(read[p][m].state)
    /\ SameLease(p, m)
    /\ lease' = [lease EXCEPT ![m].state = to]
    /\ UNCHANGED <<now, jobVars, draftVars, packet, read, schemaVars>>

rebind(p, m, b) ==
    /\ read[p][m].state = "released" /\ SameLease(p, m)
    /\ \A n \in Mints \ {m} : lease[n].binding # b
    /\ lease[m].id < MaxToken
    /\ lease' = [lease EXCEPT ![m] = [id |-> @.id + 1, state |-> "reserved",
                                      binding |-> b]]
    /\ UNCHANGED <<now, jobVars, draftVars, packet, read, schemaVars>>

(***************************************************************************)
(* migrate: the versions to apply are read once, then each version runs in *)
(* its own transaction with its record; a version recorded meanwhile by    *)
(* another process makes the transaction fail on the primary key.          *)
(***************************************************************************)
MigrateStart(p) ==
    /\ migr[p] = <<0>>
    /\ migr' = [migr EXCEPT ![p] = SelectSeq([v \in 1..Versions |-> v],
                                             LAMBDA v : v \notin schema)]
    /\ UNCHANGED <<now, jobVars, draftVars, packet, mintVars, schema, ran, crashes>>

Migrate(p) ==
    LET v == Head(migr[p]) IN
    /\ migr[p] \notin {<<>>, <<0>>}
    /\ IF v \in schema
       THEN /\ migr' = [migr EXCEPT ![p] = <<0>>]     \* rolled back, start again
            /\ UNCHANGED <<schema, ran>>
       ELSE /\ schema' = schema \cup {v}
            /\ ran' = [ran EXCEPT ![v] = @ + 1]
            /\ migr' = [migr EXCEPT ![p] = Tail(@)]
    /\ UNCHANGED <<now, jobVars, draftVars, packet, mintVars, crashes>>

Crash(p) ==
    /\ crashes < MaxCrashes /\ crashes' = crashes + 1
    /\ migr' = [migr EXCEPT ![p] = <<0>>]
    /\ UNCHANGED <<now, jobVars, draftVars, packet, mintVars, schema, ran>>

-----------------------------------------------------------------------------
Tick == now < MaxTime /\ now' = now + 1
        /\ UNCHANGED <<jobVars, draftVars, packet, mintVars, schemaVars>>

NoLease == [id |-> 0, state |-> "none", binding |-> "none"]
Init ==
    /\ now = 0
    /\ job = [j \in Jobs |-> [state |-> "queued", token |-> 0, owner |-> "none",
                              until |-> 0, after |-> 0, retries |-> 0, by |-> 0]]
    /\ claim = [p \in Procs |-> [j \in Jobs |-> 0]]
    /\ draft = [revision |-> 0, status |-> "draft", body |-> {}]
    /\ tab = [p \in Procs |-> [revision |-> 0, body |-> {}]]
    /\ kept = {}
    /\ packet = [r \in Requests |-> [status |-> "absent", bytes |-> "none"]]
    /\ lease = [m \in Mints |-> NoLease]
    /\ read = [p \in Procs |-> [m \in Mints |-> NoLease]]
    /\ schema = {} /\ ran = [v \in 1..Versions |-> 0]
    /\ migr = [p \in Procs |-> <<0>>] /\ crashes = 0

Next ==
    \/ "jobs" \in Tables /\
         \/ Tick
         \/ \E p \in Procs : jobLease(p)
         \/ \E p \in Procs, j \in Jobs :
              \/ \E t \in 0..MaxToken : leaseById(p, j, t)
              \/ renew(p, j) \/ complete(p, j) \/ fail(p, j) \/ requeue(p, j)
    \/ "drafts" \in Tables /\
         (Create \/ \E p \in Procs : Open(p) \/ save(p))
    \/ "packets" \in Tables /\ \E r \in Requests : packetStep(r)
    \/ "mints" \in Tables /\
         \/ \E m \in Mints, b \in Bindings : insert(m, b)
         \/ \E p \in Procs, m \in Mints :
              \/ ReadLease(p, m)
              \/ \E to \in {"releasing", "released", "signed-pending",
                            "consumed", "quarantined"} : transition(p, m, to)
              \/ \E b \in Bindings : rebind(p, m, b)
    \/ "schema" \in Tables /\
         \E p \in Procs : MigrateStart(p) \/ Migrate(p) \/ Crash(p)

Spec == Init /\ [][Next]_vars

-----------------------------------------------------------------------------

\* No two processes hold one job at the same time, whatever rows they read
\* before, and a job's outcome was published by its newest lease.
OneHolder ==
    \A j \in Jobs :
        /\ \A p, q \in Procs : holds(p, j) /\ holds(q, j) => p = q
        /\ job[j].state \in {"done", "failed"} => job[j].by = job[j].token

\* No lease is lost to a fast clock of another caller: a lease changes hands
\* only when it was published or has run out.
HandedOver ==
    \A j \in Jobs : job[j].state = "leased" /\ job'[j].token # job[j].token
        => job[j].until <= now

\* No accepted edit of a draft is lost by a later save of another tab.
EditsKept == kept \subseteq draft.body

\* The draft a creation started from is the draft that stays.
StartedFrozen == draft.status = "creating" => draft' = draft

\* A wallet packet that was signed keeps those bytes and cannot be
\* cancelled; a confirmed one can only become finalized.
PacketsFinal ==
    \A r \in Requests :
        /\ packet[r].bytes # "none" => /\ packet'[r].bytes = packet[r].bytes
                                       /\ packet'[r].status # "cancelled"
        /\ packet[r].status = "confirmed" =>
              packet'[r].status \in {"confirmed", "finalized"}

\* A process that read a lease before its mint went back to the stock and
\* out again cannot move the new holder's row: the rows implement the life
\* of a mint.
place == [m \in Mints |->
            CASE lease[m].state = "consumed" -> <<"spent", lease[m].binding>>
              [] lease[m].state \in {"none", "released"} -> <<"stock">>
              [] OTHER -> <<"held", lease[m].binding>>]
Life == INSTANCE MintLife
LifeStep == Life!Next \/ UNCHANGED place
OnlyOwnLease ==
    \A m \in Mints : lease'[m].state # lease[m].state /\ lease[m].id # 0 =>
        \E p \in Procs : read[p][m] = lease[m]

\* However many processes start together and crash between migrations, the
\* statements of a version take effect once, and the recorded versions are
\* a prefix.
SchemaOnce == /\ \A v \in 1..Versions : ran[v] <= 1
              /\ \A v \in schema : 1..v \subseteq schema
=============================================================================
