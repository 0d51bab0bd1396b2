---------------------------- MODULE CampaignRows ----------------------------
(***************************************************************************)
(* A campaign's row in the registry and the processes that write it:       *)
(* campaigns.upsert with mergeCampaign, localnet/registry/registry.mjs and *)
(* async-api.mjs; the periodic import of campaign files, import-legacy.mjs *)
(* started by startup.mjs; and the projection of chain reads,              *)
(* read-adapters.mjs.                                                      *)
(*                                                                         *)
(* Upserts of one campaign serialize on its advisory lock, so a row is     *)
(* followed alone and an upsert is one step; between the read of a file or *)
(* of the chain and its upsert anything may happen.  Of the columns one of *)
(* each kind is kept: a sealed one, a plain one (opensAt), registryStatus, *)
(* the projection (chainStatus, sourceSlot) and sourcePaths.  0 is null.   *)
(***************************************************************************)
EXTENDS Integers, FiniteSets, Sequences

CONSTANTS
  Importers, Readers,      \* processes that import files; chain reads under way
  Files,                   \* the files that may exist: a subset of the indices of Kinds
  MaxSlot, MaxPaths,       \* slots of the chain; MAX_SOURCE_PATHS
  MaxEdits, MaxFails       \* bounds: edits of the files, failures of a database call

VARIABLES
  row,                     \* the campaign's row, or Absent
  file,                    \* what each file says of the campaign
  slot, phaseAt,           \* the chain: its slot, the campaign's phase at every slot
  pc, todo, conn, stopped, \* per importer: step of its run, rows left, connection
  read,                    \* per reader: the row it started from and what it read
  edits, fails, settled    \* budgets; whether the files were imported since the last edit

chain == <<slot, phaseAt>>
imports == <<pc, todo, conn, stopped>>
vars == <<row, file, chain, imports, read, edits, fails, settled>>

Absent == [rank |-> 0]
Nothing == [none |-> TRUE]

\* The files that describe a campaign, lowest rank first.
Kinds == <<"identities", "plan", "plan-archive", "runtime-archive", "active">>

\* chainStatus: null, scheduled, open, launched.
Scheduled == 1

Values == {1, 2}

-----------------------------------------------------------------------------
(* campaigns.upsert.                                                       *)

NewerAlways(old, new) == TRUE

\* A projection replaces one that is not newer; one without a slot only
\* another without a slot.
Newer(old, new) ==
  IF new.slot = 0 THEN old.slot = 0 ELSE old.slot = 0 \/ new.slot >= old.slot

OrElse(a, b) == IF a # 0 THEN a ELSE b

\* The list is cut at MaxPaths, the oldest paths stay.
UnionPaths(old, new) ==
  IF Cardinality(old \cup new) <= MaxPaths THEN old \cup new ELSE old

\* Nulls never overwrite, a sealed column keeps its first value, the
\* registry status takes the higher rank, the projection moves forward.
Merge(old, new) ==
  LET take(a, b) == IF Newer(old, new) THEN OrElse(b, a) ELSE a IN
  [rank |-> IF new.rank >= old.rank THEN new.rank ELSE old.rank,
   sealed |-> OrElse(old.sealed, new.sealed), opens |-> OrElse(new.opens, old.opens),
   status |-> take(old.status, new.status), slot |-> take(old.slot, new.slot),
   paths |-> UnionPaths(old.paths, new.paths)]

\* An unchanged row is not written.
Upsert(new) == row' = IF row = Absent THEN new ELSE Merge(row, new)

-----------------------------------------------------------------------------
(* The import of campaign files.                                           *)

\* campaignFromIdentities: no terms, launched when it names the signature.
FromIdentities(k) ==
  [rank |-> 1, sealed |-> 0, opens |-> 0, status |-> file[k].phase, slot |-> 0, paths |-> {k}]

\* campaignFromPlan: the planned terms, no phase.
FromPlan(k, rank) ==
  [rank |-> rank, sealed |-> file[k].sealed, opens |-> file[k].opens, status |-> 0, slot |-> 0,
   paths |-> {k}]

\* campaignFromManifest: scheduled until the manifest is ready.
FromManifest(k, rank) ==
  [rank |-> rank, sealed |-> file[k].sealed, opens |-> file[k].opens,
   status |-> IF file[k].ready THEN 0 ELSE Scheduled, slot |-> 0, paths |-> {k}]

FromFile(k) ==
  CASE Kinds[k] = "identities" -> FromIdentities(k)
    [] Kinds[k] = "plan" -> FromPlan(k, 2)
    [] Kinds[k] = "plan-archive" -> FromPlan(k, 3)
    [] Kinds[k] = "runtime-archive" -> FromManifest(k, 3)
    [] OTHER -> FromManifest(k, 4)

\* collectLegacySources: every readable file, lowest rank first.
Sources ==
  LET present == {k \in Files : file[k] # Nothing}
  IN [i \in 1 .. Cardinality(present) |->
        FromFile(CHOOSE k \in present : Cardinality({j \in present : j <= k}) = i)]

Contents == [sealed : Values, opens : Values, phase : {0, 3}, ready : BOOLEAN]

Init ==
  /\ row = Absent /\ slot = 1 /\ phaseAt = [s \in 1 .. MaxSlot |-> Scheduled]
  /\ file \in [Files -> {Nothing, [sealed |-> 1, opens |-> 1, phase |-> 0, ready |-> FALSE]}]
  /\ pc = [i \in Importers |-> "idle"] /\ todo = [i \in Importers |-> <<>>]
  /\ conn = [i \in Importers |-> "none"] /\ stopped = [i \in Importers |-> "no"]
  /\ read = [r \in Readers |-> Nothing]
  /\ edits = 0 /\ fails = 0 /\ settled = FALSE

Goto(i, p) == pc' = [pc EXCEPT ![i] = p]

\* runOnce, at start and on every interval: not while a run is in flight.
RunOnce(i) ==
  /\ pc[i] = "idle" /\ stopped[i] = "no"
  /\ Goto(i, IF conn[i] = "ready" THEN "collect" ELSE "open")
  /\ UNCHANGED <<row, file, chain, todo, conn, stopped, read, edits, fails, settled>>

\* ensureOpen: open, then migrate.
Open(i) ==
  /\ pc[i] = "open"
  /\ Goto(i, "migrate") /\ conn' = [conn EXCEPT ![i] = "opened"]
  /\ UNCHANGED <<row, file, chain, todo, stopped, read, edits, fails, settled>>

\* A stop during the migration closes the connection instead of exposing it.
Migrate(i) ==
  /\ pc[i] = "migrate"
  /\ IF stopped[i] = "no" THEN conn' = [conn EXCEPT ![i] = "ready"] /\ Goto(i, "collect")
                          ELSE conn' = [conn EXCEPT ![i] = "none"] /\ Goto(i, "idle")
  /\ UNCHANGED <<row, file, chain, todo, stopped, read, edits, fails, settled>>

Collect(i) ==
  /\ pc[i] = "collect"
  /\ todo' = [todo EXCEPT ![i] = Sources] /\ Goto(i, "import")
  /\ UNCHANGED <<row, file, chain, conn, stopped, read, edits, fails, settled>>

\* importLegacyCampaigns: one upsert per source, then the run is over.
Import(i) ==
  /\ pc[i] = "import"
  /\ IF todo[i] = <<>> THEN Goto(i, "idle") /\ settled' = TRUE /\ UNCHANGED <<row, todo>>
     ELSE /\ Upsert(Head(todo[i])) /\ todo' = [todo EXCEPT ![i] = Tail(@)]
          /\ UNCHANGED <<pc, settled>>
  /\ UNCHANGED <<file, chain, conn, stopped, read, edits, fails>>

\* fail: the run ends; a connection that could not migrate is closed.
Fail(i) ==
  /\ pc[i] \in {"open", "migrate", "import"} /\ fails < MaxFails
  /\ fails' = fails + 1 /\ Goto(i, "idle") /\ todo' = [todo EXCEPT ![i] = <<>>]
  /\ conn' = [conn EXCEPT ![i] = IF @ = "opened" THEN "none" ELSE @]
  /\ UNCHANGED <<row, file, chain, stopped, read, edits, settled>>

Stop(i) ==
  /\ stopped[i] = "no" /\ stopped' = [stopped EXCEPT ![i] = "draining"]
  /\ UNCHANGED <<row, file, chain, pc, todo, conn, read, edits, fails, settled>>

\* stop waits for the run in flight.
Drained(i) == pc[i] = "idle"

Close(i) ==
  /\ stopped[i] = "draining" /\ Drained(i)
  /\ stopped' = [stopped EXCEPT ![i] = "yes"] /\ conn' = [conn EXCEPT ![i] = "none"]
  /\ UNCHANGED <<row, file, chain, pc, todo, read, edits, fails, settled>>

-----------------------------------------------------------------------------
(* The projection of the chain: readCampaignView, then projectView.        *)

\* The row is read from the registry, then the account at some slot.
ReadCampaignView(r) ==
  /\ read[r] = Nothing /\ row # Absent
  /\ read' = [read EXCEPT ![r] = [rank |-> row.rank, sealed |-> 1, opens |-> 0,
                status |-> phaseAt[slot], slot |-> slot, paths |-> {}]]
  /\ UNCHANGED <<row, file, chain, imports, edits, fails, settled>>

\* What the read proved is written back; an unavailable view writes nothing.
ProjectView(r) ==
  /\ read[r] # Nothing
  /\ Upsert(read[r]) \/ UNCHANGED row
  /\ read' = [read EXCEPT ![r] = Nothing]
  /\ UNCHANGED <<file, chain, imports, edits, fails, settled>>

\* The chain moves on.
Advance ==
  /\ slot < MaxSlot /\ slot' = slot + 1
  /\ \E p \in phaseAt[slot] .. 3 : phaseAt' = [phaseAt EXCEPT ![slot + 1] = p]
  /\ UNCHANGED <<row, file, imports, read, edits, fails, settled>>

\* An operator writes a file.
Edit ==
  /\ edits < MaxEdits /\ edits' = edits + 1 /\ settled' = FALSE
  /\ \E k \in DOMAIN file, c \in Contents :
       file[k] # c /\ file' = [file EXCEPT ![k] = c]
  /\ UNCHANGED <<row, chain, imports, read, fails>>

Run(i) == RunOnce(i) \/ Open(i) \/ Migrate(i) \/ Collect(i) \/ Import(i)

Next ==
  \/ \E i \in Importers : Run(i) \/ Fail(i) \/ Stop(i) \/ Close(i)
  \/ \E r \in Readers : ReadCampaignView(r) \/ ProjectView(r)
  \/ Advance \/ Edit

Spec == Init /\ [][Next]_vars

-----------------------------------------------------------------------------

\* mergeCampaign: whatever order imports, stale chain reads and edited files
\* are merged in, a sealed term keeps its first value, the registry status
\* never falls in rank and no source path is forgotten.
SealedKept ==
  row # Absent => /\ row.sealed # 0 => row'.sealed = row.sealed
                  /\ row'.rank >= row.rank /\ row.paths \subseteq row'.paths

\* mergeCampaign: a chain read that was overtaken by a later one changes
\* nothing of the projection when it is written at last.
ProjectionForward == row # Absent => row'.slot >= row.slot

\* projectView and mergeCampaign: once a row carries a slot its phase is the
\* phase at that slot; no file, which knows no slot, puts another one there.
ProjectionIsRead ==
  row # Absent /\ row.slot # 0 => row.status = phaseAt[row.slot]

\* startRegistryImport: a run in flight works on an open connection, and when
\* stop has returned none is left open, not even one that was being migrated.
StopDrains ==
  \A i \in Importers :
    /\ pc[i] \in {"collect", "import"} => conn[i] = "ready"
    /\ stopped[i] = "yes" => conn[i] = "none" /\ pc[i] = "idle"

=============================================================================
