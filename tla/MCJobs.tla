------------------------------- MODULE MCJobs -------------------------------
(***************************************************************************)
(* The job queue with its runners, and the same tables over one SQLite     *)
(* file.  They share no state, so one run explores them side by side:      *)
(* `part` says which of them moves and the variables of the others rest.   *)
(***************************************************************************)
EXTENDS Jobs, TLC

CONSTANTS r1, r2, s1, s2, s3

\* One job under two runners; the first runner has two slots.
OneJob == {1}
OneCampaign == [j \in OneJob |-> 1]
OneRank == [j \in OneJob |-> 0]
OneDeadline == [j \in OneJob |-> 2]
TwoRunners == {r1, r2}
ThreeSlots == {s1, s2, s3}
OwnerOfThree == [s \in ThreeSlots |-> IF s = s3 THEN r2 ELSE r1]

VARIABLE part   \* the component this behaviour is about
VARIABLES now, job, claim, draft, tab, kept, packet, sLease, read, schema,
          ran, migr, crashes, tState, tToken, tOwner, tLease, tWait, tWhy,
          tUnknown, tRetries, tLeft, tSent, tFate, tSlot, tLastCampaign,
          tPassed

Off == 0   \* the value of a variable that no component in the run uses

sqliteJobsAndRecordsAndMintsAndPairAndSchemaVars == <<now, job, claim, draft,
                                                      tab, kept, packet,
                                                      sLease, read, schema,
                                                      ran, migr, crashes>>
turnsVars == <<tState, tToken, tOwner, tLease, tWait, tWhy, tUnknown,
               tRetries, tLeft, tSent, tFate, tSlot, tLastCampaign, tPassed>>

sqliteJobsAndRecordsAndMintsAndPairAndSchemaOff == /\ now = Off /\ job = Off
                                                   /\ claim = Off
                                                   /\ draft = Off
                                                   /\ tab = Off /\ kept = Off
                                                   /\ packet = Off
                                                   /\ sLease = Off
                                                   /\ read = Off
                                                   /\ schema = Off
                                                   /\ ran = Off /\ migr = Off
                                                   /\ crashes = Off
turnsOff == /\ tState = Off /\ tToken = Off /\ tOwner = Off /\ tLease = Off
            /\ tWait = Off /\ tWhy = Off /\ tUnknown = Off /\ tRetries = Off
            /\ tLeft = Off /\ tSent = Off /\ tFate = Off /\ tSlot = Off
            /\ tLastCampaign = Off /\ tPassed = Off

SqliteJobs == INSTANCE SqliteRegistry WITH
  lease <- sLease, Procs <- {"p", "q"}, Jobs <- {1, 2}, Mints <- {"m1"},
  Bindings <- {"b1", "b2"}, Requests <- {"r1"}, Tables <- {"jobs"},
  MaxTime <- 3, Ttl <- 2, MaxToken <- 2, MaxRevision <- 3, MaxPending <- 1,
  Versions <- 4, MaxCrashes <- 2
SqliteRecords == INSTANCE SqliteRegistry WITH
  lease <- sLease, Procs <- {"p", "q"}, Jobs <- {1, 2}, Mints <- {"m1"},
  Bindings <- {"b1", "b2"}, Requests <- {"r1"},
  Tables <- {"drafts", "packets"}, MaxTime <- 3, Ttl <- 2, MaxToken <- 2,
  MaxRevision <- 3, MaxPending <- 1, Versions <- 4, MaxCrashes <- 2
SqliteMints == INSTANCE SqliteRegistry WITH
  lease <- sLease, Procs <- {"p", "q"}, Jobs <- {1, 2}, Mints <- {"m1"},
  Bindings <- {"b1", "b2"}, Requests <- {"r1"}, Tables <- {"mints"},
  MaxTime <- 3, Ttl <- 2, MaxToken <- 5, MaxRevision <- 3, MaxPending <- 1,
  Versions <- 4, MaxCrashes <- 2
SqlitePair == INSTANCE SqliteRegistry WITH
  lease <- sLease, Procs <- {"p"}, Jobs <- {1, 2}, Mints <- {"m1", "m2"},
  Bindings <- {"b1", "b2"}, Requests <- {"r1"}, Tables <- {"mints"},
  MaxTime <- 3, Ttl <- 2, MaxToken <- 3, MaxRevision <- 3, MaxPending <- 1,
  Versions <- 4, MaxCrashes <- 2
Turns == INSTANCE Jobs WITH
  state <- tState, token <- tToken, owner <- tOwner, lease <- tLease,
  wait <- tWait, why <- tWhy, unknown <- tUnknown, retries <- tRetries,
  left <- tLeft, sent <- tSent, fate <- tFate, slot <- tSlot,
  lastCampaign <- tLastCampaign, passed <- tPassed, Jobs <- 1 .. 4,
  Campaign <- <<1, 1, 2, 3>>, Rank <- <<3, 0, 3, 1>>,
  Deadline <- <<0, 0, 0, 0>>, Runners <- {r1}, Slots <- {s1},
  Owner <- [s \in {s1} |-> r1], Ttl <- 1, MaxAttempts <- 1, MaxDelay <- 0,
  MaxToken <- 1, MaxPackets <- 0
SqliteSchema == INSTANCE SqliteRegistry WITH
  lease <- sLease, Procs <- {"p", "q"}, Jobs <- {1, 2}, Mints <- {"m1"},
  Bindings <- {"b1", "b2"}, Requests <- {"r1"}, Tables <- {"schema"},
  MaxTime <- 3, Ttl <- 2, MaxToken <- 2, MaxRevision <- 3, MaxPending <- 1,
  Versions <- 4, MaxCrashes <- 2

MCInit ==
  \/ /\ part = "queue" /\ Init
     /\ sqliteJobsAndRecordsAndMintsAndPairAndSchemaOff /\ turnsOff
  \/ /\ part = "sqliteJobs" /\ Init /\ SqliteJobs!Init /\ turnsOff
  \/ /\ part = "records" /\ Init /\ SqliteRecords!Init /\ turnsOff
  \/ /\ part = "mints" /\ Init /\ SqliteMints!Init /\ turnsOff
  \/ /\ part = "pair" /\ Init /\ SqlitePair!Init /\ turnsOff
  \/ /\ part = "turns" /\ Init /\ Turns!Init
     /\ sqliteJobsAndRecordsAndMintsAndPairAndSchemaOff
  \/ /\ part = "schema" /\ Init /\ SqliteSchema!Init /\ turnsOff

MCNext ==
  \/ /\ part = "queue" /\ Next
     /\ UNCHANGED <<part, sqliteJobsAndRecordsAndMintsAndPairAndSchemaVars,
                    turnsVars>>
  \/ /\ part = "sqliteJobs" /\ SqliteJobs!Next
     /\ UNCHANGED <<part, vars, turnsVars>>
  \/ /\ part = "records" /\ SqliteRecords!Next
     /\ UNCHANGED <<part, vars, turnsVars>>
  \/ /\ part = "mints" /\ SqliteMints!Next
     /\ UNCHANGED <<part, vars, turnsVars>>
  \/ /\ part = "pair" /\ SqlitePair!Next
     /\ UNCHANGED <<part, vars, turnsVars>>
  \/ /\ part = "turns" /\ Turns!Next
     /\ UNCHANGED <<part, vars,
                    sqliteJobsAndRecordsAndMintsAndPairAndSchemaVars>>
  \/ /\ part = "schema" /\ SqliteSchema!Next
     /\ UNCHANGED <<part, vars, turnsVars>>

mcVars == <<part, vars, sqliteJobsAndRecordsAndMintsAndPairAndSchemaVars,
            turnsVars>>
MCSpec == MCInit /\ [][MCNext]_mcVars

-----------------------------------------------------------------------------
\* One holder per job row and outcomes by the newest lease; accepted edits kept;
\* migrations applied once, in order (registry.mjs).
SqliteRows ==
  /\ part = "sqliteJobs" => SqliteJobs!OneHolder
  /\ part = "records" => SqliteRecords!EditsKept
  /\ part = "schema" => SqliteSchema!SchemaOnce

\* No campaign with a due job is passed over more often than there are other
\* campaigns, whatever the backlog and ranks of the others (leaseJob).
TurnsFair == part = "turns" => Turns!FairTurns

\* No lease, started draft, signed packet or mint row is changed by a caller
\* that acts on what it read earlier, and the mint rows implement the life of a
\* mint (registry.mjs).
SqliteSteps ==
  [][/\ part = "sqliteJobs" => SqliteJobs!HandedOver
     /\ part = "records" => SqliteRecords!StartedFrozen  /\ SqliteRecords!PacketsFinal
     /\ part = "mints" => SqliteMints!OnlyOwnLease /\ SqliteMints!LifeStep
     /\ part = "pair" => SqlitePair!OnlyOwnLease /\ SqlitePair!LifeStep]_mcVars
=============================================================================
