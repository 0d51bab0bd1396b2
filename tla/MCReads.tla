------------------------------ MODULE MCReads -------------------------------
(***************************************************************************)
(* What the pages read: the market feed, the activity feed, the campaign   *)
(* rows, the campaign directory with its intents and events, and the       *)
(* admission of calls to the upstream.  They share no state, so one run    *)
(* explores them side by side: `part` says which of them moves and the     *)
(* variables of the others rest.                                           *)
(***************************************************************************)
EXTENDS Integers, Sequences

VARIABLE part   \* the component this behaviour is about
VARIABLES chain, final, tip, landed, drops, crashes, rows, candles, cursor,
          step, at, page, loc, open, feed, stops, which, pollOk, polled, row,
          file, slot, phaseAt, pc, todo, conn, stopped, read, edits, fails,
          settled, walk, intent, answers, event, reports, calls, clock,
          policy, bucket, log, denied

Off == 0   \* the value of a variable that no component in the run uses

marketAndRelandedAndCrashingAndActivityAndForkedVars == <<chain, final,
                                                          landed, drops,
                                                          cursor, step, at,
                                                          page, loc>>
marketAndRelandedAndCrashingVars == <<tip, crashes, candles>>
activityAndForkedVars == <<open, feed, stops, which, pollOk, polled>>
rowsAndFilesVars == <<row, file, slot, phaseAt, pc, todo, conn, stopped,
                      read, edits, fails, settled>>
newestAndClosingAndNameAndIntentsVars == <<walk, intent, answers, event,
                                           reports>>
admissionVars == <<clock, policy, bucket, log, denied>>

marketAndRelandedAndCrashingAndActivityAndForkedOff == /\ chain = Off
                                                       /\ final = Off
                                                       /\ landed = Off
                                                       /\ drops = Off
                                                       /\ cursor = Off
                                                       /\ step = Off
                                                       /\ at = Off
                                                       /\ page = Off
                                                       /\ loc = Off
marketAndRelandedAndCrashingOff == /\ tip = Off /\ crashes = Off
                                   /\ candles = Off
activityAndForkedOff == /\ open = Off /\ feed = Off /\ stops = Off
                        /\ which = Off /\ pollOk = Off /\ polled = Off
rowsAndFilesOff == /\ row = Off /\ file = Off /\ slot = Off /\ phaseAt = Off
                   /\ pc = Off /\ todo = Off /\ conn = Off /\ stopped = Off
                   /\ read = Off /\ edits = Off /\ fails = Off
                   /\ settled = Off
newestAndClosingAndNameAndIntentsOff == /\ walk = Off /\ intent = Off
                                        /\ answers = Off /\ event = Off
                                        /\ reports = Off
admissionOff == /\ clock = Off /\ policy = Off /\ bucket = Off /\ log = Off
                /\ denied = Off

Market == INSTANCE MarketFeed WITH
  NSigs <- 4, MaxSlot <- 2, PageLimit <- 2, MaxPages <- 2, Failed <- {},
  Unsupported <- {2}, MaxDrops <- 0, MaxCrashes <- 0, LostBlocks <- FALSE
Relanded == INSTANCE MarketFeed WITH
  NSigs <- 3, MaxSlot <- 2, PageLimit <- 2, MaxPages <- 2, Failed <- {},
  Unsupported <- {2}, MaxDrops <- 1, MaxCrashes <- 0, LostBlocks <- TRUE
Crashing == INSTANCE MarketFeed WITH
  NSigs <- 3, MaxSlot <- 2, PageLimit <- 1, MaxPages <- 2, Failed <- {},
  Unsupported <- {2}, MaxDrops <- 1, MaxCrashes <- 1, LostBlocks <- FALSE
Activity == INSTANCE ActivityFeed WITH
  NSigs <- 3, Both <- {3}, Unsupported <- {2}, PageLimit <- 1, MaxPages <- 2,
  MaxDrops <- 0, MaxStops <- 1
Forked == INSTANCE ActivityFeed WITH
  NSigs <- 3, Both <- {2}, Unsupported <- {}, PageLimit <- 2, MaxPages <- 1,
  MaxDrops <- 1, MaxStops <- 0
Rows == INSTANCE CampaignRows WITH
  Importers <- {"i1"}, Readers <- {"r1", "r2"}, Files <- {5}, MaxSlot <- 2,
  MaxPaths <- 1, MaxEdits <- 1, MaxFails <- 1
LegacyFiles == INSTANCE CampaignRows WITH
  Importers <- {"i1"}, Readers <- {"r1"}, Files <- {1, 5}, MaxSlot <- 2,
  MaxPaths <- 1, MaxEdits <- 1, MaxFails <- 1
Newest == INSTANCE RegistryDirectory WITH
  Sort <- "newest", MaxRows <- 5, Limit <- 2, Filter <- "open",
  MaxCalls <- 3, Parts <- {"directory"}
Closing == INSTANCE RegistryDirectory WITH
  Sort <- "closing", MaxRows <- 3, Limit <- 1, Filter <- "open",
  MaxCalls <- 3, Parts <- {"directory"}
Name == INSTANCE RegistryDirectory WITH
  Sort <- "name", MaxRows <- 5, Limit <- 2, Filter <- "all", MaxCalls <- 3,
  Parts <- {"directory"}
Intents == INSTANCE RegistryDirectory WITH
  Sort <- "newest", MaxRows <- 1, Limit <- 1, Filter <- "all", MaxCalls <- 4,
  Parts <- {"intents", "events"}
Admit == INSTANCE Admission WITH
  Micro <- 3, MaxTime <- 4, MaxCalls <- 3

MCInit ==
  \/ /\ part = "market" /\ Market!Init /\ activityAndForkedOff
     /\ rowsAndFilesOff /\ newestAndClosingAndNameAndIntentsOff
     /\ calls = Off /\ admissionOff
  \/ /\ part = "relanded" /\ Relanded!Init /\ activityAndForkedOff
     /\ rowsAndFilesOff /\ newestAndClosingAndNameAndIntentsOff
     /\ calls = Off /\ admissionOff
  \/ /\ part = "crashing" /\ Crashing!Init /\ activityAndForkedOff
     /\ rowsAndFilesOff /\ newestAndClosingAndNameAndIntentsOff
     /\ calls = Off /\ admissionOff
  \/ /\ part = "activity" /\ Activity!Init /\ marketAndRelandedAndCrashingOff
     /\ rowsAndFilesOff /\ newestAndClosingAndNameAndIntentsOff
     /\ calls = Off /\ admissionOff
  \/ /\ part = "forked" /\ Forked!Init /\ marketAndRelandedAndCrashingOff
     /\ rowsAndFilesOff /\ newestAndClosingAndNameAndIntentsOff
     /\ calls = Off /\ admissionOff
  \/ /\ part = "rows" /\ Rows!Init
     /\ marketAndRelandedAndCrashingAndActivityAndForkedOff
     /\ marketAndRelandedAndCrashingOff /\ rows = Off /\ activityAndForkedOff
     /\ newestAndClosingAndNameAndIntentsOff /\ calls = Off /\ admissionOff
  \/ /\ part = "files" /\ LegacyFiles!Init
     /\ marketAndRelandedAndCrashingAndActivityAndForkedOff
     /\ marketAndRelandedAndCrashingOff /\ rows = Off /\ activityAndForkedOff
     /\ newestAndClosingAndNameAndIntentsOff /\ calls = Off /\ admissionOff
  \/ /\ part = "newest" /\ Newest!Init
     /\ marketAndRelandedAndCrashingAndActivityAndForkedOff
     /\ marketAndRelandedAndCrashingOff /\ activityAndForkedOff
     /\ rowsAndFilesOff /\ admissionOff
  \/ /\ part = "closing" /\ Closing!Init
     /\ marketAndRelandedAndCrashingAndActivityAndForkedOff
     /\ marketAndRelandedAndCrashingOff /\ activityAndForkedOff
     /\ rowsAndFilesOff /\ admissionOff
  \/ /\ part = "name" /\ Name!Init
     /\ marketAndRelandedAndCrashingAndActivityAndForkedOff
     /\ marketAndRelandedAndCrashingOff /\ activityAndForkedOff
     /\ rowsAndFilesOff /\ admissionOff
  \/ /\ part = "intents" /\ Intents!Init
     /\ marketAndRelandedAndCrashingAndActivityAndForkedOff
     /\ marketAndRelandedAndCrashingOff /\ activityAndForkedOff
     /\ rowsAndFilesOff /\ admissionOff
  \/ /\ part = "admission" /\ Admit!Init
     /\ marketAndRelandedAndCrashingAndActivityAndForkedOff
     /\ marketAndRelandedAndCrashingOff /\ rows = Off /\ activityAndForkedOff
     /\ rowsAndFilesOff /\ newestAndClosingAndNameAndIntentsOff

MCNext ==
  \/ /\ part = "market" /\ Market!Next
     /\ UNCHANGED <<part, activityAndForkedVars, rowsAndFilesVars,
                    newestAndClosingAndNameAndIntentsVars, calls,
                    admissionVars>>
  \/ /\ part = "relanded" /\ Relanded!Next
     /\ UNCHANGED <<part, activityAndForkedVars, rowsAndFilesVars,
                    newestAndClosingAndNameAndIntentsVars, calls,
                    admissionVars>>
  \/ /\ part = "crashing" /\ Crashing!Next
     /\ UNCHANGED <<part, activityAndForkedVars, rowsAndFilesVars,
                    newestAndClosingAndNameAndIntentsVars, calls,
                    admissionVars>>
  \/ /\ part = "activity" /\ Activity!Next
     /\ UNCHANGED <<part, marketAndRelandedAndCrashingVars, rowsAndFilesVars,
                    newestAndClosingAndNameAndIntentsVars, calls,
                    admissionVars>>
  \/ /\ part = "forked" /\ Forked!Next
     /\ UNCHANGED <<part, marketAndRelandedAndCrashingVars, rowsAndFilesVars,
                    newestAndClosingAndNameAndIntentsVars, calls,
                    admissionVars>>
  \/ /\ part = "rows" /\ Rows!Next
     /\ UNCHANGED <<part,
                    marketAndRelandedAndCrashingAndActivityAndForkedVars,
                    marketAndRelandedAndCrashingVars, rows,
                    activityAndForkedVars,
                    newestAndClosingAndNameAndIntentsVars, calls,
                    admissionVars>>
  \/ /\ part = "files" /\ LegacyFiles!Next
     /\ UNCHANGED <<part,
                    marketAndRelandedAndCrashingAndActivityAndForkedVars,
                    marketAndRelandedAndCrashingVars, rows,
                    activityAndForkedVars,
                    newestAndClosingAndNameAndIntentsVars, calls,
                    admissionVars>>
  \/ /\ part = "newest" /\ Newest!Next
     /\ UNCHANGED <<part,
                    marketAndRelandedAndCrashingAndActivityAndForkedVars,
                    marketAndRelandedAndCrashingVars, activityAndForkedVars,
                    rowsAndFilesVars, admissionVars>>
  \/ /\ part = "closing" /\ Closing!Next
     /\ UNCHANGED <<part,
                    marketAndRelandedAndCrashingAndActivityAndForkedVars,
                    marketAndRelandedAndCrashingVars, activityAndForkedVars,
                    rowsAndFilesVars, admissionVars>>
  \/ /\ part = "name" /\ Name!Next
     /\ UNCHANGED <<part,
                    marketAndRelandedAndCrashingAndActivityAndForkedVars,
                    marketAndRelandedAndCrashingVars, activityAndForkedVars,
                    rowsAndFilesVars, admissionVars>>
  \/ /\ part = "intents" /\ Intents!Next
     /\ UNCHANGED <<part,
                    marketAndRelandedAndCrashingAndActivityAndForkedVars,
                    marketAndRelandedAndCrashingVars, activityAndForkedVars,
                    rowsAndFilesVars, admissionVars>>
  \/ /\ part = "admission" /\ Admit!Next
     /\ UNCHANGED <<part,
                    marketAndRelandedAndCrashingAndActivityAndForkedVars,
                    marketAndRelandedAndCrashingVars, rows,
                    activityAndForkedVars, rowsAndFilesVars,
                    newestAndClosingAndNameAndIntentsVars>>

mcVars == <<part, marketAndRelandedAndCrashingAndActivityAndForkedVars,
            marketAndRelandedAndCrashingVars, rows, activityAndForkedVars,
            rowsAndFilesVars, newestAndClosingAndNameAndIntentsVars, calls,
            admissionVars>>
MCSpec == MCInit /\ [][MCNext]_mcVars

-----------------------------------------------------------------------------
\* Nothing is passed over: whatever a watermark of the market or of an activity
\* address has passed is stored, listed as unsupported or inside a recorded gap,
\* after any failure, crash or fork; the candles are those of the stored rows; a
\* row shown as final is on the finalized chain; and a page that calls itself
\* live has all of them (market and activity ingest, activityStatus).
FeedsComplete ==
  /\ part = "market" =>
       Market!NothingMissed /\ Market!CandlesMatch /\ Market!FinalRowsAreFinal
  /\ part = "crashing" =>
       Crashing!NothingMissed /\ Crashing!CandlesMatch /\ Crashing!FinalRowsAreFinal
  /\ part = "relanded" => Relanded!CandlesMatch /\ Relanded!FinalRowsAreFinal
  /\ part = "activity" =>
       Activity!LiveIsComplete /\ Activity!NothingMissed /\ Activity!FinalRowsAreFinal
  /\ part = "forked" =>
       Forked!LiveIsComplete /\ Forked!NothingMissed /\ Forked!FinalRowsAreFinal

\* Once a campaign row carries a slot its phase is the chain's at that slot, and
\* a stopped importer leaves no connection open; a walk of the directory in any
\* order lists every campaign that stayed as it was exactly once, in spite of
\* what changes meanwhile; every caller answered an intent got what the row still
\* has, and a finalized event stays finalized (mergeCampaign, listCampaigns,
\* createIntent, recordEvent).
RecordsTruthful ==
  /\ part = "rows" => Rows!ProjectionIsRead /\ Rows!StopDrains
  /\ part = "files" => LegacyFiles!ProjectionIsRead /\ LegacyFiles!StopDrains
  /\ part = "newest" => Newest!WalkComplete /\ Newest!NewestOnce
  /\ part = "closing" => Closing!WalkComplete
  /\ part = "name" => Name!WalkComplete
  /\ part = "intents" => Intents!IntentStable /\ Intents!EventsMonotone

\* Whatever order imports, overtaken chain reads and edited files are merged
\* in, sealed terms, rank, source paths and slot of a row only go forward, and
\* the time of an event is written once (mergeCampaign, recordEvent).
RowsForward ==
  [][/\ part = "rows" => Rows!SealedKept /\ Rows!ProjectionForward
     /\ part = "files" => LegacyFiles!SealedKept /\ LegacyFiles!ProjectionForward
     /\ part = "intents" => Intents!EventTimeOnce]_mcVars

\* Over any stretch of time the admitted calls stay within burst plus rate, of
\* each lane and of all together; and the retry time a refused caller is told
\* is exact (admissionDecision, consume).
WithinRate == part = "admission" => Admit!WithinRate /\ Admit!RetryExact
=============================================================================
