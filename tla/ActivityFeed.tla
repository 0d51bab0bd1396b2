---------------------------- MODULE ActivityFeed ----------------------------
(***************************************************************************)
(* The activity feed of a coin page (localnet/market/activity.mjs): its     *)
(* start and stop, the tick over the watched addresses, the store of events *)
(* and the status the read API answers.  A transaction mentions one or more *)
(* watched addresses; its events are stored once, under its signature.      *)
(* Failed transactions are events too.  Listing and storing one page is a   *)
(* step, moving the cursor is another.                                      *)
(***************************************************************************)
EXTENDS Integers, Sequences, FiniteSets, SequencesExt

CONSTANTS NSigs, Both,     \* bound; signatures that mention every address
          Unsupported,     \* signatures of unsupported versions
          PageLimit, MaxPages,
          MaxDrops, MaxStops

(* watchedAddresses of a campaign without a distribution record *)
Addresses == <<"campaign", "fees">>

None == 0
Watched == {Addresses[i] : i \in 1..Len(Addresses)}
Mentions(s) == IF s \in Both THEN Watched ELSE {Addresses[1 + (s % Len(Addresses))]}

VARIABLES chain, final, landed, drops, \* the chain, oldest first
          rows, cursor, open,          \* the store; open: its connection
          feed, stops,                 \* "off", "resolving", "on", "stopping"
          which, step, at, page, loc,  \* the tick: address, step, locals
          pollOk, polled               \* stats.lastPollOk of this tick and of the last

world == <<chain, final, landed, drops>>
tick == <<which, step, at, page, loc>>
vars == <<world, rows, cursor, open, feed, stops, tick, pollOk, polled>>

NoLoc == [newest |-> None, last |-> None, pages |-> 0, gaps |-> <<>>]
NoCursor == [newest |-> None, oldest |-> None, complete |-> FALSE, gaps |-> <<>>, unsupported |-> {}]

Init ==
  /\ chain = <<>> /\ final = 0 /\ landed = 0 /\ drops = 0
  /\ rows = [s \in {} |-> None] /\ cursor = [a \in Watched |-> NoCursor] /\ open = FALSE
  /\ feed = "off" /\ stops = 0
  /\ which = 1 /\ step = "idle" /\ at = "list" /\ page = <<>> /\ loc = NoLoc
  /\ pollOk = TRUE /\ polled = "none"

OnChain == {chain[i] : i \in 1..Len(chain)}
Position(s) == IF s \in OnChain THEN CHOOSE i \in 1..Len(chain) : chain[i] = s ELSE 0
Address == Addresses[which]

(* ----------------------------- the chain ------------------------------ *)

Land ==
  /\ landed < NSigs
  /\ landed' = landed + 1 /\ chain' = Append(chain, landed + 1)
  /\ UNCHANGED <<final, drops, rows, cursor, open, feed, stops, tick, pollOk, polled>>

Finalize ==
  /\ final < Len(chain) /\ final' = final + 1
  /\ UNCHANGED <<chain, landed, drops, rows, cursor, open, feed, stops, tick, pollOk, polled>>

Drop ==
  /\ drops < MaxDrops /\ Len(chain) > final
  /\ chain' = Front(chain) /\ drops' = drops + 1
  /\ UNCHANGED <<final, landed, rows, cursor, open, feed, stops, tick, pollOk, polled>>

(* getSignaturesForAddress of one address *)
Listing(a, before, until) ==
  LET hi == IF before = None THEN Len(chain) + 1 ELSE Position(before)
      lo == IF until = None THEN 0 ELSE Position(until)
      mine == SelectSeq(SubSeq(chain, lo + 1, hi - 1), LAMBDA s : a \in Mentions(s))
  IN SubSeq(Reverse(mine), 1, IF Len(mine) > PageLimit THEN PageLimit ELSE Len(mine))

(* -------------------------- start and stop ---------------------------- *)

Attempt ==
  /\ feed = "off" /\ feed' = "resolving"
  /\ UNCHANGED <<world, rows, cursor, open, stops, tick, pollOk, polled>>

(* The identity is resolved, or the attempt is repeated later. *)
Resolve ==
  /\ feed = "resolving"
  /\ \/ feed' = "off" /\ UNCHANGED open
     \/ feed' = "on" /\ open' = TRUE
  /\ UNCHANGED <<world, rows, cursor, stops, tick, pollOk, polled>>

Stop ==
  /\ feed = "on" /\ stops < MaxStops
  /\ feed' = "stopping" /\ stops' = stops + 1
  /\ UNCHANGED <<world, rows, cursor, open, tick, pollOk, polled>>

(* `stop` waits for the tick; a new process starts with the same file. *)
Stopped ==
  /\ feed = "stopping" /\ step = "idle"
  /\ open' = FALSE /\ feed' = "off"
  /\ polled' = "none"
  /\ UNCHANGED <<world, rows, cursor, stops, tick, pollOk>>

Crash ==
  /\ feed = "on" /\ stops < MaxStops /\ stops' = stops + 1
  /\ feed' = "off" /\ open' = FALSE /\ polled' = "none"
  /\ which' = 1 /\ step' = "idle" /\ at' = "list" /\ page' = <<>> /\ loc' = NoLoc
  /\ UNCHANGED <<world, rows, cursor, pollOk>>

(* ----------------------------- the tick ------------------------------- *)

Go(w, s, l) == which' = w /\ step' = s /\ at' = "list" /\ page' = <<>> /\ loc' = l
WithGaps(gaps) == [NoLoc EXCEPT !.gaps = gaps]

Tick ==
  /\ feed = "on" /\ step = "idle"
  /\ Go(1, "live", WithGaps(cursor[Addresses[1]].gaps))
  /\ pollOk' = TRUE
  /\ UNCHANGED <<world, rows, cursor, open, feed, stops, polled>>

(* The step after this one; a stopped feed leaves its loops. *)
Leave(cur) ==
  IF feed = "stopping" THEN Go(1, "last", NoLoc)
  ELSE CASE step = "live" -> Go(which, "gaps", WithGaps(cur[Address].gaps))
         [] step = "gaps" -> Go(which, "backfill", NoLoc)
         [] step = "backfill" /\ which < Len(Addresses) ->
              Go(which + 1, "live", WithGaps(cur[Addresses[which + 1]].gaps))
         [] step = "backfill" /\ which = Len(Addresses) -> Go(1, "finalize", NoLoc)
         [] step = "finalize" -> Go(1, "last", NoLoc)

Paging == at = "list" /\ step \in {"live", "gaps", "backfill"}
Idle ==
  \/ step = "gaps" /\ loc.gaps = <<>>
  \/ step = "backfill" /\ (cursor[Address].complete \/ cursor[Address].oldest = None)

Skip ==
  /\ Paging /\ Idle /\ Leave(cursor)
  /\ UNCHANGED <<world, rows, cursor, open, feed, stops, pollOk, polled>>

Asked ==
  CASE step = "live" -> Listing(Address, loc.last, cursor[Address].newest)
    [] step = "gaps" -> Listing(Address, loc.gaps[1].newer, loc.gaps[1].older)
    [] step = "backfill" -> Listing(Address, cursor[Address].oldest, None)

(* processPage: known signatures are not fetched again, only finalized; the *)
(* rest is stored with what the page says of them.                          *)
ProcessPage ==
  /\ Paging /\ ~Idle
  /\ LET p == Asked
         sigs == {p[i] : i \in 1..Len(p)}
         settled == {s \in sigs : Position(s) <= final}
         fresh == sigs \ (DOMAIN rows \cup Unsupported)
     IN /\ page' = p
        /\ rows' = [s \in DOMAIN rows \cup fresh |->
                      (s \in settled) \/ (s \in DOMAIN rows /\ rows[s])]
        /\ cursor' = [cursor EXCEPT ![Address].unsupported = @ \cup (sigs \cap Unsupported)]
  /\ at' = "commit"
  /\ UNCHANGED <<world, open, feed, stops, which, step, loc, pollOk, polled>>

GapOf(last) == [newer |-> last, older |-> cursor[Address].newest]

MoveTo(newest, gaps) == [cursor EXCEPT ![Address].newest = newest, ![Address].gaps = gaps]

(* A call fails: a poll that stored pages records a gap, any other step is  *)
(* given up; only a poll makes the tick's result not ok.                    *)
Throw ==
  /\ Paging /\ ~Idle
  /\ IF step = "live" /\ loc.newest # None
       THEN cursor' = MoveTo(loc.newest, Append(loc.gaps, GapOf(loc.last))) /\ Leave(cursor')
       ELSE UNCHANGED cursor /\ Leave(cursor)
  /\ pollOk' = (pollOk /\ (step = "live" => loc.newest # None))
  /\ UNCHANGED <<world, rows, open, feed, stops, polled>>

(* pollLive without a watermark: an address without history is covered *)
FirstPollCursor ==
  [cursor EXCEPT ![Address] =
     IF page = <<>> THEN [@ EXCEPT !.complete = TRUE]
     ELSE [@ EXCEPT !.newest = Head(page), !.oldest = Last(page), !.complete = Len(page) < PageLimit]]

PollLive ==
  /\ step = "live" /\ at = "commit"
  /\ IF cursor[Address].newest = None
       THEN cursor' = FirstPollCursor /\ Leave(cursor')
       ELSE LET newest == IF loc.newest = None /\ page # <<>> THEN Head(page) ELSE loc.newest
                ends == Len(page) < PageLimit
                gaps == IF ends THEN loc.gaps ELSE Append(loc.gaps, GapOf(Last(page)))
            IN IF ends \/ loc.pages + 1 >= MaxPages
                 THEN /\ cursor' = IF newest = None THEN cursor ELSE MoveTo(newest, gaps)
                      /\ Leave(cursor')
                 ELSE /\ loc' = [loc EXCEPT !.newest = newest, !.last = Last(page), !.pages = @ + 1]
                      /\ at' = "list" /\ page' = <<>> /\ UNCHANGED <<which, step, cursor>>
  /\ UNCHANGED <<world, rows, open, feed, stops, pollOk, polled>>

FillGaps ==
  /\ step = "gaps" /\ at = "commit"
  /\ LET ends == Len(page) < PageLimit
         gaps == IF ends THEN Tail(loc.gaps) ELSE [loc.gaps EXCEPT ![1].newer = Last(page)]
     IN /\ cursor' = [cursor EXCEPT ![Address].gaps = gaps]
        /\ IF ends \/ loc.pages + 1 >= MaxPages THEN Leave(cursor')
           ELSE /\ loc' = [loc EXCEPT !.gaps = gaps, !.pages = @ + 1]
                /\ at' = "list" /\ page' = <<>> /\ UNCHANGED <<which, step>>
  /\ UNCHANGED <<world, rows, open, feed, stops, pollOk, polled>>

Backfill ==
  /\ step = "backfill" /\ at = "commit"
  /\ LET complete == Len(page) < PageLimit IN
     /\ cursor' = [cursor EXCEPT ![Address].oldest = IF page = <<>> THEN @ ELSE Last(page),
                                 ![Address].complete = complete]
     /\ IF complete \/ loc.pages + 1 >= MaxPages THEN Leave(cursor')
        ELSE /\ loc' = [loc EXCEPT !.pages = @ + 1]
             /\ at' = "list" /\ page' = <<>> /\ UNCHANGED <<which, step>>
  /\ UNCHANGED <<world, rows, open, feed, stops, pollOk, polled>>

(* finalizePass: mark what finalized, remove what left the history; a       *)
(* failed transaction stays.  The grace period is a choice.                 *)
FinalizePass ==
  /\ step = "finalize"
  /\ \/ \E gone \in SUBSET {s \in DOMAIN rows : ~rows[s] /\ s \notin OnChain} :
          rows' = [s \in DOMAIN rows \ gone |-> rows[s] \/ Position(s) \in 1..final]
     \/ UNCHANGED rows
  /\ Leave(cursor)
  /\ UNCHANGED <<world, cursor, open, feed, stops, pollOk, polled>>

(* The end of the tick publishes its result. *)
TickEnds ==
  /\ step = "last"
  /\ polled' = IF pollOk THEN "ok" ELSE "failed"
  /\ Go(1, "idle", NoLoc)
  /\ UNCHANGED <<world, rows, cursor, open, feed, stops, pollOk>>

Works == Tick \/ Skip \/ PollLive \/ FillGaps \/ Backfill \/ FinalizePass \/ TickEnds
Next ==
  \/ Land \/ Finalize \/ Drop
  \/ Attempt \/ Resolve \/ Stop \/ Stopped \/ Crash
  \/ Works \/ ProcessPage \/ Throw

Spec == Init /\ [][Next]_vars

(* activityStatus of the read API; lag is left out *)
Status ==
  CASE feed \in {"off", "resolving"} -> "not-launched"
    [] polled = "failed" -> "stale"
    [] polled = "none" -> "starting"
    [] \E a \in Watched : ~cursor[a].complete \/ cursor[a].gaps # <<>> -> "backfilling"
    [] DOMAIN rows = {} -> "no-activity"
    [] OTHER -> "live"

(***************************************************************************)
(* What the page calls live is complete: with status "live" or              *)
(* "no-activity" every transaction of a watched address up to its watermark *)
(* is stored or listed as unsupported (activityStatus over coverage).       *)
(***************************************************************************)
LiveIsComplete ==
  Status \in {"live", "no-activity"} =>
    \A a \in Watched : \A p \in 1..Position(cursor[a].newest) :
      a \in Mentions(chain[p]) => chain[p] \in DOMAIN rows \cup cursor[a].unsupported

(***************************************************************************)
(* At any time, whatever was passed by a watermark is stored or in a gap of *)
(* that address.                                                            *)
(***************************************************************************)
InGap(a, p) ==
  \E i \in 1..Len(cursor[a].gaps) :
    p > Position(cursor[a].gaps[i].older) /\ p < Position(cursor[a].gaps[i].newer)
NothingMissed ==
  \A a \in Watched : \A p \in 1..Position(cursor[a].newest) :
    /\ a \in Mentions(chain[p])
    /\ cursor[a].complete \/ p >= Position(cursor[a].oldest)
    => chain[p] \in DOMAIN rows \cup cursor[a].unsupported \/ InGap(a, p)

(***************************************************************************)
(* An event shown as finalized belongs to the finalized chain; what a fork  *)
(* took away is only ever provisional (processPage, finalizePass).          *)
(***************************************************************************)
FinalRowsAreFinal == \A s \in DOMAIN rows : rows[s] => Position(s) \in 1..final

=============================================================================
