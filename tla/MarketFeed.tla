----------------------------- MODULE MarketFeed -----------------------------
(***************************************************************************)
(* The swap feed of one pool (localnet/market/ingest.mjs) over its SQLite   *)
(* store (market/store.mjs).  A single-flight tick pages the pool's         *)
(* signatures newest first: new ones since the watermark, then the oldest   *)
(* gap, then older history, then the provisional rows and the missing block *)
(* times.  Every RPC call and every store transaction is a step; the chain  *)
(* grows, finalizes and drops a fork between them, and the process may      *)
(* crash.  A block is as long as a candle: its slot stands for its time.    *)
(***************************************************************************)
EXTENDS Integers, Sequences, FiniteSets, SequencesExt

CONSTANTS NSigs, MaxSlot,  \* bounds: signatures, slots
          PageLimit, MaxPages,
          Failed, Unsupported, \* signatures of failed and of unsupported transactions
          MaxDrops, MaxCrashes,
          LostBlocks       \* whether a dropped transaction may land again

Sigs == 1..NSigs
Slots == 1..MaxSlot
None == 0

VARIABLES chain,   \* the pool's signatures, oldest first, with their slots
          final,   \* how many of them are finalized
          tip,     \* highest slot so far
          landed, drops, crashes,
          rows, candles, cursor,      \* the store
          step, at, page, loc         \* the tick

world == <<chain, final, tip, landed, drops, crashes>>
store == <<rows, candles, cursor>>
tick == <<step, at, page, loc>>
vars == <<world, store, tick>>

NoLoc == [before |-> None, newest |-> None, last |-> None, pages |-> 0, gaps |-> <<>>, complete |-> FALSE,
          done |-> {}, gone |-> {}]

Init ==
  /\ chain = <<>> /\ final = 0 /\ tip = 0 /\ landed = 0 /\ drops = 0 /\ crashes = 0
  /\ rows = [s \in {} |-> None]
  /\ candles = [b \in Slots |-> {}]
  /\ cursor = [newest |-> None, oldest |-> None, complete |-> FALSE, gaps |-> <<>>, unsupported |-> {}]
  /\ step = "idle" /\ at = "list" /\ page = <<>> /\ loc = NoLoc

OnChain == {chain[i].sig : i \in 1..Len(chain)}
Position(s) == IF s \in OnChain THEN CHOOSE i \in 1..Len(chain) : chain[i].sig = s ELSE 0
Swap(s) == s \notin Failed \cup Unsupported

(* ----------------------------- the chain ------------------------------ *)

Land ==
  /\ \E slot \in {tip, tip + 1} \cap Slots :
       /\ slot = tip => chain # <<>> /\ Last(chain).slot = tip
       /\ \E s \in Sigs :
            /\ \/ s = landed + 1
               \/ LostBlocks /\ s <= landed /\ s \notin OnChain
            /\ chain' = Append(chain, [sig |-> s, slot |-> slot])
            /\ landed' = IF s > landed THEN s ELSE landed
       /\ tip' = slot
  /\ UNCHANGED <<final, drops, crashes, store, tick>>

Finalize ==
  /\ final < Len(chain)
  /\ final' = final + 1
  /\ UNCHANGED <<chain, tip, landed, drops, crashes, store, tick>>

Drop ==
  /\ drops < MaxDrops /\ Len(chain) > final
  /\ chain' = Front(chain)
  /\ drops' = drops + 1
  /\ UNCHANGED <<final, tip, landed, crashes, store, tick>>

(* getSignaturesForAddress: newest first, strictly between the bounds; an   *)
(* unknown `until` bounds nothing.                                          *)
Listing(before, until) ==
  LET hi == IF before = None THEN Len(chain) ELSE Position(before) - 1
      lo == IF until = None THEN 0 ELSE Position(until)
      n == IF hi - lo > PageLimit THEN PageLimit ELSE IF hi > lo THEN hi - lo ELSE 0
  IN [i \in 1..n |-> [sig |-> chain[hi + 1 - i].sig, slot |-> chain[hi + 1 - i].slot,
                      final |-> hi + 1 - i <= final]]

(* ----------------------------- the store ------------------------------ *)

Bucket(rs, b) == {<<s, rs[s].index>> : s \in {r \in DOMAIN rs : rs[r].time = b}}

(* rebuildTimes: the candle of each touched bucket, recomputed from the rows *)
Rebuilt(rs, times) == [b \in Slots |-> IF b \in times THEN Bucket(rs, b) ELSE candles[b]]

(* txIndexes: an ordinal only in slots that lie fully inside the page *)
TxIndex(entries, i, complete) ==
  LET slot == entries[i].slot IN
  IF ~complete /\ slot \in {Head(entries).slot, Last(entries).slot} THEN None
  ELSE Cardinality({j \in i..Len(entries) : entries[j].slot = slot})

(* The row that INSERT ... ON CONFLICT DO UPDATE leaves. *)
Upserted(s, new) ==
  IF s \notin DOMAIN rows THEN new
  ELSE [rows[s] EXCEPT !.final = @ \/ new.final,
                       !.time = IF @ = None THEN new.time ELSE @,
                       !.index = IF @ = None THEN new.index ELSE @]

Touched(s, new) ==
  IF s \notin DOMAIN rows THEN {new.time}
  ELSE IF rows[s].time = None /\ new.time # None THEN {new.time}
  ELSE IF rows[s].index = None /\ new.index # None THEN {rows[s].time} ELSE {}

(* insertSwaps and the unsupported list, in one transaction *)
Insert(entries, complete, timed) ==
  LET at_(s) == CHOOSE i \in 1..Len(entries) : entries[i].sig = s
      swaps == {s \in {entries[i].sig : i \in 1..Len(entries)} : Swap(s)}
      new == [s \in swaps |-> [slot |-> entries[at_(s)].slot, final |-> entries[at_(s)].final,
                               index |-> TxIndex(entries, at_(s), complete),
                               time |-> IF timed THEN entries[at_(s)].slot ELSE None]]
      after == [s \in DOMAIN rows \cup swaps |-> IF s \in swaps THEN Upserted(s, new[s]) ELSE rows[s]]
  IN /\ rows' = after
     /\ candles' = Rebuilt(after, UNION {Touched(s, new[s]) : s \in swaps})
     /\ cursor' = [cursor EXCEPT !.unsupported =
                     @ \cup ({entries[i].sig : i \in 1..Len(entries)} \cap Unsupported)]

(* removeSwaps: the rows go and their candles are rebuilt *)
RemoveSwaps(sigs) ==
  /\ rows' = [s \in DOMAIN rows \ sigs |-> rows[s]]
  /\ candles' = Rebuilt([s \in DOMAIN rows \ sigs |-> rows[s]], {rows[s].time : s \in sigs \cap DOMAIN rows})

(* ----------------------------- the tick ------------------------------- *)

Goto(next) == step' = next /\ at' = "list" /\ page' = <<>> /\ loc' = NoLoc

Tick ==
  /\ step = "idle"
  /\ step' = "live" /\ loc' = [NoLoc EXCEPT !.gaps = cursor.gaps]
  /\ UNCHANGED <<at, page, world, store>>

(* The page a step asks for *)
Asked ==
  CASE step = "live" -> Listing(loc.before, cursor.newest)
    [] step = "gaps" -> Listing(loc.gaps[1].newer, loc.gaps[1].older)
    [] step = "backfill" -> Listing(cursor.oldest, None)

NextStep == CASE step = "live" -> "gaps" [] step = "gaps" -> "backfill" [] step = "backfill" -> "finalize"
Enter(next) ==
  /\ step' = next /\ at' = "list" /\ page' = <<>>
  /\ loc' = [NoLoc EXCEPT !.gaps = IF next = "gaps" THEN cursor.gaps ELSE <<>>]

(* fillGaps without a gap, backfill without a cursor or with nothing to do *)
Skip ==
  /\ at = "list"
  /\ \/ step = "gaps" /\ loc.gaps = <<>>
     \/ step = "backfill" /\ loc.pages = 0 /\ (cursor.complete \/ cursor.oldest = None)
  /\ Enter(NextStep)
  /\ UNCHANGED <<world, store>>

List ==
  /\ at = "list" /\ step \in {"live", "gaps", "backfill"}
  /\ step = "gaps" => loc.gaps # <<>>
  /\ step = "backfill" => ~cursor.complete /\ cursor.oldest # None
  /\ page' = Asked
  /\ at' = IF page' = <<>> THEN "commit" ELSE "process"
  /\ loc' = [loc EXCEPT !.complete = Len(page') < PageLimit /\ (step = "backfill" \/ cursor.newest = None)]
  /\ UNCHANGED <<step, world, store>>

(* processPage: nothing of the page is stored unless every transaction is *)
Process ==
  /\ at = "process"
  /\ \E timed \in BOOLEAN : Insert(page, loc.complete, timed)
  /\ at' = "commit"
  /\ UNCHANGED <<step, page, loc, world>>

(* A call fails or a transaction is not returned: a poll that has stored    *)
(* pages leaves an explicit gap, any other step gives up until the next tick *)
GapOf(last) == [newer |-> last, older |-> cursor.newest]
Throw ==
  /\ at \in {"list", "process"} /\ step \in {"live", "gaps", "backfill"}
  /\ IF step = "live" /\ loc.newest # None
       THEN /\ cursor' = [cursor EXCEPT !.newest = loc.newest, !.gaps = Append(loc.gaps, GapOf(loc.last))]
            /\ step' = "gaps" /\ at' = "list" /\ page' = <<>>
            /\ loc' = [NoLoc EXCEPT !.gaps = cursor'.gaps]
       ELSE Enter(NextStep) /\ UNCHANGED cursor
  /\ UNCHANGED <<rows, candles, world>>

(* pollLive, first page: both watermarks *)
FirstPoll ==
  /\ step = "live" /\ at = "commit" /\ cursor.newest = None
  /\ cursor' = IF page = <<>> THEN cursor
               ELSE [cursor EXCEPT !.newest = Head(page).sig, !.oldest = Last(page).sig, !.complete = loc.complete]
  /\ step' = "gaps" /\ at' = "list" /\ page' = <<>> /\ loc' = [NoLoc EXCEPT !.gaps = cursor.gaps]
  /\ UNCHANGED <<rows, candles, world>>

(* pollLive, later pages: on until the watermark or the page budget *)
LiveCursor(newest, gaps) ==
  IF newest = None THEN cursor ELSE [cursor EXCEPT !.newest = newest, !.gaps = gaps]
LiveEndsAt(newest, gaps) ==
  /\ cursor' = LiveCursor(newest, gaps)
  /\ step' = "gaps" /\ at' = "list" /\ page' = <<>>
  /\ loc' = [NoLoc EXCEPT !.gaps = cursor'.gaps]
PollNoGap ==
  /\ step = "live" /\ at = "commit" /\ cursor.newest # None
  /\ LiveEndsAt(IF page = <<>> THEN None ELSE Head(page).sig, loc.gaps)
  /\ UNCHANGED <<rows, candles, world>>
Poll ==
  /\ step = "live" /\ at = "commit" /\ cursor.newest # None
  /\ LET newest == IF loc.newest = None /\ page # <<>> THEN Head(page).sig ELSE loc.newest IN
     IF page = <<>> THEN LiveEndsAt(newest, loc.gaps)
     ELSE IF Len(page) < PageLimit THEN LiveEndsAt(newest, loc.gaps)
     ELSE IF loc.pages + 1 >= MaxPages THEN LiveEndsAt(newest, Append(loc.gaps, GapOf(Last(page).sig)))
     ELSE /\ loc' = [loc EXCEPT !.newest = newest, !.last = Last(page).sig,
                                !.before = Last(page).sig, !.pages = @ + 1]
          /\ at' = "list" /\ page' = <<>>
          /\ UNCHANGED <<step, cursor>>
  /\ UNCHANGED <<rows, candles, world>>

FillGaps ==
  /\ step = "gaps" /\ at = "commit"
  /\ LET gaps == IF Len(page) < PageLimit THEN Tail(loc.gaps)
                 ELSE [loc.gaps EXCEPT ![1].newer = Last(page).sig]
     IN /\ cursor' = [cursor EXCEPT !.gaps = gaps]
        /\ IF Len(page) < PageLimit \/ loc.pages + 1 >= MaxPages
             THEN Goto("backfill")
             ELSE /\ loc' = [loc EXCEPT !.gaps = gaps, !.pages = @ + 1]
                  /\ at' = "list" /\ page' = <<>> /\ UNCHANGED step
  /\ UNCHANGED <<rows, candles, world>>

(* A gap that never closes. *)
Backfill ==
  /\ step = "backfill" /\ at = "commit"
  /\ cursor' = [cursor EXCEPT !.oldest = IF page = <<>> THEN @ ELSE Last(page).sig, !.complete = loc.complete]
  /\ IF loc.complete \/ loc.pages + 1 >= MaxPages THEN Goto("finalize")
     ELSE /\ loc' = [loc EXCEPT !.pages = @ + 1]
          /\ at' = "list" /\ page' = <<>> /\ UNCHANGED step
  /\ UNCHANGED <<rows, candles, world>>

(* finalizePass: the statuses are read, then applied *)
Provisional == {s \in DOMAIN rows : ~rows[s].final}

Statuses ==
  /\ step = "finalize" /\ at = "list"
  /\ \E old \in SUBSET (Provisional \ OnChain) :    \* past their grace period
       loc' = [NoLoc EXCEPT !.done = {s \in Provisional : Position(s) \in 1..final}, !.gone = old]
  /\ at' = "commit"
  /\ UNCHANGED <<step, page, world, store>>

FinalizePass ==
  /\ step = "finalize" /\ at = "commit"
  /\ IF loc.done # {}
       THEN /\ rows' = [s \in DOMAIN rows |->
                         IF s \in loc.done THEN [rows[s] EXCEPT !.final = TRUE] ELSE rows[s]]
            /\ loc' = [loc EXCEPT !.done = {}]
            /\ UNCHANGED <<candles, step, at, page>>
       ELSE RemoveSwaps(loc.gone) /\ Goto("times")
  /\ UNCHANGED <<cursor, world>>

(* Takes any answered signature for final. *)
(* resolveBlockTimes: each missing time is asked for; the answer may be null *)
ResolveBlockTimes ==
  /\ step = "times"
  /\ \E known \in SUBSET {s \in DOMAIN rows : rows[s].time = None} :
       LET after == [s \in DOMAIN rows |->
                       IF s \in known THEN [rows[s] EXCEPT !.time = rows[s].slot] ELSE rows[s]]
       IN rows' = after /\ candles' = Rebuilt(after, {rows[s].slot : s \in known})
  /\ Goto("idle")
  /\ UNCHANGED <<cursor, world>>

(* `finalizePass` and `resolveBlockTimes` fail: the tick ends without them *)
LateThrow ==
  /\ step \in {"finalize", "times"} /\ at = "list"
  /\ Goto(IF step = "finalize" THEN "times" ELSE "idle")
  /\ UNCHANGED <<world, store>>

Crash ==
  /\ step # "idle" /\ crashes < MaxCrashes
  /\ crashes' = crashes + 1
  /\ Goto("idle")
  /\ UNCHANGED <<chain, final, tip, landed, drops, store>>

Works == Tick \/ Skip \/ List \/ FirstPoll \/ Poll \/ FillGaps \/ Backfill \/ Statuses \/ FinalizePass
Next == Land \/ Finalize \/ Drop \/ Works \/ Process \/ Throw \/ ResolveBlockTimes \/ LateThrow \/ Crash

Spec == Init /\ [][Next]_vars

(***************************************************************************)
(* No trade is passed over: a transaction between the feed's watermarks is  *)
(* in the store (or on the list of unsupported ones), or inside a recorded  *)
(* gap, whatever failed, crashed or was dropped on the way (pollLive,       *)
(* fillGaps, backfill and their cursor).                                    *)
(***************************************************************************)
InGap(p) ==
  \E i \in 1..Len(cursor.gaps) :
    p > Position(cursor.gaps[i].older) /\ p < Position(cursor.gaps[i].newer)
Reached(p) ==
  /\ cursor.newest \in OnChain /\ p <= Position(cursor.newest)
  /\ cursor.complete \/ p >= Position(cursor.oldest)
NothingMissed ==
  \A p \in 1..Len(chain) :
    Reached(p) /\ chain[p].sig \notin Failed =>
      chain[p].sig \in DOMAIN rows \cup cursor.unsupported \/ InGap(p)

(***************************************************************************)
(* Candles converge: each candle is what the rows of its bucket give, after *)
(* late block times, late transaction indexes and removed rows              *)
(* (store.mjs rebuildBucket).                                               *)
(***************************************************************************)
CandlesMatch == \A b \in Slots : candles[b] = Bucket(rows, b)

(***************************************************************************)
(* A row shown as finalized is a transaction of the finalized chain, never  *)
(* one that a fork took away (finalizePass, processPage).                   *)
(***************************************************************************)
FinalRowsAreFinal == \A s \in DOMAIN rows : rows[s].final => Position(s) \in 1..final

=============================================================================
