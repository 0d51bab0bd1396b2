------------------------- MODULE RegistryDirectory -------------------------
(***************************************************************************)
(* Three read-and-write surfaces of the shared registry                    *)
(* (registry/async-api.mjs): the public directory, walked page by page     *)
(* with a cursor while campaigns are added and changed; transaction        *)
(* intents, created under an idempotency key by clients that retry; and    *)
(* chain events, reported by observers in any order.                       *)
(*                                                                         *)
(* A campaign row is its sort key for the sort of the walk and its chain   *)
(* status; its ordinal is its position.  NoKey stands for a null deadline, *)
(* which sorts last.                                                       *)
(***************************************************************************)
EXTENDS Integers, Sequences, FiniteSets, SequencesExt, FiniteSetsExt

CONSTANTS Sort,      \* "newest", "closing" or "name"
          MaxRows, Limit, Filter,   \* Filter: a status, or "all"
          Parts,     \* which of "directory", "intents", "events" are in use
          MaxCalls   \* changes of campaign, intent and event rows

VARIABLES rows,     \* ordinal -> [key, status]
          walk,     \* one reader's walk
          intent,   \* the row of one idempotency key, or absent
          answers,  \* what create told its callers
          event,    \* the row of one event identity
          reports,  \* the reports accepted so far
          calls

dir == <<rows, walk>>
vars == <<rows, walk, intent, answers, event, reports, calls>>

NoKey == 9
Keys  == IF Sort = "newest" THEN {0} ELSE {1, 2} \cup (IF Sort = "closing" THEN {NoKey} ELSE {})
Statuses == IF Filter = "all" THEN {"open"} ELSE {"open", "failed"}

(***************************************************************************)
(* campaignOrdering and list.  Nothing is followed after the walk's end.   *)
(***************************************************************************)
Match(o) == Filter = "all" \/ rows[o].status = Filter

\* The keyset condition; the anchor is the cursor row's value as it is now.
AfterOrEqual(o, c) ==
    \/ c = 0
    \/ rows[o].key > rows[c].key
    \/ rows[o].key = rows[c].key /\ o <= c
After(o, c) ==
    \/ c = 0
    \/ rows[o].key > rows[c].key
    \/ rows[o].key = rows[c].key /\ o < c

Before(o, p) == rows[o].key < rows[p].key \/ (rows[o].key = rows[p].key /\ o > p)

Selected(c) == SetToSortSeq({o \in DOMAIN rows : Match(o) /\ After(o, c)}, Before)

Page(c) ==
    LET found == Selected(c)
    IN [rows |-> SubSeq(found, 1, Min({Limit, Len(found)})),
        next |-> IF Len(found) > Limit THEN found[Limit] ELSE 0]

NewWalk == [at |-> "idle", cursor |-> 0, listed |-> <<>>, start |-> {},
            touched |-> {}, anchors |-> {}]

list ==
    /\ walk.at # "done"
    /\ LET page  == Page(walk.cursor)
           first == walk.at = "idle" IN
       walk' = [walk EXCEPT
                  !.at = IF page.next = 0 THEN "done" ELSE "walking",
                  !.cursor = page.next,
                  !.listed = @ \o page.rows,
                  !.start = IF first THEN DOMAIN rows ELSE @,
                  !.anchors = @ \cup ({page.next} \ {0})]
    /\ UNCHANGED <<rows, intent, answers, event, reports, calls>>

\* upsert of a campaign not yet listed takes the next ordinal.
upsertNew(k, s) ==
    /\ Len(rows) < MaxRows /\ walk.at # "done"
    /\ rows' = Append(rows, [key |-> k, status |-> s])
    /\ UNCHANGED <<walk, intent, answers, event, reports, calls>>

\* upsert of a known one: a name may change; a deadline is sealed once set.
KeyChange(o, k) ==
    \/ k = rows[o].key
    \/ Sort = "name"
    \/ Sort = "closing" /\ rows[o].key = NoKey

upsertChange(o, k, s) ==
    /\ KeyChange(o, k) /\ walk.at # "done"
    /\ rows' = [rows EXCEPT ![o] = [key |-> k, status |-> s]]
    /\ rows' # rows
    /\ walk' = IF walk.at # "idle" THEN [walk EXCEPT !.touched = @ \cup {o}]
               ELSE walk
    /\ calls < MaxCalls /\ calls' = calls + 1
    /\ UNCHANGED <<intent, answers, event, reports>>

(***************************************************************************)
(* intents.create and intents.progress.                                    *)
(***************************************************************************)
Absent == [params |-> "none", digest |-> "none", status |-> "none", sig |-> "none"]

Conflict(params, digest) ==
    \/ intent.params # params
    \/ digest # "none" /\ intent.digest # "none" /\ intent.digest # digest

create(params, digest) ==
    /\ calls < MaxCalls /\ calls' = calls + 1
    /\ intent' = IF intent = Absent
                 THEN [params |-> params, digest |-> digest,
                       status |-> "prepared", sig |-> "none"]
                 ELSE intent
    /\ answers' = answers \cup
          (IF intent # Absent /\ Conflict(params, digest) THEN {}
           ELSE {[asked |-> params, digest |-> digest, got |-> intent']})
    /\ UNCHANGED <<dir, event, reports>>

progress(status, sig, digest) ==
    /\ calls < MaxCalls /\ calls' = calls + 1
    /\ intent # Absent
    /\ intent' = [intent EXCEPT !.status = status,
                    !.sig = IF sig = "none" THEN @ ELSE sig,
                    !.digest = IF @ = "none" THEN digest ELSE @]
    /\ UNCHANGED <<dir, answers, event, reports>>

(***************************************************************************)
(* chainEvents.record.                                                     *)
(***************************************************************************)
NoEvent == [status |-> "none", slot |-> 0, time |-> 0]

Recorded(r) == [event EXCEPT !.status = IF r.status = "finalized" THEN "finalized" ELSE @,
                             !.time = IF @ = 0 THEN r.time ELSE @]

record(r) ==
    /\ calls < MaxCalls /\ calls' = calls + 1
    /\ event' = IF event = NoEvent THEN r ELSE Recorded(r)
    /\ reports' = reports \cup {r}
    /\ UNCHANGED <<dir, intent, answers>>

Reports == [status : {"confirmed", "finalized", "failed", "dropped"},
            slot : {5, 6}, time : {0, 1, 2}]

-----------------------------------------------------------------------------
Init == /\ rows \in [1..(MaxRows - 1) -> [key : Keys, status : Statuses]]
        /\ walk = NewWalk
        /\ intent = Absent /\ answers = {}
        /\ event = NoEvent /\ reports = {} /\ calls = 0

Next ==
    \/ "directory" \in Parts /\
         \/ list
         \/ \E k \in Keys, s \in Statuses : upsertNew(k, s)
         \/ \E o \in DOMAIN rows, k \in Keys, s \in Statuses : upsertChange(o, k, s)
    \/ "intents" \in Parts /\
         \/ \E params \in {"p", "q"}, digest \in {"none", "d", "e"} : create(params, digest)
         \/ \E status \in {"submitted", "confirmed"}, sig \in {"none", "s", "t"},
               digest \in {"none", "d", "e"} : progress(status, sig, digest)
    \/ "events" \in Parts /\ \E r \in Reports : record(r)

Spec == Init /\ [][Next]_vars

-----------------------------------------------------------------------------

Times(o) == Cardinality({i \in DOMAIN walk.listed : walk.listed[i] = o})

\* A walk of the directory that has ended lists exactly once every campaign
\* that was there at its first page and was not changed since, whatever was
\* added or changed meanwhile, as long as no row a cursor names was changed.
WalkComplete ==
    walk.at = "done" /\ walk.anchors \cap walk.touched = {} =>
        \A o \in walk.start \ walk.touched :
            IF Match(o) THEN Times(o) = 1 ELSE Times(o) = 0

\* In the newest-first order not even changed rows appear twice, and the
\* order is strictly descending over all pages.
NewestOnce ==
    Sort = "newest" =>
        \A i, j \in DOMAIN walk.listed : i < j => walk.listed[i] > walk.listed[j]

\* Every caller that create answered got an intent with the parameters it
\* asked for and, if it approved a message, with no other message; and the
\* row still has those parameters and that message.
IntentStable ==
    \A a \in answers :
        /\ a.got.params = a.asked /\ intent.params = a.asked
        /\ a.digest # "none" /\ a.got.digest # "none" =>
              a.got.digest = a.digest /\ intent.digest = a.got.digest

\* An event that some observer saw finalized stays finalized whatever is
\* reported later or arrived before, and its slot and first known time are
\* not rewritten.
EventsMonotone ==
    /\ (\E r \in reports : r.status = "finalized") => event.status = "finalized"
    /\ event # NoEvent => /\ \E r \in reports : r.slot = event.slot
                          /\ event.time = 0 => \A r \in reports : r.time = 0
EventTimeOnce == event.time # 0 => event'.time = event.time
=============================================================================
