----------------------------- MODULE Admission -----------------------------
(***************************************************************************)
(* localnet/registry/admission.mjs: token buckets shared by every replica  *)
(* of every service in front of one upstream.  A resource has one policy,  *)
(* the first one stored; each of its lanes is a bucket of its own, refilled*)
(* by the elapsed milliseconds of the clock and capped at the lane's burst.*)
(* The clock may stand still or step back.  Micro-tokens per token (MICRO) *)
(* and the rates are scaled down; every formula keeps its rounding.        *)
(***************************************************************************)
EXTENDS Integers, Sequences, FiniteSets, FiniteSetsExt, SequencesExt

CONSTANTS Micro,      \* micro-tokens in a token
          MaxTime,    \* last instant of the clock
          MaxCalls    \* consume calls that reach the store

Lanes == {"reads", "sends"}
Limit(r, b) == [rate |-> r, burst |-> b]
\* Two services configured alike, one configured with other shares, and one
\* whose lanes together exceed what the upstream allows.
Offered == {[rate |-> 3, burst |-> 3, lanes |-> [reads |-> Limit(2, 2), sends |-> Limit(1, 1)]],
            [rate |-> 3, burst |-> 3, lanes |-> [reads |-> Limit(1, 1), sends |-> Limit(2, 2)]],
            [rate |-> 3, burst |-> 3, lanes |-> [reads |-> Limit(2, 2), sends |-> Limit(2, 1)]]}

VARIABLES clock, policy, bucket, log, denied, calls
vars == <<clock, policy, bucket, log, denied, calls>>

NoPolicy == [rate |-> 0, burst |-> 0, lanes |-> [l \in Lanes |-> Limit(0, 0)]]
NoBucket == [tokens |-> -1, updated |-> -1]
NoDenial == [cost |-> 0, from |-> 0, due |-> 0]

-----------------------------------------------------------------------------
Total(f) == f["reads"] + f["sends"]
validateAdmissionPolicy(p) ==
    /\ Total([l \in Lanes |-> p.lanes[l].rate]) <= p.rate
    /\ Total([l \in Lanes |-> p.lanes[l].burst]) <= p.burst

\* The bucket's clock never goes back, so no interval is refilled twice.
previous(b, now) == IF b = NoBucket THEN now ELSE b.updated

at(b, now) == Max({now, previous(b, now)})

tokens(b, limit, now) ==
    Min({limit.burst * Micro, (IF b = NoBucket THEN limit.burst * Micro ELSE b.tokens)
                                + (at(b, now) - previous(b, now)) * limit.rate})

retryAfterEarly(b, limit, needed, now) ==
    (needed - tokens(b, limit, now) + limit.rate - 1) \div limit.rate
retryAfter(b, limit, needed, now) ==
    (needed - tokens(b, limit, now) + limit.rate - 1) \div limit.rate
        + Max({0, previous(b, now) - now})

admissionDecision(b, limit, cost, now) ==
    LET have    == tokens(b, limit, now)
        needed  == cost * Micro
        allowed == have >= needed
    IN [tokens |-> IF allowed THEN have - needed ELSE have, updated |-> at(b, now),
        allowed |-> allowed,
        retry |-> IF allowed THEN 0 ELSE retryAfter(b, limit, needed, now)]

\* inputOf: a valid policy, and a cost the lane can ever hold.
inputOf(p, lane, cost) ==
    /\ validateAdmissionPolicy(p)
    /\ cost \in 1..p.lanes[lane].burst

assertPolicy(p) == /\ policy \in {NoPolicy, p}
                   /\ policy' = p

consume(p, lane, cost) ==
    LET d == admissionDecision(bucket[lane], p.lanes[lane], cost, clock) IN
    /\ calls < MaxCalls /\ calls' = calls + 1
    /\ inputOf(p, lane, cost)
    /\ assertPolicy(p)
    /\ bucket' = [bucket EXCEPT ![lane] = [tokens |-> d.tokens, updated |-> d.updated]]
    /\ log' = IF d.allowed THEN Append(log, [lane |-> lane, cost |-> cost, at |-> d.updated])
              ELSE log
    \* The newest refusal of the lane, while no one else was admitted since.
    /\ denied' = [denied EXCEPT ![lane] = IF d.allowed THEN NoDenial
                                          ELSE [cost |-> cost, from |-> clock,
                                                due |-> clock + d.retry]]
    /\ UNCHANGED clock

\* The database clock: NTP may step it back.
Clock == /\ \E t \in 0..MaxTime : t # clock /\ t >= clock - 1 /\ clock' = t
         /\ UNCHANGED <<policy, bucket, log, denied, calls>>

Init == /\ clock \in 0..1 /\ policy = NoPolicy /\ log = <<>> /\ calls = 0
        /\ bucket = [l \in Lanes |-> NoBucket]
        /\ denied = [l \in Lanes |-> NoDenial]
Next == Clock \/ \E p \in Offered, l \in Lanes, c \in 1..2 : consume(p, l, c)
Spec == Init /\ [][Next]_vars

-----------------------------------------------------------------------------

\* What was admitted from the i-th to the j-th grant, over a set of lanes.
Spent(i, j, ls) == FoldFunction(LAMBDA x, y : x + y, 0,
                     [k \in i..j |-> IF log[k].lane \in ls THEN log[k].cost ELSE 0])

\* Over any stretch of time the grants of a lane stay within its burst plus
\* its rate, and those of all lanes within the upstream's, whichever service
\* asked, however it is configured and whatever the clock did between.
WithinRate ==
    \A i, j \in DOMAIN log : i <= j =>
        LET first == Min({log[k].at : k \in i..j})
            last  == Max({log[k].at : k \in i..j})
        IN /\ \A l \in Lanes : Spent(i, j, {l}) * Micro
                 <= policy.lanes[l].burst * Micro + policy.lanes[l].rate * (last - first)
           /\ Spent(i, j, Lanes) * Micro <= policy.burst * Micro + policy.rate * (last - first)

\* A refused caller that waits as long as it was told is admitted if nobody
\* else used its lane, and not a millisecond earlier.
RetryExact ==
    \A l \in Lanes : denied[l] # NoDenial =>
        admissionDecision(bucket[l], policy.lanes[l], denied[l].cost, clock).allowed
            <=> clock >= denied[l].due
=============================================================================
