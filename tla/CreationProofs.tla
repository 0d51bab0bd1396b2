--------------------------- MODULE CreationProofs ---------------------------
(***************************************************************************)
(* The money and the terms of a creation.  First the operating reserve,    *)
(* for any number of concurrent requests and attempts: ReserveInv is       *)
(* inductive, hence the reserve is paid and credited once.  Then, by       *)
(* instance, the quotes and their acceptance (CreationQuotes), for any     *)
(* number of tabs, drafts' revisions and request keys.                     *)
(***************************************************************************)
EXTENDS OperatingReserve, Sequences, FiniteSetTheorems, TLAPS

\* Time limits of the provers for every leaf.
USE SMTT(30), ZenonT(20)

\* Assumed of the constants: amounts and bounds are numbers, one attempt is allowed.
ReserveConstants == Lamports \in Nat /\ MaxAttempts \in Nat \ {0}

\* Rows 1 to n and no others: n rows.
LEMMA CountIs ==
  ASSUME ReserveConstants, NEW n \in 0 .. MaxAttempts,
         \A k \in Attempts : (status[k] # "none") <=> k <= n
  PROVE  Count = n
<1>1. {k \in Attempts : status[k] # "none"} = 1 .. n
  BY DEF Attempts, ReserveConstants
<1>2. 1 \in Int /\ n \in Int BY DEF ReserveConstants
<1>3. Cardinality(1 .. n) = IF 1 > n THEN 0 ELSE n - 1 + 1 BY Zenon, <1>2, FS_Interval
<1>4. Cardinality(1 .. n) = n BY <1>3, <1>2 DEF ReserveConstants
<1> QED BY Zenon, <1>1, <1>4 DEF Count

\* The same for the next state.
LEMMA NextCountIs ==
  ASSUME ReserveConstants, NEW n \in 0 .. MaxAttempts,
         \A k \in Attempts : (status'[k] # "none") <=> k <= n
  PROVE  Count' = n
<1>1. {k \in Attempts : status'[k] # "none"} = 1 .. n
  BY DEF Attempts, ReserveConstants
<1>2. 1 \in Int /\ n \in Int BY DEF ReserveConstants
<1>3. Cardinality(1 .. n) = IF 1 > n THEN 0 ELSE n - 1 + 1 BY Zenon, <1>2, FS_Interval
<1>4. Cardinality(1 .. n) = n BY <1>3, <1>2 DEF ReserveConstants
<1> QED BY Zenon, <1>1, <1>4 DEF Count, Attempts

\* A row changes its status without appearing or going, and an older row stays settled.
LEMMA RowMoves ==
  ASSUME ReserveConstants, Types, Gapless, status' \in [Attempts -> Statuses],
         \A k \in Attempts : \/ status'[k] = status[k]
                             \/ status[k] \notin {"none"} \cup Settled /\ status'[k] # "none"
  PROVE  Gapless' /\ Count' = Count
<1>1. PICK n \in 0 .. MaxAttempts : n = Count BY Zenon DEF Gapless
<1>2. \A k \in Attempts : (status'[k] # "none") <=> k <= n BY Zenon, <1>1 DEF Gapless
<1>3. Count' = n BY Zenon, <1>2, NextCountIs
<1>4. \A k \in Attempts : k < n => status'[k] \in Settled BY Zenon, <1>1 DEF Gapless
<1> QED BY Zenon, <1>1, <1>2, <1>3, <1>4 DEF Gapless, Attempts

\* A row is added after a settled newest one.
LEMMA RowAdded ==
  ASSUME ReserveConstants, Types, Gapless, Latest \in {"none"} \cup Settled,
         Count + 1 \in Attempts, status' = [status EXCEPT ![Count + 1] = "prepared"]
  PROVE  Gapless' /\ Count' = Count + 1 /\ status[Count + 1] = "none"
<1>1. PICK n \in 0 .. MaxAttempts : n = Count BY Zenon DEF Gapless
<1>2. n \in Nat /\ n + 1 \in Attempts /\ n + 1 \in 0 .. MaxAttempts
  BY <1>1 DEF Attempts, ReserveConstants
<1>3. status' = [status EXCEPT ![n + 1] = "prepared"] BY Zenon, <1>1
<1>4. \A k \in Attempts : status'[k] = IF k = n + 1 THEN "prepared" ELSE status[k]
  BY Zenon, <1>3 DEF Types
<1>5. \A k \in Attempts : (k <= n + 1) <=> (k = n + 1 \/ k <= n)
  BY <1>2 DEF Attempts, ReserveConstants
<1>6. \A k \in Attempts : (status[k] # "none") <=> k <= n BY Zenon, <1>1 DEF Gapless
<1>7. \A k \in Attempts : (status'[k] # "none") <=> k <= n + 1
  <2> SUFFICES ASSUME NEW k \in Attempts PROVE (status'[k] # "none") <=> k <= n + 1
    OBVIOUS
  <2>1. CASE k = n + 1 BY <2>1, <1>4, <1>2
  <2>2. CASE k # n + 1 BY Zenon, <2>2, <1>4, <1>5, <1>6
  <2> QED BY Zenon, <2>1, <2>2
<1>8. Count' = n + 1 BY Zenon, <1>2, <1>7, NextCountIs
<1>9. status[n + 1] = "none" BY <1>2, <1>6
<1>10. \A k \in Attempts : k < n + 1 => status'[k] \in Settled
  <2> SUFFICES ASSUME NEW k \in Attempts, k < n + 1 PROVE status'[k] \in Settled
    OBVIOUS
  <2>1. k # n + 1 /\ (k < n \/ k = n) BY <1>2 DEF Attempts, ReserveConstants
  <2>2. CASE k < n BY Zenon, <2>1, <2>2, <1>1, <1>4 DEF Gapless
  <2>3. CASE k = n
    <3>1. n # 0 /\ n <= n BY <2>3 DEF Attempts, ReserveConstants
    <3>2. status[n] # "none" BY Zenon, <2>3, <3>1, <1>6
    <3>3. Latest = status[n] BY Zenon, <3>1, <1>1 DEF Latest
    <3> QED BY Zenon, <2>1, <2>3, <3>2, <3>3, <1>4
  <2> QED BY Zenon, <2>1, <2>2, <2>3
<1> QED BY Zenon, <1>1, <1>2, <1>7, <1>8, <1>9, <1>10 DEF Gapless, Attempts

\* Steps that only move one request.
LEMMA LocalStep ==
  ASSUME ReserveInv, NEW r \in Requests, NEW l \in Locals, request' = [request EXCEPT ![r] = l],
         UNCHANGED <<oneTransaction, journal, budget, receipts, chain, late>>,
         offered' \subseteq Attempts, Knows(r)'
  PROVE  ReserveInv'
<1>1. Types' BY Zenon DEF ReserveInv, Types, journal, Attempts
<1>2. Gapless' /\ OneRow' /\ CreditedExactlyOnce' /\ CreditedIsInBudget' /\ \A k \in Attempts : RowTrue(k)'
  BY Zenon DEF ReserveInv, Gapless, Count, OneRow, CreditedExactlyOnce, CreditedIsInBudget, RowTrue, journal
<1>3. \A q \in Requests : Knows(q)'
  <2> SUFFICES ASSUME NEW q \in Requests, q # r PROVE Knows(q)'
    BY Zenon
  <2>1. request'[q] = request[q] BY Zenon DEF ReserveInv, Types
  <2>2. Knows(q) BY Zenon DEF ReserveInv
  <2>3. \A p : At(q, p)' <=> At(q, p) BY Zenon, <2>1 DEF At
  <2>4. Row(q)' = Row(q) /\ status' = status BY Zenon, <2>1 DEF Row, journal
  <2>5. Wallet(q)' BY Zenon, <2>2, <2>3 DEF Knows, Wallet
  <2> QED BY <2>1, <2>2, <2>3, <2>4, <2>5 DEF Knows
<1> QED BY Zenon, <1>1, <1>2, <1>3 DEF ReserveInv, Attempts

\* Where a request is after a step that names its locals.
LEMMA Placed ==
  ASSUME Types, NEW r \in Requests, NEW l, NEW here, l.at = here, request' = [request EXCEPT ![r] = l]
  PROVE  request'[r] = l /\ (\A p : At(r, p)' <=> p = here) /\ Row(r)' = l.row
<1>1. request'[r] = l BY Zenon DEF Types
<1>2. Row(r)' = l.row BY Zenon, <1>1 DEF Row
<1>3. \A p : At(r, p)' <=> p = here BY <1>1 DEF At
<1> QED BY Zenon, <1>1, <1>2, <1>3

\* A request moves on and keeps what it read.
LEMMA GotoIs ==
  ASSUME Types, NEW r \in Requests, NEW p \in Places, Goto(r, p)
  PROVE  \E l \in Locals : /\ request' = [request EXCEPT ![r] = l]
                           /\ l.at = p /\ l.row = Row(r) /\ l.st = request[r].st /\ l.to = request[r].to
<1> DEFINE l == [request[r] EXCEPT !.at = p]
<1>1. request[r] \in Locals BY Zenon DEF Types
<1>2. l \in Locals BY Zenon, <1>1 DEF Locals
<1>3. l.at = p /\ l.row = Row(r) /\ l.st = request[r].st /\ l.to = request[r].to
  BY <1>1 DEF Locals, Row
<1>4. request' = [request EXCEPT ![r] = l] BY DEF Goto
<1> QED BY Zenon, <1>2, <1>3, <1>4

\* A request that is not running.
LEMMA IdleIs == ASSUME ReserveConstants PROVE Idle \in Locals /\ Idle.at = "idle"
  BY DEF Idle, Locals, Places, Statuses, ReserveConstants

\* A request that returns knows nothing.
LEMMA IdleKnows ==
  ASSUME ReserveConstants, Types, NEW r \in Requests, Return(r)
  PROVE  Knows(r)' /\ \E l \in Locals : request' = [request EXCEPT ![r] = l]
<1>1. Idle \in Locals /\ Idle.at = "idle" BY Zenon, IdleIs
<1>2. request' = [request EXCEPT ![r] = Idle] BY Zenon DEF Return
<1>3. \A p : At(r, p)' <=> p = "idle" BY Zenon, <1>1, <1>2, Placed
<1>4. Wallet(r)' BY <1>3 DEF Wallet
<1>5. Knows(r)' BY <1>3, <1>4 DEF Knows
<1> QED BY Zenon, <1>1, <1>2, <1>5

\* Rows, chain and receipts only go on, so what a waiting request knows stays true.
Sent == {"signed", "confirmed", "finalized", "failed"}
Onward(k) ==
  /\ status[k] \in Sent => status'[k] \in Sent \/ (status'[k] = "expired" /\ late'[k])
  /\ status[k] = "expired" => status'[k] = "expired"
  /\ late[k] => late'[k]
  /\ late[k] /\ chain[k] = "none" => chain'[k] = "none"
  /\ chain[k] = "failed" => chain'[k] = "failed"

\* What a request read before an await stays true while rows only go onward.
LEMMA KnowsKept ==
  ASSUME ReserveInv, NEW q \in Requests, request'[q] = request[q], UNCHANGED oneTransaction,
         receipts \subseteq receipts', \A k \in Attempts : Onward(k)
  PROVE  Knows(q)'
<1>1. Knows(q) BY Zenon DEF ReserveInv
<1>2. \A p : At(q, p)' <=> At(q, p) BY Zenon DEF At
<1>3. Row(q)' = Row(q) BY Zenon DEF Row
<1>4. Wallet(q)' BY Zenon, <1>1, <1>2 DEF Knows, Wallet
<1>5. CASE At(q, "idle") \/ At(q, "insert")
  <2>1. /\ ~At(q, "validity") /\ ~At(q, "expire") /\ ~At(q, "sign") /\ ~At(q, "status")
        /\ ~At(q, "progress") /\ ~At(q, "creation") /\ ~At(q, "journal")
    BY <1>5 DEF At
  <2> QED BY Zenon, <1>2, <1>4, <1>5, <2>1 DEF Knows
<1>6. CASE Row(q) \in Attempts
  <2>1. Onward(Row(q)) BY Zenon, <1>6
  <2> QED BY <1>1, <1>2, <1>3, <1>4, <1>6, <2>1 DEF Knows, Onward, Sent, Attempts
<1> QED BY Zenon, <1>1, <1>5, <1>6 DEF Knows

\* A step of one request keeps what the others know.
LEMMA OneMoves ==
  ASSUME ReserveInv, NEW r \in Requests, NEW l \in Locals, request' = [request EXCEPT ![r] = l],
         UNCHANGED oneTransaction, receipts \subseteq receipts', \A k \in Attempts : Onward(k),
         Knows(r)'
  PROVE  request' \in [Requests -> Locals] /\ \A q \in Requests : Knows(q)'
<1>1. request' \in [Requests -> Locals] BY Zenon DEF ReserveInv, Types
<1>2. ASSUME NEW q \in Requests, q # r PROVE Knows(q)'
  <2>1. request'[q] = request[q] BY Zenon, <1>2 DEF ReserveInv, Types
  <2> QED BY Zenon, <2>1, KnowsKept
<1> QED BY Zenon, <1>1, <1>2

\* A timeout, a refused proof or a restart ends the request (bounded).
LEMMA InterruptStep ==
  ASSUME ReserveConstants, ReserveInv, NEW r \in Requests, Interrupt(r)
  PROVE  ReserveInv'
<1>1. Types BY Zenon DEF ReserveInv
<1>2. Knows(r)' /\ \E l \in Locals : request' = [request EXCEPT ![r] = l]
  BY Zenon, <1>1, IdleKnows DEF Interrupt
<1>3. offered' \subseteq Attempts BY Zenon, <1>1 DEF Interrupt, Types
<1> QED BY Zenon, <1>2, <1>3, LocalStep DEF Interrupt

\* What an open newest row is.
LEMMA NewestRow ==
  ASSUME ReserveConstants, ReserveInv
  PROVE  /\ Count \in 0 .. MaxAttempts /\ Latest \in Statuses
         /\ Latest # "none" => Count \in Attempts /\ status[Count] = Latest
<1>1. PICK n \in 0 .. MaxAttempts : n = Count BY Zenon DEF ReserveInv, Gapless
<1>2. CASE n = 0 BY <1>1, <1>2 DEF Latest, Statuses
<1>3. CASE n # 0
  <2>1. n \in Attempts BY <1>3 DEF Attempts, ReserveConstants
  <2> QED BY Zenon, <1>1, <1>3, <2>1 DEF Latest, ReserveInv, Types
<1> QED BY Zenon, <1>2, <1>3

\* prepare: the newest row decides what is done next.
LEMMA PrepareStep ==
  ASSUME ReserveConstants, ReserveInv, NEW r \in Requests, Prepare(r)
  PROVE  ReserveInv'
<1>1. Types BY Zenon DEF ReserveInv
<1>2. offered' \subseteq Attempts BY Zenon, <1>1 DEF Prepare, Types
<1>3. ~oneTransaction' BY Zenon DEF Prepare
<1>4. PICK n \in 0 .. MaxAttempts : n = Count BY Zenon, NewestRow
<1>5. CASE Latest = "prepared" /\ Read(r, "validity", Count, "prepared")
  <2> DEFINE l == [at |-> "validity", row |-> n, st |-> "prepared", to |-> "none"]
  <2>1. l \in Locals /\ l.at = "validity" /\ l.row = n /\ l.st = "prepared"
    BY DEF Locals, Places, Statuses
  <2>2. request' = [request EXCEPT ![r] = l] BY Zenon, <1>4, <1>5 DEF Read
  <2> HIDE DEF l
  <2>3. n \in Attempts BY Zenon, <1>4, <1>5, NewestRow
  <2>4. request'[r] = l /\ (\A p : At(r, p)' <=> p = "validity") /\ Row(r)' = l.row
    <3>1. l.at = "validity" BY Zenon, <2>1
    <3> QED BY Zenon, <1>1, <2>2, <3>1, Placed
  <2>5. Wallet(r)' BY Zenon, <1>3 DEF Wallet
  <2>6. Knows(r)' BY <2>1, <2>3, <2>4, <2>5 DEF Knows, Attempts
  <2> QED BY Zenon, <1>2, <2>1, <2>2, <2>6, LocalStep DEF Prepare
<1>6. CASE Read(r, "insert", Count, Latest)
  <2> DEFINE l == [at |-> "insert", row |-> n, st |-> Latest, to |-> "none"]
  <2>0. Latest \in Statuses BY Zenon, NewestRow
  <2>1. l \in Locals /\ l.at = "insert" /\ l.row = n BY <2>0 DEF Locals, Places, Statuses
  <2>2. request' = [request EXCEPT ![r] = l] BY Zenon, <1>4, <1>6 DEF Read
  <2> HIDE DEF l
  <2>4. \A p : At(r, p)' <=> p = "insert"
    <3>1. l.at = "insert" /\ request' = [request EXCEPT ![r] = l] BY Zenon, <2>1, <2>2
    <3> QED BY Zenon, <1>1, <3>1, Placed
  <2>5. Wallet(r)' BY Zenon, <1>3 DEF Wallet
  <2>6. Knows(r)' BY <2>4, <2>5 DEF Knows
  <2> QED BY Zenon, <1>2, <2>1, <2>2, <2>6, LocalStep DEF Prepare
<1> QED BY Zenon, <1>5, <1>6 DEF Prepare

\* prepare: an offered packet that is still valid is shown again.
LEMMA CheckValidityStep ==
  ASSUME ReserveConstants, ReserveInv, NEW r \in Requests, CheckValidity(r)
  PROVE  ReserveInv'
<1>1. Types /\ Knows(r) BY Zenon DEF ReserveInv
<1>2. Row(r) \in Attempts /\ request[r].st = "prepared" /\ ~oneTransaction
  BY <1>1 DEF CheckValidity, Knows, Wallet, At
<1>3. CASE Return(r)
  <2>1. Knows(r)' /\ \E l \in Locals : request' = [request EXCEPT ![r] = l]
    BY Zenon, <1>1, <1>3, IdleKnows
  <2>2. offered' \subseteq Attempts BY Zenon, <1>1, <1>2 DEF CheckValidity, Types
  <2> QED BY Zenon, <2>1, <2>2, LocalStep DEF CheckValidity
<1>4. CASE Goto(r, "expire") /\ UNCHANGED offered
  <2>1. "expire" \in Places BY DEF Places
  <2>2. PICK l \in Locals : /\ request' = [request EXCEPT ![r] = l]
                            /\ l.at = "expire" /\ l.row = Row(r) /\ l.st = request[r].st
                            /\ l.to = request[r].to
    BY Zenon, <1>1, <1>4, <2>1, GotoIs
  <2>3. request'[r] = l /\ (\A p : At(r, p)' <=> p = "expire") /\ Row(r)' = Row(r)
    <3>1. l.at = "expire" /\ request' = [request EXCEPT ![r] = l] /\ l.row = Row(r) BY Zenon, <2>2
    <3> QED BY Zenon, <1>1, <3>1, Placed
  <2>4. ~oneTransaction' BY Zenon, <1>2 DEF CheckValidity
  <2>5. Wallet(r)' BY Zenon, <2>4 DEF Wallet
  <2>6. Knows(r)' BY <1>2, <2>2, <2>3, <2>5 DEF Knows, Attempts
  <2>7. offered' \subseteq Attempts BY Zenon, <1>1, <1>4 DEF Types
  <2> QED BY Zenon, <2>2, <2>6, <2>7, LocalStep DEF CheckValidity
<1> QED BY Zenon, <1>3, <1>4 DEF CheckValidity

\* The parts of the invariant that are about the journal and the chain.
LEMMA Assembled ==
  ASSUME ReserveInv, NEW r \in Requests, NEW l \in Locals, request' = [request EXCEPT ![r] = l],
         UNCHANGED <<oneTransaction, budget, receipts, late>>, offered' \subseteq Attempts,
         status' \in [Attempts -> Statuses], chain' \in [Attempts -> Executions],
         credited' \in [Attempts -> BOOLEAN], \A k \in Attempts : credited'[k] => k \in receipts,
         \A k \in receipts : chain'[k] = "finalized",
         Gapless', OneRow', \A k \in Attempts : RowTrue(k)' /\ Onward(k), Knows(r)'
  PROVE  ReserveInv'
<1>1. request' \in [Requests -> Locals] /\ \A q \in Requests : Knows(q)'
  BY Zenon, OneMoves
<1>2. Types' BY Zenon, <1>1 DEF ReserveInv, Types, Attempts
<1>3. CreditedExactlyOnce' /\ CreditedIsInBudget'
  BY Zenon DEF ReserveInv, CreditedExactlyOnce, CreditedIsInBudget, Attempts
<1> QED BY Zenon, <1>1, <1>2, <1>3 DEF ReserveInv, Attempts

\* A row moves by compare-and-set from the status that was read.
LEMMA MovedIs ==
  ASSUME Types, NEW r \in Requests, Row(r) \in Attempts, NEW to \in Statuses, status' = Moved(r, to)
  PROVE  /\ status' \in [Attempts -> Statuses]
         /\ \A k \in Attempts : k # Row(r) => status'[k] = status[k]
         /\ status[Row(r)] = request[r].st => status'[Row(r)] = to
         /\ status[Row(r)] # request[r].st => status' = status
<1>1. status' = [status EXCEPT ![Row(r)] = IF status[Row(r)] = request[r].st THEN to ELSE status[Row(r)]]
  BY Zenon DEF Moved
<1> DEFINE v == IF status[Row(r)] = request[r].st THEN to ELSE status[Row(r)]
<1>2. v \in Statuses BY Zenon DEF Types
<1>3. status' \in [Attempts -> Statuses] BY Zenon, <1>1, <1>2 DEF Types
<1>4. \A k \in Attempts : status'[k] = IF k = Row(r) THEN v ELSE status[k] BY Zenon, <1>1 DEF Types
<1>5. ASSUME status[Row(r)] # request[r].st PROVE status' = status
  BY <1>3, <1>4, <1>5 DEF Types
<1> QED BY Zenon, <1>3, <1>4, <1>5

\* prepare: an unsigned offer is expired once its validity is over at finality.
LEMMA ExpireOfferStep ==
  ASSUME ReserveConstants, ReserveInv, NEW r \in Requests, ExpireOffer(r)
  PROVE  ReserveInv'
<1>1. Types /\ Knows(r) /\ Gapless /\ OneRow BY Zenon DEF ReserveInv
<1>2. Row(r) \in Attempts /\ request[r].st = "prepared" /\ ~oneTransaction
  BY <1>1 DEF ExpireOffer, Knows, Wallet, At
<1>3. "expired" \in Statuses /\ "expired" # "none" /\ "prepared" \notin {"none"} \cup Settled
      /\ "prepared" \notin Sent /\ "prepared" # "expired"
  BY DEF Statuses, Settled, Sent
<1>4. /\ status' \in [Attempts -> Statuses]
      /\ \A k \in Attempts : k # Row(r) => status'[k] = status[k]
      /\ status[Row(r)] = "prepared" => status'[Row(r)] = "expired"
      /\ status[Row(r)] # "prepared" => status' = status
  BY Zenon, <1>1, <1>2, <1>3, MovedIs DEF ExpireOffer
<1>5. Gapless' BY Zenon, <1>1, <1>3, <1>4, RowMoves
<1>6. UNCHANGED <<oneTransaction, credited, offered, budget, receipts, chain, late>>
  BY Zenon DEF ExpireOffer
<1>7. ASSUME NEW k \in Attempts PROVE RowTrue(k)' /\ Onward(k)
  <2>1. RowTrue(k) BY Zenon DEF ReserveInv
  <2>2. CASE status'[k] = status[k]
    BY Zenon, <1>6, <2>1, <2>2 DEF RowTrue, Onward
  <2>3. CASE status[k] = "prepared" /\ status'[k] = "expired"
    <3>1. chain[k] = "none" BY <2>1, <2>3, <1>2 DEF RowTrue
    <3>2. RowTrue(k)' BY <1>6, <2>3, <3>1 DEF RowTrue
    <3>3. Onward(k) BY <1>6, <2>3, <3>1 DEF Onward, Sent
    <3> QED BY Zenon, <3>2, <3>3
  <2> QED BY Zenon, <1>4, <2>2, <2>3
<1>8. OneRow' BY Zenon, <1>2, <1>6 DEF OneRow
<1>9. /\ offered' \subseteq Attempts /\ chain' \in [Attempts -> Executions]
      /\ credited' \in [Attempts -> BOOLEAN] /\ \A k \in Attempts : credited'[k] => k \in receipts
      /\ \A k \in receipts : chain'[k] = "finalized"
  BY Zenon, <1>1, <1>6 DEF Types, ReserveInv, CreditedIsInBudget, CreditedExactlyOnce
<1>10. CASE Return(r)
  <2>1. Knows(r)' /\ \E l \in Locals : request' = [request EXCEPT ![r] = l]
    BY Zenon, <1>1, <1>10, IdleKnows
  <2> QED BY Zenon, <1>4, <1>5, <1>6, <1>7, <1>8, <1>9, <2>1, Assembled
<1>11. CASE Goto(r, "insert")
  <2>1. "insert" \in Places BY DEF Places
  <2>2. PICK l \in Locals : /\ request' = [request EXCEPT ![r] = l]
                            /\ l.at = "insert" /\ l.row = Row(r) /\ l.st = request[r].st
                            /\ l.to = request[r].to
    BY Zenon, <1>1, <1>11, <2>1, GotoIs
  <2>3. \A p : At(r, p)' <=> p = "insert"
    <3>1. l.at = "insert" /\ request' = [request EXCEPT ![r] = l] BY Zenon, <2>2
    <3> QED BY Zenon, <1>1, <3>1, Placed
  <2>4. Wallet(r)' BY Zenon, <1>2, <1>6 DEF Wallet
  <2>5. Knows(r)' BY <2>3, <2>4 DEF Knows
  <2> QED BY Zenon, <1>4, <1>5, <1>6, <1>7, <1>8, <1>9, <2>2, <2>5, Assembled
<1> QED BY Zenon, <1>10, <1>11 DEF ExpireOffer

\* prepare: a new attempt is journaled and shown.
LEMMA InsertStep ==
  ASSUME ReserveConstants, ReserveInv, NEW r \in Requests, Insert(r)
  PROVE  ReserveInv'
<1>1. Types /\ Knows(r) /\ Gapless /\ OneRow BY Zenon DEF ReserveInv
<1>2. ~oneTransaction BY <1>1 DEF Insert, Knows, Wallet, At
<1>3. Knows(r)' /\ \E l \in Locals : request' = [request EXCEPT ![r] = l]
  BY Zenon, <1>1, IdleKnows DEF Insert
<1>4. UNCHANGED <<oneTransaction, credited, budget, receipts, chain, late>> BY Zenon DEF Insert
<1>5. PICK n \in 0 .. MaxAttempts : n = Row(r) BY <1>1 DEF Types, Locals, Row
<1>6. /\ credited' \in [Attempts -> BOOLEAN] /\ chain' \in [Attempts -> Executions]
      /\ \A k \in Attempts : credited'[k] => k \in receipts
      /\ \A k \in receipts : chain'[k] = "finalized"
  BY Zenon, <1>1, <1>4 DEF Types, ReserveInv, CreditedIsInBudget, CreditedExactlyOnce
<1>7. OneRow' BY Zenon, <1>2, <1>4 DEF OneRow
<1>8. CASE n + 1 <= MaxAttempts /\ Count = n /\ Latest \in {"none"} \cup Settled
  <2>1. status' = [status EXCEPT ![n + 1] = "prepared"] /\ offered' = offered \cup {n + 1}
    BY Zenon, <1>5, <1>8 DEF Insert
  <2>2. n + 1 \in Attempts BY <1>8 DEF Attempts, ReserveConstants
  <2>3. Gapless' /\ status[n + 1] = "none" BY Zenon, <1>1, <1>8, <2>1, <2>2, RowAdded
  <2>4. "prepared" \in Statuses BY DEF Statuses
  <2>5. status' \in [Attempts -> Statuses] BY Zenon, <1>1, <2>1, <2>2, <2>4 DEF Types
  <2>6. offered' \subseteq Attempts BY Zenon, <1>1, <2>1, <2>2 DEF Types
  <2>7. ASSUME NEW k \in Attempts PROVE RowTrue(k)' /\ Onward(k)
    <3>1. RowTrue(k) BY Zenon DEF ReserveInv
    <3>2. CASE k # n + 1
      <4>1. status'[k] = status[k] BY Zenon, <1>1, <2>1, <3>2 DEF Types
      <4> QED BY Zenon, <1>4, <3>1, <4>1 DEF RowTrue, Onward
    <3>3. CASE k = n + 1
      <4>1. status'[k] = "prepared" /\ status[k] = "none"
        BY Zenon, <1>1, <2>1, <2>2, <2>3, <3>3 DEF Types
      <4>2. chain[k] = "none" BY <1>2, <3>1, <4>1 DEF RowTrue
      <4>3. RowTrue(k)' BY <1>4, <4>1, <4>2 DEF RowTrue
      <4>4. Onward(k) BY <1>4, <4>1, <4>2 DEF Onward, Sent
      <4> QED BY Zenon, <4>3, <4>4
    <3> QED BY Zenon, <3>2, <3>3
  <2> QED BY Zenon, <1>3, <1>4, <1>6, <1>7, <2>3, <2>5, <2>6, <2>7, Assembled
<1>9. CASE ~(n + 1 <= MaxAttempts /\ Count = n /\ Latest \in {"none"} \cup Settled)
  <2>1. /\ status' = status
        /\ offered' = IF Latest = "prepared" THEN offered \cup {Count} ELSE offered
    BY Zenon, <1>5, <1>9 DEF Insert
  <2>2. "prepared" # "none" BY DEF Settled
  <2>3. Latest = "prepared" => Count \in Attempts BY Zenon, <2>2, NewestRow
  <2>4. offered' \subseteq Attempts BY Zenon, <1>1, <2>1, <2>3 DEF Types
  <2> QED BY Zenon, <1>3, <1>4, <2>1, <2>4, LocalStep DEF journal
<1> QED BY Zenon, <1>8, <1>9

\* What sending a signed row does to the chain.
LEMMA BroadcastIs ==
  ASSUME Types, NEW k \in Attempts, Broadcast(k)
  PROVE  /\ chain' \in [Attempts -> Executions]
         /\ \A j \in Attempts :
              \/ chain'[j] = chain[j]
              \/ j = k /\ chain[k] = "none" /\ ~late[k] /\ chain'[k] \in {"landed", "broken"}
<1>1. CASE UNCHANGED chain BY Zenon, <1>1 DEF Types
<1>2. CASE UNCHANGED chain => FALSE
  <2>1. Broadcastable(k) /\ \E x \in {"landed", "broken"} : chain' = [chain EXCEPT ![k] = x]
    BY Zenon, <1>2 DEF Broadcast
  <2>2. PICK x \in {"landed", "broken"} : chain' = [chain EXCEPT ![k] = x] BY Zenon, <2>1
  <2>3. x \in Executions BY DEF Executions
  <2>4. chain' \in [Attempts -> Executions] BY Zenon, <2>2, <2>3 DEF Types
  <2>5. \A j \in Attempts : chain'[j] = IF j = k THEN x ELSE chain[j] BY Zenon, <2>2 DEF Types
  <2> QED BY Zenon, <2>1, <2>4, <2>5 DEF Broadcastable
<1> QED BY Zenon, <1>1, <1>2

\* A packet goes out again: its row is signed, or it can no longer execute.
LEMMA SentAgain ==
  ASSUME ReserveInv, NEW k \in Attempts, Broadcast(k),
         status[k] \in Sent \/ (status[k] = "expired" /\ late[k]),
         UNCHANGED <<oneTransaction, journal, offered, budget, receipts, late>>
  PROVE  /\ chain' \in [Attempts -> Executions] /\ \A j \in Attempts : RowTrue(j)' /\ Onward(j)
         /\ \A j \in receipts : chain'[j] = "finalized"
         /\ (oneTransaction => 1 \in Attempts) => OneRow'
<1>1. Types BY Zenon DEF ReserveInv
<1>2. /\ chain' \in [Attempts -> Executions]
      /\ \A j \in Attempts :
           \/ chain'[j] = chain[j]
           \/ j = k /\ chain[k] = "none" /\ ~late[k] /\ chain'[k] \in {"landed", "broken"}
  BY Zenon, <1>1, BroadcastIs
<1>3. ASSUME NEW j \in Attempts PROVE RowTrue(j)' /\ Onward(j)
  <2>1. RowTrue(j) BY Zenon DEF ReserveInv
  <2>2. status' = status /\ late' = late /\ oneTransaction' = oneTransaction BY Zenon DEF journal
  <2>3. CASE chain'[j] = chain[j]
    <3>1. RowTrue(j)' BY <2>1, <2>2, <2>3 DEF RowTrue
    <3>2. Onward(j) BY <2>2, <2>3 DEF Onward
    <3> QED BY Zenon, <3>1, <3>2
  <2>4. CASE j = k /\ chain[k] = "none" /\ ~late[k] /\ chain'[k] \in {"landed", "broken"}
    <3>1. status[k] \in {"signed", "confirmed", "finalized"} BY <2>1, <2>4 DEF RowTrue, Sent
    <3>2. RowTrue(j)' BY <2>2, <2>4, <3>1 DEF RowTrue
    <3>3. Onward(j) BY <2>2, <2>4, <3>1 DEF Onward, Sent
    <3> QED BY Zenon, <3>2, <3>3
  <2> QED BY Zenon, <1>2, <2>3, <2>4
<1>4. ASSUME NEW j \in Attempts, chain[j] = "finalized" PROVE chain'[j] = "finalized"
  BY <1>2, <1>4
<1>5. \A j \in receipts : chain'[j] = "finalized"
  BY Zenon, <1>1, <1>4 DEF ReserveInv, Types, CreditedExactlyOnce
<1>6. (oneTransaction => 1 \in Attempts) => OneRow'
  BY Zenon, <1>4 DEF ReserveInv, OneRow, journal
<1> QED BY Zenon, <1>2, <1>3, <1>5, <1>6

\* There is a first row.
LEMMA FirstRow == ASSUME ReserveConstants PROVE 1 \in Attempts
  BY DEF Attempts, ReserveConstants

\* The rest of the invariant when the journal rests and a packet goes out.
LEMMA SentStep ==
  ASSUME ReserveConstants, ReserveInv, NEW k \in Attempts, Broadcast(k), NEW r \in Requests,
         NEW l \in Locals, request' = [request EXCEPT ![r] = l], Knows(r)',
         status[k] \in Sent \/ (status[k] = "expired" /\ late[k]),
         UNCHANGED <<oneTransaction, journal, offered, budget, receipts, late>>
  PROVE  ReserveInv'
<1>1. /\ chain' \in [Attempts -> Executions] /\ \A j \in Attempts : RowTrue(j)' /\ Onward(j)
      /\ \A j \in receipts : chain'[j] = "finalized"
  BY Zenon, SentAgain, FirstRow
<1>2. OneRow' BY Zenon, SentAgain, FirstRow
<1>3. /\ offered' \subseteq Attempts /\ status' \in [Attempts -> Statuses]
      /\ credited' \in [Attempts -> BOOLEAN] /\ \A j \in Attempts : credited'[j] => j \in receipts
  BY Zenon DEF ReserveInv, Types, journal, CreditedIsInBudget
<1>4. Gapless' BY Zenon DEF ReserveInv, Gapless, Count, journal
<1> QED BY Zenon, <1>1, <1>2, <1>3, <1>4, Assembled

\* submit: a packet the wallet signed is checked against its row.
LEMMA SubmitStep ==
  ASSUME ReserveConstants, ReserveInv, NEW r \in Requests, NEW k \in Attempts, Submit(r, k)
  PROVE  ReserveInv'
<1>1. Types BY Zenon DEF ReserveInv
<1>2. UNCHANGED <<oneTransaction, journal, offered, budget, receipts, late>> /\ ~oneTransaction
  BY Zenon DEF Submit
<1>3. CASE status[k] = "prepared" /\ Read(r, "sign", k, "prepared") /\ UNCHANGED chain
  <2> DEFINE l == [at |-> "sign", row |-> k, st |-> "prepared", to |-> "none"]
  <2>1. l \in Locals /\ l.at = "sign" /\ l.row = k /\ l.st = "prepared"
    BY DEF Locals, Places, Statuses, Attempts, ReserveConstants
  <2>2. request' = [request EXCEPT ![r] = l] BY Zenon, <1>3 DEF Read
  <2> HIDE DEF l
  <2>3. request'[r] = l /\ (\A p : At(r, p)' <=> p = "sign") /\ Row(r)' = l.row
    <3>1. l.at = "sign" BY Zenon, <2>1
    <3> QED BY Zenon, <1>1, <2>2, <3>1, Placed
  <2>4. Wallet(r)' BY Zenon, <1>2 DEF Wallet
  <2>5. Knows(r)' BY <2>1, <2>3, <2>4 DEF Knows, Attempts
  <2>6. offered' \subseteq Attempts BY Zenon, <1>1, <1>2 DEF Types
  <2> QED BY Zenon, <1>2, <1>3, <2>1, <2>2, <2>5, <2>6, LocalStep
<1>4. CASE status[k] \in {"signed", "confirmed", "finalized"} /\ Broadcast(k) /\ UNCHANGED request
  <2>1. request[r] \in Locals /\ request' = [request EXCEPT ![r] = request[r]]
    BY Zenon, <1>1, <1>4 DEF Types
  <2>2. status[k] \in Sent BY <1>4 DEF Sent
  <2>3. \A j \in Attempts : Onward(j) BY Zenon, <1>2, <1>4, <2>2, SentAgain
  <2>4. Knows(r)' BY Zenon, <1>2, <1>4, <2>3, KnowsKept
  <2> QED BY Zenon, <1>2, <1>4, <2>1, <2>2, <2>4, SentStep
<1> QED BY Zenon, <1>3, <1>4 DEF Submit

\* resume: a request takes up the newest row.
LEMMA ResumeStep ==
  ASSUME ReserveConstants, ReserveInv, NEW r \in Requests, Resume(r)
  PROVE  ReserveInv'
<1>1. Types BY Zenon DEF ReserveInv
<1>2. /\ UNCHANGED <<oneTransaction, journal, offered, budget, receipts, chain, late>>
      /\ ~oneTransaction /\ Latest \in {"signed", "confirmed"} /\ Read(r, "status", Count, Latest)
  BY Zenon DEF Resume
<1>3. Latest # "none" BY <1>2
<1>4. PICK n \in Attempts : n = Count /\ status[n] = Latest BY Zenon, <1>3, NewestRow
<1> DEFINE l == [at |-> "status", row |-> n, st |-> Latest, to |-> "none"]
<1>5. l \in Locals /\ l.at = "status" /\ l.row = n
  BY <1>2 DEF Locals, Places, Statuses, Attempts, ReserveConstants
<1>6. request' = [request EXCEPT ![r] = l] BY Zenon, <1>2, <1>4 DEF Read
<1> HIDE DEF l
<1>7. request'[r] = l /\ (\A p : At(r, p)' <=> p = "status") /\ Row(r)' = l.row
  <2>1. l.at = "status" BY Zenon, <1>5
  <2> QED BY Zenon, <1>1, <1>6, <2>1, Placed
<1>8. Wallet(r)' BY Zenon, <1>2 DEF Wallet
<1>9. status'[n] \in {"signed", "confirmed"} BY Zenon, <1>2, <1>4 DEF journal
<1>10. Knows(r)' BY <1>5, <1>7, <1>8, <1>9 DEF Knows, Attempts
<1>11. offered' \subseteq Attempts BY Zenon, <1>1, <1>2 DEF Types
<1> QED BY Zenon, <1>2, <1>5, <1>6, <1>10, <1>11, LocalStep

\* submit: the signature is kept before the packet is sent.
LEMMA SignStep ==
  ASSUME ReserveConstants, ReserveInv, NEW r \in Requests, Sign(r)
  PROVE  ReserveInv'
<1>1. Types /\ Knows(r) /\ Gapless /\ OneRow BY Zenon DEF ReserveInv
<1>2. Row(r) \in Attempts /\ request[r].st = "prepared" /\ ~oneTransaction
  BY <1>1 DEF Sign, Knows, Wallet, At
<1>3. "signed" \in Statuses /\ "signed" # "none" /\ "prepared" \notin {"none"} \cup Settled
  BY DEF Statuses, Settled
<1>4. /\ status' \in [Attempts -> Statuses]
      /\ \A k \in Attempts : k # Row(r) => status'[k] = status[k]
      /\ status[Row(r)] = "prepared" => status'[Row(r)] = "signed"
      /\ status[Row(r)] # "prepared" => status' = status
  BY Zenon, <1>1, <1>2, <1>3, MovedIs DEF Sign
<1>5. Gapless' BY Zenon, <1>1, <1>3, <1>4, RowMoves
<1>6. UNCHANGED <<oneTransaction, credited, offered, budget, receipts, late>> BY Zenon DEF Sign
<1>7. Knows(r)' /\ \E l \in Locals : request' = [request EXCEPT ![r] = l]
  BY Zenon, <1>1, IdleKnows DEF Sign
<1>8. CASE UNCHANGED chain /\ UNCHANGED status
  <2>1. UNCHANGED <<oneTransaction, journal, budget, receipts, chain, late>>
    BY Zenon, <1>6, <1>8 DEF journal
  <2>2. offered' \subseteq Attempts BY Zenon, <1>1, <1>6 DEF Types
  <2> QED BY Zenon, <1>7, <2>1, <2>2, LocalStep
<1>9. CASE /\ status'[Row(r)] = "signed" /\ Broadcast(Row(r))
           /\ status[Row(r)] \in {"prepared", "signed"}
  <2>1. /\ chain' \in [Attempts -> Executions]
        /\ \A j \in Attempts :
             \/ chain'[j] = chain[j]
             \/ j = Row(r) /\ chain[j] = "none" /\ ~late[j] /\ chain'[j] \in {"landed", "broken"}
    BY Zenon, <1>1, <1>2, <1>9, BroadcastIs
  <2>2. ASSUME NEW j \in Attempts PROVE RowTrue(j)' /\ Onward(j)
    <3>1. RowTrue(j) BY Zenon DEF ReserveInv
    <3>2. CASE j # Row(r)
      <4>1. status'[j] = status[j] /\ chain'[j] = chain[j] BY Zenon, <1>4, <2>1, <3>2
      <4>2. RowTrue(j)' BY Zenon, <1>6, <3>1, <4>1 DEF RowTrue
      <4>3. Onward(j) BY <1>6, <4>1 DEF Onward
      <4> QED BY Zenon, <4>2, <4>3
    <3>3. CASE j = Row(r)
      <4>1. status'[j] = "signed" /\ status[j] \in {"prepared", "signed"} BY Zenon, <1>9, <3>3
      <4>2. RowTrue(j)' BY <4>1 DEF RowTrue
      <4>3. Onward(j) BY <1>6, <2>1, <4>1 DEF Onward, Sent
      <4> QED BY Zenon, <4>2, <4>3
    <3> QED BY Zenon, <3>2, <3>3
  <2>3. \A j \in receipts : chain'[j] = "finalized"
    <3>1. \A j \in receipts : j \in Attempts /\ chain[j] = "finalized"
      BY Zenon, <1>1 DEF ReserveInv, Types, CreditedExactlyOnce
    <3> QED BY <2>1, <3>1
  <2>4. OneRow' BY Zenon, <1>2, <1>6 DEF OneRow
  <2>5. /\ offered' \subseteq Attempts /\ credited' \in [Attempts -> BOOLEAN]
        /\ \A j \in Attempts : credited'[j] => j \in receipts
    BY Zenon, <1>1, <1>6 DEF Types, ReserveInv, CreditedIsInBudget
  <2> QED BY Zenon, <1>4, <1>5, <1>6, <1>7, <2>1, <2>2, <2>3, <2>4, <2>5, Assembled
<1>10. \/ status'[Row(r)] = "signed" /\ Broadcast(Row(r))
       \/ status'[Row(r)] # "signed" /\ UNCHANGED chain
  BY Zenon DEF Sign
<1>11. status'[Row(r)] # "signed" => UNCHANGED status BY Zenon, <1>4
<1>12. status'[Row(r)] = "signed" => status[Row(r)] \in {"prepared", "signed"} BY <1>4
<1> QED BY Zenon, <1>8, <1>9, <1>10, <1>11, <1>12

\* packetStatus: the row moves if it still has the status that was read.
LEMMA ProgressStep ==
  ASSUME ReserveConstants, ReserveInv, NEW r \in Requests, Progress(r)
  PROVE  ReserveInv'
<1>1. Types /\ Knows(r) /\ Gapless /\ OneRow BY Zenon DEF ReserveInv
<1> DEFINE to == request[r].to
<1>2. /\ Row(r) \in Attempts /\ request[r].st = "signed" /\ ~oneTransaction
      /\ to \in {"expired", "failed", "confirmed"}
      /\ to = "expired" => chain[Row(r)] = "none" /\ late[Row(r)]
      /\ to = "failed" => chain[Row(r)] = "failed"
  BY <1>1 DEF Progress, Knows, Wallet, At
<1>3. to \in Statuses /\ to # "none" /\ "signed" \notin {"none"} \cup Settled
  BY <1>2 DEF Statuses, Settled
<1>4. /\ status' \in [Attempts -> Statuses]
      /\ \A k \in Attempts : k # Row(r) => status'[k] = status[k]
      /\ status[Row(r)] = "signed" => status'[Row(r)] = to
      /\ status[Row(r)] # "signed" => status' = status
  <2> HIDE DEF to
  <2>1. status' = Moved(r, to) BY Zenon DEF Progress, to
  <2> QED BY Zenon, <1>1, <1>2, <1>3, <2>1, MovedIs
<1> HIDE DEF to
<1>5. Gapless' BY Zenon, <1>1, <1>3, <1>4, RowMoves
<1>6. UNCHANGED <<oneTransaction, credited, offered, budget, receipts, chain, late>>
  BY Zenon DEF Progress
<1>7. Knows(r)' /\ \E l \in Locals : request' = [request EXCEPT ![r] = l]
  BY Zenon, <1>1, IdleKnows DEF Progress
<1>8. ASSUME NEW k \in Attempts PROVE RowTrue(k)' /\ Onward(k)
  <2>1. RowTrue(k) BY Zenon DEF ReserveInv
  <2>2. CASE status'[k] = status[k]
    <3>1. RowTrue(k)' BY Zenon, <1>6, <2>1, <2>2 DEF RowTrue
    <3>2. Onward(k) BY <1>6, <2>2 DEF Onward
    <3> QED BY Zenon, <3>1, <3>2
  <2>3. CASE k = Row(r) /\ status[k] = "signed" /\ status'[k] = to
    <3>1. RowTrue(k)' BY <1>2, <1>6, <2>1, <2>3 DEF RowTrue
    <3>2. Onward(k) BY <1>2, <1>6, <2>3 DEF Onward, Sent
    <3> QED BY Zenon, <3>1, <3>2
  <2> QED BY Zenon, <1>4, <2>2, <2>3
<1>9. OneRow' BY Zenon, <1>2, <1>6 DEF OneRow
<1>10. /\ offered' \subseteq Attempts /\ chain' \in [Attempts -> Executions]
       /\ credited' \in [Attempts -> BOOLEAN] /\ \A k \in Attempts : credited'[k] => k \in receipts
       /\ \A k \in receipts : chain'[k] = "finalized"
  BY Zenon, <1>1, <1>6 DEF Types, ReserveInv, CreditedIsInBudget, CreditedExactlyOnce
<1> QED BY Zenon, <1>4, <1>5, <1>6, <1>7, <1>8, <1>9, <1>10, Assembled

\* packetStatus: what the chain answers of the row.
LEMMA ReadStatusStep ==
  ASSUME ReserveConstants, ReserveInv, NEW r \in Requests, ReadStatus(r)
  PROVE  ReserveInv'
<1>1. Types /\ Knows(r) BY Zenon DEF ReserveInv
<1>2. /\ Row(r) \in Attempts /\ ~oneTransaction
      /\ status[Row(r)] \in Sent \/ (status[Row(r)] = "expired" /\ late[Row(r)])
  BY <1>1 DEF ReadStatus, Knows, Wallet, At, Sent
<1>3. UNCHANGED <<oneTransaction, journal, offered, budget, receipts, late>> BY Zenon DEF ReadStatus
<1>4. offered' \subseteq Attempts BY Zenon, <1>1, <1>3 DEF Types
<1>5. Wallet(r)' BY Zenon, <1>2, <1>3 DEF Wallet
<1>6. ASSUME NEW to \in {"expired", "failed", "confirmed"}, request[r].st = "signed", UNCHANGED chain,
             to = "expired" => chain[Row(r)] = "none" /\ late[Row(r)],
             to = "failed" => chain[Row(r)] = "failed",
             request' = [request EXCEPT ![r].at = "progress", ![r].to = to]
      PROVE  ReserveInv'
  <2> DEFINE l == [request[r] EXCEPT !.at = "progress", !.to = to]
  <2>1. request[r] \in Locals /\ "progress" \in Places /\ to \in Statuses
    BY <1>1 DEF Types, Places, Statuses
  <2>2. l \in Locals BY Zenon, <2>1 DEF Locals
  <2>3. l.at = "progress" /\ l.row = Row(r) /\ l.st = "signed" /\ l.to = to
    BY <1>6, <2>1 DEF Locals, Row
  <2>4. request' = [request EXCEPT ![r] = l] BY <1>1, <1>6 DEF Types
  <2> HIDE DEF l
  <2>5. request'[r] = l /\ (\A p : At(r, p)' <=> p = "progress") /\ Row(r)' = l.row
    <3>1. l.at = "progress" BY Zenon, <2>3
    <3> QED BY Zenon, <1>1, <2>4, <3>1, Placed
  <2>6. Knows(r)' BY <1>2, <1>3, <1>5, <1>6, <2>3, <2>5 DEF Knows, Attempts
  <2> QED BY Zenon, <1>3, <1>4, <1>6, <2>2, <2>4, <2>6, LocalStep
<1>7. CASE Goto(r, "credit") /\ UNCHANGED chain
  <2>1. "credit" \in Places BY DEF Places
  <2>2. PICK l \in Locals : /\ request' = [request EXCEPT ![r] = l]
                            /\ l.at = "credit" /\ l.row = Row(r) /\ l.st = request[r].st
                            /\ l.to = request[r].to
    BY Zenon, <1>1, <1>7, <2>1, GotoIs
  <2>3. request'[r] = l /\ (\A p : At(r, p)' <=> p = "credit") /\ Row(r)' = l.row
    <3>1. l.at = "credit" /\ request' = [request EXCEPT ![r] = l] BY Zenon, <2>2
    <3> QED BY Zenon, <1>1, <3>1, Placed
  <2>4. Knows(r)' BY <1>2, <1>5, <2>2, <2>3 DEF Knows, Attempts
  <2> QED BY Zenon, <1>3, <1>4, <1>7, <2>2, <2>4, LocalStep
<1>8. CASE Return(r) /\ Broadcast(Row(r))
  <2>1. Knows(r)' /\ \E l \in Locals : request' = [request EXCEPT ![r] = l]
    BY Zenon, <1>1, <1>8, IdleKnows
  <2> QED BY Zenon, <1>2, <1>3, <1>8, <2>1, SentStep
<1>9. CASE /\ chain[Row(r)] \in {"failed"} \/ (chain[Row(r)] = "none" /\ late[Row(r)])
           /\ request[r].st = "signed"
           /\ request' = [request EXCEPT ![r].at = "progress",
                            ![r].to = IF chain[Row(r)] = "failed" THEN "failed" ELSE "expired"]
           /\ UNCHANGED chain
  <2>1. PICK to \in {"expired", "failed", "confirmed"} :
          to = IF chain[Row(r)] = "failed" THEN "failed" ELSE "expired"
    BY <1>9
  <2>2. /\ to = "expired" => chain[Row(r)] = "none" /\ late[Row(r)]
        /\ to = "failed" => chain[Row(r)] = "failed"
    BY <1>9, <2>1
  <2>3. request' = [request EXCEPT ![r].at = "progress", ![r].to = to] BY Zenon, <1>9, <2>1
  <2> QED BY Zenon, <1>6, <1>9, <2>2, <2>3
<1>10. CASE /\ request[r].st = "signed" /\ UNCHANGED chain
            /\ request' = [request EXCEPT ![r].at = "progress", ![r].to = "confirmed"]
  <2>1. "confirmed" \in {"expired", "failed", "confirmed"} /\ "confirmed" # "expired"
        /\ "confirmed" # "failed"
    OBVIOUS
  <2> QED BY Zenon, <1>6, <1>10, <2>1
<1> QED BY Zenon, <1>7, <1>8, <1>9, <1>10 DEF ReadStatus

\* A row moves and its packet rests.
LEMMA RowStep ==
  ASSUME ReserveInv, NEW r \in Requests, NEW l \in Locals, request' = [request EXCEPT ![r] = l],
         Knows(r)', Gapless', OneRow', status' \in [Attempts -> Statuses],
         \A k \in Attempts : \/ status'[k] = status[k]
                             \/ /\ status'[k] \in {"prepared", "signed", "finalized"}
                                /\ status[k] \in Sent => status'[k] \in Sent
                                /\ status[k] # "expired" /\ RowTrue(k)',
         credited' \in [Attempts -> BOOLEAN], \A k \in Attempts : credited'[k] => k \in receipts,
         UNCHANGED <<oneTransaction, offered, budget, receipts, chain, late>>
  PROVE  ReserveInv'
<1>1. ASSUME NEW k \in Attempts PROVE RowTrue(k)' /\ Onward(k)
  <2>1. RowTrue(k) BY Zenon DEF ReserveInv
  <2>2. CASE status'[k] = status[k]
    <3>1. RowTrue(k)' BY <2>1, <2>2 DEF RowTrue
    <3>2. Onward(k) BY <2>2 DEF Onward
    <3> QED BY Zenon, <3>1, <3>2
  <2>3. CASE /\ status'[k] \in {"prepared", "signed", "finalized"}
             /\ status[k] \in Sent => status'[k] \in Sent
             /\ status[k] # "expired" /\ RowTrue(k)'
    <3>1. Onward(k) BY <2>3 DEF Onward
    <3> QED BY Zenon, <2>3, <3>1
  <2> QED BY Zenon, <2>2, <2>3
<1>2. /\ offered' \subseteq Attempts /\ chain' \in [Attempts -> Executions]
      /\ \A k \in receipts : chain'[k] = "finalized"
  BY Zenon DEF Types, ReserveInv, CreditedExactlyOnce
<1> QED BY Zenon, <1>1, <1>2, Assembled

\* The row of the creation packet when it is read at "creation" or "credit".
LEMMA CreationRead ==
  ASSUME ReserveConstants, Types, NEW r \in Requests, NEW p \in {"creation", "credit"}, oneTransaction',
         status'[1] \in Statuses, Read(r, p, 1, status'[1])
  PROVE  Knows(r)' /\ \E l \in Locals : request' = [request EXCEPT ![r] = l]
<1> DEFINE l == [at |-> p, row |-> 1, st |-> status'[1], to |-> "none"]
<1>1. l \in Locals /\ l.at = p /\ l.row = 1
  BY DEF Locals, Places, Statuses, ReserveConstants
<1>2. request' = [request EXCEPT ![r] = l] BY Zenon DEF Read
<1> HIDE DEF l
<1>3. (\A x : At(r, x)' <=> x = p) /\ Row(r)' = l.row
  <2>1. l.at = p BY Zenon, <1>1
  <2> QED BY Zenon, <1>2, <2>1, Placed
<1>4. Row(r)' = 1 /\ 1 \in Attempts BY Zenon, <1>1, <1>3, FirstRow
<1>5. Wallet(r)' BY <1>3 DEF Wallet
<1>6. Knows(r)' BY <1>3, <1>4, <1>5 DEF Knows, Attempts
<1> QED BY Zenon, <1>1, <1>2, <1>6

\* creditFromCreation: the transfer of the creation packet gets the one row.
LEMMA CreationInsertStep ==
  ASSUME ReserveConstants, ReserveInv, NEW r \in Requests, CreationInsert(r)
  PROVE  ReserveInv'
<1>1. Types /\ Gapless /\ OneRow /\ 1 \in Attempts BY Zenon, FirstRow DEF ReserveInv
<1>2. /\ oneTransaction /\ Read(r, "creation", 1, status'[1])
      /\ UNCHANGED <<oneTransaction, credited, offered, budget, receipts, chain, late>>
      /\ status' = [status EXCEPT ![1] = IF status[1] = "none" THEN "prepared" ELSE status[1]]
  BY Zenon DEF CreationInsert
<1>3. "prepared" \in Statuses BY DEF Statuses
<1>4. status' \in [Attempts -> Statuses] BY Zenon, <1>1, <1>2, <1>3 DEF Types
<1>5. \A k \in Attempts : status'[k] = IF k = 1 /\ status[1] = "none" THEN "prepared" ELSE status[k]
  BY Zenon, <1>1, <1>2 DEF Types
<1>6. Knows(r)' /\ \E l \in Locals : request' = [request EXCEPT ![r] = l]
  <2>1. "creation" \in {"creation", "credit"} /\ oneTransaction' /\ status'[1] \in Statuses
    BY Zenon, <1>1, <1>2, <1>4
  <2> QED BY Zenon, <1>1, <1>2, <2>1, CreationRead
<1>7. Gapless'
  <2>1. CASE status[1] = "none"
    <3>1. PICK n \in 0 .. MaxAttempts : n = Count BY Zenon, <1>1 DEF Gapless
    <3>2. ~(1 <= n) BY Zenon, <1>1, <2>1, <3>1 DEF Gapless
    <3>3. n = 0 BY <3>2, <3>1 DEF ReserveConstants
    <3>4. Count + 1 = 1 BY <3>1, <3>3
    <3>5. Latest = "none" BY Zenon, <3>1, <3>3 DEF Latest
    <3>6. status' = [status EXCEPT ![1] = "prepared"] BY Zenon, <1>2, <2>1
    <3> QED BY Zenon, <1>1, <3>4, <3>5, <3>6, RowAdded
  <2>2. CASE status[1] # "none" BY Zenon, <1>1, <1>4, <1>5, <2>2, RowMoves
  <2> QED BY Zenon, <2>1, <2>2
<1>8. OneRow'
  <2>1. \A k \in Attempts : k > 1 => k # 1 BY DEF Attempts, ReserveConstants
  <2>2. "prepared" \notin Settled BY DEF Settled
  <2> QED BY Zenon, <1>1, <1>2, <1>5, <2>1, <2>2 DEF OneRow
<1>9. ASSUME NEW k \in Attempts, status'[k] # status[k]
      PROVE  /\ status'[k] \in {"prepared", "signed", "finalized"} /\ status[k] \in Sent => status'[k] \in Sent
             /\ status[k] # "expired" /\ RowTrue(k)'
  <2>1. k = 1 /\ status[k] = "none" /\ status'[k] = "prepared" BY Zenon, <1>5, <1>9
  <2> QED BY <1>2, <2>1 DEF Sent, RowTrue
<1>10. credited' \in [Attempts -> BOOLEAN] /\ \A k \in Attempts : credited'[k] => k \in receipts
  BY Zenon, <1>1, <1>2 DEF Types, ReserveInv, CreditedIsInBudget
<1> QED BY Zenon, <1>2, <1>4, <1>6, <1>7, <1>8, <1>9, <1>10, RowStep

\* creditFromCreation: the row takes the signature of the creation packet.
LEMMA CreationSignStep ==
  ASSUME ReserveConstants, ReserveInv, NEW r \in Requests, CreationSign(r)
  PROVE  ReserveInv'
<1>1. Types /\ Gapless /\ OneRow /\ 1 \in Attempts /\ Knows(r) BY Zenon, FirstRow DEF ReserveInv
<1>2. /\ Read(r, "credit", 1, status'[1])
      /\ UNCHANGED <<oneTransaction, credited, offered, budget, receipts, chain, late>>
      /\ status' = [status EXCEPT ![1] = IF status[1] = "prepared" THEN "signed" ELSE status[1]]
  BY Zenon DEF CreationSign
<1>3. oneTransaction BY Zenon, <1>1 DEF CreationSign, Knows
<1>4. "signed" \in Statuses /\ "signed" # "none" /\ "prepared" \notin {"none"} \cup Settled
      /\ "signed" \notin Settled
  BY DEF Statuses, Settled
<1>5. status' \in [Attempts -> Statuses] BY Zenon, <1>1, <1>2, <1>4 DEF Types
<1>6. \A k \in Attempts : status'[k] = IF k = 1 /\ status[1] = "prepared" THEN "signed" ELSE status[k]
  BY Zenon, <1>1, <1>2 DEF Types
<1>7. Knows(r)' /\ \E l \in Locals : request' = [request EXCEPT ![r] = l]
  <2>1. "credit" \in {"creation", "credit"} /\ oneTransaction' /\ status'[1] \in Statuses
    BY Zenon, <1>1, <1>2, <1>3, <1>5
  <2> QED BY Zenon, <1>1, <1>2, <2>1, CreationRead
<1>8. Gapless' BY Zenon, <1>1, <1>4, <1>5, <1>6, RowMoves
<1>9. OneRow'
  <2>1. \A k \in Attempts : k > 1 => k # 1 BY DEF Attempts, ReserveConstants
  <2> QED BY Zenon, <1>1, <1>2, <1>4, <1>6, <2>1 DEF OneRow
<1>10. ASSUME NEW k \in Attempts, status'[k] # status[k]
       PROVE  /\ status'[k] \in {"prepared", "signed", "finalized"} /\ status[k] \in Sent => status'[k] \in Sent
              /\ status[k] # "expired" /\ RowTrue(k)'
  <2>1. k = 1 /\ status[k] = "prepared" /\ status'[k] = "signed" BY Zenon, <1>6, <1>10
  <2> QED BY <2>1 DEF Sent, RowTrue
<1>11. credited' \in [Attempts -> BOOLEAN] /\ \A k \in Attempts : credited'[k] => k \in receipts
  BY Zenon, <1>1, <1>2 DEF Types, ReserveInv, CreditedIsInBudget
<1> QED BY Zenon, <1>2, <1>5, <1>7, <1>8, <1>9, <1>10, <1>11, RowStep

\* credit: the row is marked credited after the budget has the receipt.
LEMMA JournalStep ==
  ASSUME ReserveConstants, ReserveInv, NEW r \in Requests, Journal(r)
  PROVE  ReserveInv'
<1>1. Types /\ Gapless /\ OneRow /\ Knows(r) BY Zenon DEF ReserveInv
<1>2. Row(r) \in receipts /\ Row(r) \in Attempts
  BY Zenon, <1>1 DEF Journal, Knows, Types
<1>3. Knows(r)' /\ \E l \in Locals : request' = [request EXCEPT ![r] = l]
  BY Zenon, <1>1, IdleKnows DEF Journal
<1>4. UNCHANGED <<oneTransaction, offered, budget, receipts, chain, late>> BY Zenon DEF Journal
<1>5. CASE status' = status /\ credited' = credited
  <2>1. offered' \subseteq Attempts BY Zenon, <1>1, <1>4 DEF Types
  <2> QED BY Zenon, <1>3, <1>4, <1>5, <2>1, LocalStep DEF journal
<1>6. CASE /\ status[Row(r)] \in {"signed", "confirmed"} /\ status' = [status EXCEPT ![Row(r)] = "finalized"]
           /\ credited' = [credited EXCEPT ![Row(r)] = TRUE]
  <2>1. "finalized" \in Statuses /\ "finalized" # "none" /\ status[Row(r)] \notin {"none"} \cup Settled
        /\ "finalized" \notin Settled
    BY <1>6 DEF Statuses, Settled
  <2>2. status' \in [Attempts -> Statuses] /\ credited' \in [Attempts -> BOOLEAN]
    BY Zenon, <1>1, <1>2, <1>6, <2>1 DEF Types
  <2>3. \A k \in Attempts : /\ status'[k] = IF k = Row(r) THEN "finalized" ELSE status[k]
                            /\ credited'[k] => k = Row(r) \/ credited[k]
    BY Zenon, <1>1, <1>6 DEF Types
  <2>4. Gapless' BY Zenon, <1>1, <2>1, <2>2, <2>3, RowMoves
  <2>5. \A k \in Attempts : credited'[k] => k \in receipts
    BY Zenon, <1>2, <2>3 DEF ReserveInv, CreditedIsInBudget
  <2>6. OneRow'
    <3>1. \A k \in Attempts : status[k] = "none" => status'[k] = "none" BY Zenon, <2>1, <2>3
    <3> QED BY Zenon, <1>1, <1>4, <2>1, <2>3, <3>1, FirstRow DEF OneRow
  <2>7. ASSUME NEW k \in Attempts, status'[k] # status[k]
        PROVE  /\ status'[k] \in {"prepared", "signed", "finalized"}
               /\ status[k] \in Sent => status'[k] \in Sent
               /\ status[k] # "expired" /\ RowTrue(k)'
    <3>1. status'[k] = "finalized" /\ status[k] \in {"signed", "confirmed"} BY Zenon, <1>6, <2>3, <2>7
    <3> QED BY <3>1 DEF Sent, RowTrue
  <2> QED BY Zenon, <1>3, <1>4, <2>2, <2>4, <2>5, <2>6, <2>7, RowStep
<1> QED BY Zenon, <1>5, <1>6 DEF Journal

\* credit: a receipt that is not there yet adds the reserve once, in one transaction.
LEMMA CreditStep ==
  ASSUME ReserveConstants, ReserveInv, NEW r \in Requests, Credit(r)
  PROVE  ReserveInv'
<1>1. Types /\ Knows(r) /\ CreditedExactlyOnce BY Zenon DEF ReserveInv
<1>2. Row(r) \in Attempts BY <1>1 DEF Credit, Knows, At
<1>3. /\ chain[Row(r)] = "finalized" /\ receipts' = receipts \cup {Row(r)} /\ Goto(r, "journal")
      /\ UNCHANGED <<oneTransaction, journal, offered, chain, late>>
  BY Zenon DEF Credit, FundingProved
<1>4. "journal" \in Places BY DEF Places
<1>5. PICK l \in Locals : /\ request' = [request EXCEPT ![r] = l]
                          /\ l.at = "journal" /\ l.row = Row(r) /\ l.st = request[r].st
                          /\ l.to = request[r].to
  BY Zenon, <1>1, <1>3, <1>4, GotoIs
<1>6. request'[r] = l /\ (\A p : At(r, p)' <=> p = "journal") /\ Row(r)' = l.row
  <2>1. l.at = "journal" /\ request' = [request EXCEPT ![r] = l] BY Zenon, <1>5
  <2> QED BY Zenon, <1>1, <2>1, Placed
<1>7. Wallet(r)' BY <1>6 DEF Wallet
<1>8. Knows(r)' BY <1>2, <1>3, <1>5, <1>6, <1>7 DEF Knows, Attempts
<1>9. \A k \in Attempts : Onward(k) BY <1>3 DEF Onward, journal
<1>10. request' \in [Requests -> Locals] /\ \A q \in Requests : Knows(q)'
  BY Zenon, <1>3, <1>5, <1>8, <1>9, OneMoves
<1>11. IsFiniteSet(Attempts) /\ IsFiniteSet(receipts)
  <2>1. 1 \in Int /\ MaxAttempts \in Int BY DEF ReserveConstants
  <2>2. IsFiniteSet(Attempts) BY Zenon, <2>1, FS_Interval DEF Attempts
  <2> QED BY Zenon, <1>1, <2>2, FS_Subset DEF Types
<1>12. PICK n \in Nat : n = Cardinality(receipts) BY Zenon, <1>11, FS_CardinalityType
<1>13. budget.reserved = Lamports * n BY Zenon, <1>1, <1>12 DEF CreditedExactlyOnce
<1>14. budget' \in [reserved : Nat, spent : Nat, returned : Nat] /\ budget'.reserved = Lamports * Cardinality(receipts')
  <2>1. CASE Row(r) \in receipts
    <3>1. receipts' = receipts /\ budget' = budget BY Zenon, <1>3, <2>1 DEF Credit
    <3> QED BY Zenon, <1>1, <1>12, <1>13, <3>1 DEF Types
  <2>2. CASE Row(r) \notin receipts
    <3>1. Cardinality(receipts') = n + 1 BY Zenon, <1>3, <1>11, <1>12, <2>2, FS_AddElement
    <3>2. budget' = [budget EXCEPT !["reserved"] = @ + Lamports]
      BY <2>2 DEF Credit, Change, Insufficient, Column
    <3>3. budget \in [reserved : Nat, spent : Nat, returned : Nat] BY Zenon, <1>1 DEF Types
    <3>4. budget.reserved + Lamports \in Nat BY <3>3 DEF ReserveConstants
    <3>5. budget' \in [reserved : Nat, spent : Nat, returned : Nat]
      BY Zenon, <3>2, <3>3, <3>4
    <3>6. budget'.reserved = budget.reserved + Lamports BY <3>2, <3>3
    <3>7. Lamports * (n + 1) = Lamports * n + Lamports BY <1>12 DEF ReserveConstants
    <3> QED BY Zenon, <1>13, <3>1, <3>5, <3>6, <3>7
  <2> QED BY Zenon, <2>1, <2>2
<1>15. receipts' \subseteq Attempts BY Zenon, <1>1, <1>2, <1>3 DEF Types
<1>16. Types' BY Zenon, <1>1, <1>3, <1>10, <1>14, <1>15 DEF Types, journal, Attempts
<1>17. CreditedExactlyOnce' BY Zenon, <1>1, <1>3, <1>14 DEF CreditedExactlyOnce
<1>18. CreditedIsInBudget' BY Zenon, <1>3 DEF CreditedIsInBudget, ReserveInv, journal, Attempts
<1>19. Gapless' /\ OneRow' /\ \A k \in Attempts : RowTrue(k)'
  BY Zenon, <1>3 DEF ReserveInv, Gapless, Count, OneRow, RowTrue, journal
<1> QED BY Zenon, <1>10, <1>16, <1>17, <1>18, <1>19 DEF ReserveInv, Attempts

\* Only the chain moves.
LEMMA ChainStep ==
  ASSUME ReserveConstants, ReserveInv, UNCHANGED <<oneTransaction, journal, offered, budget, receipts, request>>,
         chain' \in [Attempts -> Executions], late' \in [Attempts -> BOOLEAN],
         \A k \in Attempts : late[k] => late'[k],
         \A k \in Attempts : \/ chain'[k] = chain[k]
                             \/ chain[k] = "landed" /\ chain'[k] = "finalized"
                             \/ chain[k] = "broken" /\ chain'[k] = "failed"
  PROVE  ReserveInv'
<1>1. ASSUME NEW k \in Attempts PROVE RowTrue(k)' /\ Onward(k)
  <2>1. RowTrue(k) BY Zenon DEF ReserveInv
  <2>2. status' = status /\ oneTransaction' = oneTransaction BY Zenon DEF journal
  <2>3. RowTrue(k)' BY <2>1, <2>2 DEF RowTrue
  <2>4. Onward(k) BY <2>2 DEF Onward, Sent
  <2> QED BY Zenon, <2>3, <2>4
<1>2. \A q \in Requests : Knows(q)' BY Zenon, <1>1, KnowsKept
<1>3. \A k \in Attempts : chain[k] = "finalized" => chain'[k] = "finalized" OBVIOUS
<1>4. Types' BY Zenon DEF ReserveInv, Types, journal, Attempts
<1>5. CreditedExactlyOnce' /\ CreditedIsInBudget'
  BY Zenon, <1>3 DEF ReserveInv, Types, CreditedExactlyOnce, CreditedIsInBudget, journal, Attempts
<1>6. Gapless' BY Zenon DEF ReserveInv, Gapless, Count, journal
<1>7. OneRow' BY Zenon, <1>3, FirstRow DEF ReserveInv, OneRow, journal
<1> QED BY Zenon, <1>1, <1>2, <1>4, <1>5, <1>6, <1>7 DEF ReserveInv, Attempts

\* The chain finalizes an execution.
LEMMA FinalizeStep ==
  ASSUME ReserveConstants, ReserveInv, NEW k \in Attempts, Finalize(k)
  PROVE  ReserveInv'
<1>1. Types BY Zenon DEF ReserveInv
<1> DEFINE x == IF chain[k] = "landed" THEN "finalized" ELSE "failed"
<1>2. chain' = [chain EXCEPT ![k] = x] /\ chain[k] \in {"landed", "broken"} BY Zenon DEF Finalize
<1>3. x \in Executions BY DEF Executions
<1>4. chain' \in [Attempts -> Executions] BY Zenon, <1>1, <1>2, <1>3 DEF Types
<1>5. \A j \in Attempts : chain'[j] = IF j = k THEN x ELSE chain[j] BY Zenon, <1>1, <1>2 DEF Types
<1>6. \A j \in Attempts : \/ chain'[j] = chain[j]
                          \/ chain[j] = "landed" /\ chain'[j] = "finalized"
                          \/ chain[j] = "broken" /\ chain'[j] = "failed"
  BY <1>2, <1>5
<1>7. late' \in [Attempts -> BOOLEAN] /\ \A j \in Attempts : late[j] => late'[j]
  BY Zenon, <1>1 DEF Finalize, Types
<1> QED BY Zenon, <1>4, <1>6, <1>7, ChainStep DEF Finalize

\* The finalized height passes the validity of a packet.
LEMMA PassValidityStep ==
  ASSUME ReserveConstants, ReserveInv, NEW k \in Attempts, PassValidity(k)
  PROVE  ReserveInv'
<1>1. Types BY Zenon DEF ReserveInv
<1>2. chain' \in [Attempts -> Executions] /\ \A j \in Attempts : chain'[j] = chain[j]
  BY Zenon, <1>1 DEF PassValidity, Types
<1>3. late' \in [Attempts -> BOOLEAN] /\ \A j \in Attempts : late[j] => late'[j]
  BY Zenon, <1>1 DEF PassValidity, Types
<1> QED BY Zenon, <1>2, <1>3, ChainStep DEF PassValidity

\* Wherever concurrent requests of a creator stop between their awaits: the rows have no gap, a row
\* is followed by another only when it can no longer execute, what a request read of its row is still
\* true of the chain, and every receipt of the budget is a finalized transfer (operating-reserve.mjs
\* 77-159, operating-ledger.mjs 41-57).
THEOREM ReserveInductive == ASSUME ReserveConstants PROVE Spec => []ReserveInv
<1>1. Init => ReserveInv
  <2> SUFFICES ASSUME Init PROVE ReserveInv OBVIOUS
  <2>1. Idle \in Locals /\ Idle.at = "idle" BY Zenon, IdleIs
  <2>2. /\ status = [k \in Attempts |-> "none"] /\ receipts = {} /\ budget = EmptyBudget
        /\ "none" \in Statuses /\ request = [r \in Requests |-> Idle] /\ offered = {}
    BY DEF Init, Statuses
  <2>3. \A k \in Attempts : IF oneTransaction /\ k = 1 THEN chain[k] = "finalized" ELSE chain[k] = "none"
    BY Zenon DEF Init
  <2>4. chain \in [Attempts -> Executions] BY DEF Init, Executions
  <2>5. budget \in [reserved : Nat, spent : Nat, returned : Nat] /\ budget.reserved = 0
    BY <2>2 DEF EmptyBudget
  <2>6. /\ oneTransaction \in BOOLEAN /\ credited = [k \in Attempts |-> FALSE]
        /\ late = [k \in Attempts |-> FALSE]
    BY Zenon DEF Init
  <2>7. Types BY Zenon, <2>1, <2>2, <2>4, <2>5, <2>6 DEF Types
  <2>8. Gapless
    <3>1. 0 \in 0 .. MaxAttempts /\ \A k \in Attempts : ~(k <= 0) /\ ~(k < 0)
      BY DEF ReserveConstants, Attempts
    <3>2. \A k \in Attempts : (status[k] # "none") <=> k <= 0 BY Zenon, <2>2, <3>1
    <3>3. Count = 0 BY Zenon, <3>1, <3>2, CountIs
    <3> QED BY Zenon, <3>1, <3>2, <3>3 DEF Gapless
  <2>9. OneRow
    <3>1. "none" \notin Settled BY DEF Settled
    <3> QED BY Zenon, <2>2, <2>3, <3>1, FirstRow DEF OneRow
  <2>10. CreditedExactlyOnce
    <3>1. Cardinality(receipts) = 0 BY Zenon, <2>2, FS_EmptySet
    <3>2. Lamports * 0 = 0 BY DEF ReserveConstants
    <3> QED BY Zenon, <2>2, <2>5, <3>1, <3>2 DEF CreditedExactlyOnce
  <2>11. CreditedIsInBudget BY Zenon, <2>6 DEF CreditedIsInBudget
  <2>12. ASSUME NEW k \in Attempts PROVE RowTrue(k)
    <3>1. status[k] = "none" BY Zenon, <2>2
    <3> QED BY <2>3, <3>1 DEF RowTrue
  <2>13. ASSUME NEW r \in Requests PROVE Knows(r)
    <3>1. \A p : At(r, p) <=> p = "idle" BY <2>1, <2>2 DEF At
    <3> QED BY <3>1 DEF Knows, Wallet
  <2> QED BY Zenon, <2>7, <2>8, <2>9, <2>10, <2>11, <2>12, <2>13 DEF ReserveInv
<1>2. ReserveInv /\ [Next]_vars => ReserveInv'
  <2> SUFFICES ASSUME ReserveInv, [Next]_vars PROVE ReserveInv' OBVIOUS
  <2>1. ASSUME NEW r \in Requests, Step(r) PROVE ReserveInv'
    BY Zenon, <2>1, PrepareStep, CheckValidityStep, ExpireOfferStep, InsertStep, SubmitStep, SignStep,
       ResumeStep, ReadStatusStep, ProgressStep, CreationInsertStep, CreationSignStep, CreditStep,
       JournalStep, InterruptStep DEF Step
  <2>2. ASSUME NEW k \in Attempts, Finalize(k) \/ PassValidity(k) PROVE ReserveInv'
    BY Zenon, <2>2, FinalizeStep, PassValidityStep
  <2>3. CASE UNCHANGED vars
    <3>1. UNCHANGED <<oneTransaction, journal, offered, budget, receipts, request>> /\ chain' = chain /\ late' = late
      BY Zenon, <2>3 DEF vars
    <3> QED BY Zenon, <3>1, ChainStep DEF ReserveInv, Types
  <2> QED BY Zenon, <2>1, <2>2, <2>3 DEF Next
<1> QED BY <1>1, <1>2, PTL DEF Spec

\* The creator pays the reserve at most once, the budget holds exactly the transfers that finalized
\* evidence shows, each counted once, and "credited" is shown only of a transfer in the budget, for
\* any number of requests and attempts (operating-reserve.mjs prepare, submit, resume and credit).
THEOREM ReserveAlwaysExact ==
  ASSUME ReserveConstants PROVE Spec => [](PaidOnce /\ CreditedExactlyOnce /\ CreditedIsInBudget)
<1>1. ReserveInv => PaidOnce
  <2> SUFFICES ASSUME ReserveInv PROVE PaidOnce OBVIOUS
  <2> DEFINE P == {k \in Attempts : chain[k] \in {"landed", "finalized"}}
  <2>1. PICK n : n = IF oneTransaction THEN 1 ELSE Count OBVIOUS
  <2>2. ASSUME NEW k \in P PROVE k = n
    <3>1. k \in Attempts /\ chain[k] # "none" /\ chain[k] # "failed" BY <2>2
    <3>2. RowTrue(k) BY Zenon, <3>1 DEF ReserveInv
    <3>3. CASE oneTransaction
      <4>1. k = 1 \/ status[k] # "none" BY <3>1, <3>2 DEF RowTrue
      <4>2. k = 1 \/ k > 1 BY <3>1 DEF Attempts, ReserveConstants
      <4> QED BY Zenon, <2>1, <3>1, <3>3, <4>1, <4>2 DEF ReserveInv, OneRow
    <3>4. CASE ~oneTransaction
      <4>1. status[k] \notin Settled /\ status[k] # "none" BY <3>1, <3>2, <3>4 DEF RowTrue, Settled
      <4>2. k <= Count /\ ~(k < Count) /\ Count \in 0 .. MaxAttempts
        BY Zenon, <3>1, <4>1 DEF ReserveInv, Gapless
      <4>3. k = Count BY <3>1, <4>2 DEF Attempts, ReserveConstants
      <4> QED BY Zenon, <2>1, <3>4, <4>3
    <3> QED BY Zenon, <3>3, <3>4
  <2>3. IsFiniteSet({n}) /\ Cardinality({n}) = 1 BY Zenon, FS_Singleton
  <2>4. P \in SUBSET {n} BY Zenon, <2>2
  <2> HIDE DEF P
  <2>5. Cardinality(P) <= Cardinality({n}) BY Zenon, <2>3, <2>4, FS_Subset
  <2>6. Cardinality(P) <= 1 BY Zenon, <2>3, <2>5
  <2> QED BY Zenon, <2>6 DEF P, PaidOnce
<1>2. ReserveInv => CreditedExactlyOnce /\ CreditedIsInBudget BY Zenon DEF ReserveInv
<1> QED BY <1>1, <1>2, ReserveInductive, PTL

-----------------------------------------------------------------------------
(* Quotes and acceptance.                                                   *)
CONSTANTS Tabs, Bodies, RequestKeys, Policies, Validity, MaxRevision, MaxTime, MaxQuotes
VARIABLES draft, quotes, accepted, clock, known, call, answers

Quotes == INSTANCE CreationQuotes WITH request <- accepted

\* The quote store counts the way the library does.
LEMMA QuotesCount == \A S : Quotes!Cardinality(S) = Cardinality(S)
  BY Zenon DEF Quotes!Cardinality, Cardinality, Quotes!IsFiniteSet, IsFiniteSet

\* Assumed of the constants: a quote is valid for some time, revisions are numbers.
QuotesConstants == Validity \in Nat \ {0} /\ MaxRevision \in Nat

\* A call that is over names nothing.
LEMMA CallOver ==
  ASSUME QuotesConstants, Quotes!QuotesInv, NEW t \in Tabs, call' = [call EXCEPT ![t] = Quotes!NoCall]
  PROVE  call' \in [Tabs -> Quotes!Calls] /\ (\A u \in Tabs : call'[u] = call[u] \/ call'[u] = Quotes!NoCall)
<1>1. Quotes!NoCall \in Quotes!Calls BY DEF Quotes!NoCall, Quotes!Calls, QuotesConstants
<1> QED BY <1>1 DEF Quotes!QuotesInv

\* Calls keep naming existing rows while rows are only added.
LEMMA CallsKept ==
  ASSUME QuotesConstants, Quotes!QuotesInv, DOMAIN quotes \subseteq DOMAIN quotes',
         \A u \in Tabs : call'[u] = call[u] \/ call'[u] = Quotes!NoCall
  PROVE  \A u \in Tabs : Quotes!InCall(call[u])'
<1> SUFFICES ASSUME NEW u \in Tabs PROVE Quotes!InCall(call[u])'
  OBVIOUS
<1>1. CASE call'[u] = Quotes!NoCall
  <2>1. call'[u].phase = "idle" BY <1>1 DEF Quotes!NoCall
  <2> QED BY <2>1 DEF Quotes!InCall
<1>2. CASE call'[u] = call[u] BY Zenon, <1>2 DEF Quotes!InCall, Quotes!QuotesInv
<1> QED BY Zenon, <1>1, <1>2

\* An answer with a row of its key.
LEMMA AnswerStep ==
  ASSUME QuotesConstants, Quotes!QuotesInv, NEW t \in Tabs, NEW key \in RequestKeys, NEW i \in Quotes!Prior(key),
         Quotes!Answer(t, key, i), UNCHANGED <<draft, quotes, accepted, clock, known>>
  PROVE  Quotes!QuotesInv'
<1>1. i \in DOMAIN quotes /\ quotes[i].key = key BY Zenon DEF Quotes!Prior
<1>2. /\ call' \in [Tabs -> Quotes!Calls]
      /\ \A u \in Tabs : call'[u] = call[u] \/ call'[u] = Quotes!NoCall
  BY CallOver DEF Quotes!Answer
<1>3. \A u \in Tabs : Quotes!InCall(call[u])' BY <1>2, CallsKept
<1>4. answers' \in [RequestKeys -> SUBSET (DOMAIN quotes)]
  BY <1>1 DEF Quotes!Answer, Quotes!QuotesInv, Quotes!Rows
<1>5. Quotes!AnsweredByRow'
  BY <1>1 DEF Quotes!Answer, Quotes!QuotesInv, Quotes!Rows, Quotes!AnsweredByRow
<1>6. Quotes!Rows' BY Zenon, <1>4 DEF Quotes!QuotesInv, Quotes!Rows
<1>7. Quotes!OneRowPerKey' /\ Quotes!Locked' BY Zenon DEF Quotes!QuotesInv, Quotes!OneRowPerKey, Quotes!Locked
<1> QED BY Zenon, <1>2, <1>3, <1>5, <1>6, <1>7 DEF Quotes!QuotesInv

\* A call that is refused, or that only remembers what it read.
LEMMA CallStep ==
  ASSUME QuotesConstants, Quotes!QuotesInv, NEW t \in Tabs, NEW c \in Quotes!Calls, Quotes!InCall(c), call' = [call EXCEPT ![t] = c],
         UNCHANGED <<draft, quotes, accepted, clock, known, answers>>
  PROVE  Quotes!QuotesInv'
<1>1. call' \in [Tabs -> Quotes!Calls] /\ \A u \in Tabs : call'[u] = call[u] \/ call'[u] = c
  BY DEF Quotes!QuotesInv
<1>2. \A u \in Tabs : Quotes!InCall(call[u])'
  BY Zenon, <1>1 DEF Quotes!InCall, Quotes!QuotesInv
<1>3. Quotes!Rows' /\ Quotes!OneRowPerKey' /\ Quotes!AnsweredByRow' /\ Quotes!Locked'
  BY Zenon DEF Quotes!QuotesInv, Quotes!Rows, Quotes!OneRowPerKey, Quotes!AnsweredByRow, Quotes!Locked
<1> QED BY Zenon, <1>1, <1>2, <1>3 DEF Quotes!QuotesInv

\* No call in progress.
LEMMA NothingCalled == ASSUME QuotesConstants PROVE Quotes!NoCall \in Quotes!Calls /\ Quotes!InCall(Quotes!NoCall)
<1>1. Quotes!NoCall \in Quotes!Calls BY DEF Quotes!NoCall, Quotes!Calls, QuotesConstants
<1> QED BY <1>1 DEF Quotes!NoCall, Quotes!InCall

\* drafts.get
LEMMA LoadStep ==
  ASSUME QuotesConstants, Quotes!QuotesInv, NEW t \in Tabs, Quotes!Load(t)
  PROVE  Quotes!QuotesInv'
<1>1. /\ known' \in [Tabs -> 0..MaxRevision] /\ \A u \in Tabs : known'[u] <= draft.revision
  BY DEF Quotes!QuotesInv, Quotes!Rows, Quotes!Load, QuotesConstants
<1>2. Quotes!Rows' BY Zenon, <1>1 DEF Quotes!QuotesInv, Quotes!Rows, Quotes!Load
<1> QED BY Zenon, <1>2 DEF Quotes!QuotesInv, Quotes!Load, Quotes!InCall, Quotes!OneRowPerKey, Quotes!AnsweredByRow, Quotes!Locked

\* drafts.save: the revision the tab knows, of a draft that is not being created.
LEMMA SaveStep ==
  ASSUME QuotesConstants, Quotes!QuotesInv, NEW t \in Tabs, NEW body \in Bodies, Quotes!Save(t, body)
  PROVE  Quotes!QuotesInv'
<1>1. PICK r \in 0..MaxRevision : r = draft.revision BY Zenon DEF Quotes!QuotesInv, Quotes!Rows
<1>2. r + 1 \in 1..MaxRevision BY <1>1 DEF Quotes!Save, QuotesConstants
<1>3. /\ draft' \in [revision: 0..MaxRevision, body: Bodies \cup {"none"},
                     status: {"draft", "creating"}]
      /\ draft'.body \in Bodies /\ draft'.revision = r + 1
  <2>1. draft' = [draft EXCEPT !.revision = r + 1, !.body = body] BY <1>1 DEF Quotes!Save
  <2>2. r + 1 \in 0..MaxRevision BY <1>2
  <2>3. draft \in [revision: 0..MaxRevision, body: Bodies \cup {"none"},
                   status: {"draft", "creating"}]
    BY Zenon DEF Quotes!QuotesInv, Quotes!Rows
  <2>4. draft' \in [revision: 0..MaxRevision, body: Bodies \cup {"none"},
                    status: {"draft", "creating"}]
    BY Zenon, <2>1, <2>2, <2>3
  <2> QED BY <2>1, <2>3, <2>4
<1>4. /\ known' \in [Tabs -> 0..MaxRevision] /\ \A u \in Tabs : known'[u] <= draft'.revision
  <2>1. known' = [known EXCEPT ![t] = r + 1] /\ known[t] = r BY <1>1 DEF Quotes!Save
  <2>2. known \in [Tabs -> 0..MaxRevision] /\ \A u \in Tabs : known[u] <= r
    BY Zenon, <1>1 DEF Quotes!QuotesInv, Quotes!Rows
  <2>3. r + 1 \in 0..MaxRevision /\ draft'.revision = r + 1 BY <1>2, <1>3
  <2>4. known' \in [Tabs -> 0..MaxRevision] BY Zenon, <2>1, <2>2, <2>3
  <2>5. \A u \in Tabs : known'[u] = known[u] \/ known'[u] = r + 1 BY Zenon, <2>1, <2>2
  <2>6. \A u \in Tabs : known'[u] <= r + 1 BY <2>2, <2>5, <1>1 DEF QuotesConstants
  <2> QED BY Zenon, <2>3, <2>4, <2>6
<1>5. Quotes!Rows' BY Zenon, <1>3, <1>4 DEF Quotes!Rows, Quotes!QuotesInv, Quotes!Save
<1>6. accepted = Quotes!NoRequest BY Zenon DEF Quotes!Save, Quotes!QuotesInv, Quotes!Locked
<1>7. Quotes!Locked' BY Zenon, <1>6 DEF Quotes!Locked, Quotes!Save
<1> QED BY Zenon, <1>5, <1>7 DEF Quotes!QuotesInv, Quotes!Save, Quotes!InCall, Quotes!OneRowPerKey, Quotes!AnsweredByRow

\* quote: the answer the key had, or the draft is read and priced.
LEMMA QuoteReadStep ==
  ASSUME QuotesConstants, Quotes!QuotesInv, NEW t \in Tabs, NEW key \in RequestKeys,
         NEW policy \in Policies, Quotes!QuoteRead(t, key, policy)
  PROVE  Quotes!QuotesInv'
<1>1. CASE Quotes!Prior(key) # {}
  <2>1. PICK i \in Quotes!Prior(key) : Quotes!Answer(t, key, i) BY Zenon, <1>1 DEF Quotes!QuoteRead
  <2> QED BY Zenon, <2>1, AnswerStep DEF Quotes!QuoteRead
<1>2. CASE Quotes!Prior(key) = {}
  <2> DEFINE c == [Quotes!NoCall EXCEPT !.phase = "issue", !.key = key, !.revision = draft.revision,
                                 !.body = draft.body, !.policy = policy]
  <2>1. draft.revision = known[t] /\ known[t] > 0 /\ call' = [call EXCEPT ![t] = c]
        /\ UNCHANGED <<draft, quotes, accepted, clock, known, answers>>
    BY Zenon, <1>2 DEF Quotes!QuoteRead
  <2>2. draft.revision \in 1..MaxRevision /\ draft.body \in Bodies
    BY <2>1 DEF Quotes!QuotesInv, Quotes!Rows, QuotesConstants
  <2>3. Quotes!NoCall \in Quotes!Calls /\ draft.revision \in 0..MaxRevision
    BY Zenon, NothingCalled DEF Quotes!QuotesInv, Quotes!Rows
  <2>4. c \in Quotes!Calls BY Zenon, <2>2, <2>3 DEF Quotes!Calls
  <2>5. Quotes!InCall(c)
    <3>1. /\ c.phase = "issue" /\ c.key = key /\ c.revision = draft.revision /\ c.body = draft.body
          /\ c.policy = policy
      BY <2>3 DEF Quotes!Calls
    <3> QED BY <2>2, <3>1 DEF Quotes!InCall
  <2> QED BY Zenon, <2>1, <2>4, <2>5, CallStep
<1> QED BY Zenon, <1>1, <1>2

\* A row is added for a key that has none.
LEMMA QuotedStep ==
  ASSUME QuotesConstants, Quotes!QuotesInv, NEW t \in Tabs, call[t].phase = "issue",
         Quotes!Prior(call[t].key) = {}, quotes' = Append(quotes, Quotes!NewQuote(call[t])),
         Quotes!Answer(t, call[t].key, Len(quotes) + 1), UNCHANGED <<draft, accepted, clock, known>>
  PROVE  Quotes!QuotesInv'
<1> DEFINE q == Quotes!NewQuote(call[t])
           n == Len(quotes) + 1
<1>1. Quotes!InCall(call[t]) /\ clock \in Nat BY Zenon DEF Quotes!QuotesInv, Quotes!Rows
<1>2. q \in Quotes!QuoteRows /\ q.key = call[t].key /\ call[t].key \in RequestKeys
  BY <1>1 DEF Quotes!InCall, Quotes!NewQuote, Quotes!QuoteRows, QuotesConstants
<1>3. PICK s \in Seq(Quotes!QuoteRows) : s = quotes BY Zenon DEF Quotes!QuotesInv, Quotes!Rows
<1>4. /\ quotes' \in Seq(Quotes!QuoteRows) /\ DOMAIN quotes' = 1..n /\ DOMAIN quotes = 1..(n - 1)
      /\ n \in Nat /\ quotes'[n] = q /\ \A i \in DOMAIN quotes : quotes'[i] = quotes[i] /\ i # n
  <2>1. quotes' = Append(s, q) BY Zenon, <1>3
  <2> HIDE DEF q
  <2> QED BY <1>2, <1>3, <2>1
<1>5. DOMAIN quotes' = DOMAIN quotes \cup {n} BY <1>4
<1>6. \A i \in DOMAIN quotes : quotes[i].key # q.key BY Zenon, <1>2 DEF Quotes!Prior
<1>7. Quotes!OneRowPerKey'
  <2> HIDE DEF q, n
  <2>1. Quotes!OneRowPerKey BY Zenon DEF Quotes!QuotesInv
  <2>2. \A i \in DOMAIN quotes : quotes'[i] = quotes[i] BY Zenon, <1>4
  <2>3. \A i \in DOMAIN quotes : quotes'[i].key # q.key BY Zenon, <1>6, <2>2
  <2>4. quotes'[n].key = q.key BY Zenon, <1>4
  <2> SUFFICES ASSUME NEW i \in DOMAIN quotes', NEW j \in DOMAIN quotes',
                      quotes'[i].key = quotes'[j].key
               PROVE  i = j
    BY Zenon DEF Quotes!OneRowPerKey
  <2>5. (i \in DOMAIN quotes \/ i = n) /\ (j \in DOMAIN quotes \/ j = n) BY Zenon, <1>5
  <2>6. CASE i \in DOMAIN quotes /\ j \in DOMAIN quotes
    <3>1. quotes[i].key = quotes[j].key BY Zenon, <2>2, <2>6
    <3> QED BY Zenon, <2>1, <2>6, <3>1 DEF Quotes!OneRowPerKey
  <2>7. CASE i = n /\ j \in DOMAIN quotes BY Zenon, <2>3, <2>4, <2>7
  <2>8. CASE i \in DOMAIN quotes /\ j = n BY Zenon, <2>3, <2>4, <2>8
  <2> QED BY Zenon, <2>5, <2>6, <2>7, <2>8
<1>8. answers' \in [RequestKeys -> SUBSET (DOMAIN quotes')]
  <2> HIDE DEF q, n
  <2>1. answers' = [answers EXCEPT ![call[t].key] = @ \cup {n}] BY Zenon DEF Quotes!Answer, n
  <2> QED BY <1>2, <1>5, <2>1 DEF Quotes!QuotesInv, Quotes!Rows
<1>9. Quotes!AnsweredByRow'
  <2> HIDE DEF q, n
  <2>1. answers' = [answers EXCEPT ![call[t].key] = @ \cup {n}] BY Zenon DEF Quotes!Answer, n
  <2> SUFFICES ASSUME NEW k \in RequestKeys, NEW i \in answers'[k] PROVE quotes'[i].key = k
    BY Zenon DEF Quotes!AnsweredByRow
  <2>2. CASE i = n /\ i \notin answers[k]
    <3>1. k = call[t].key BY <2>1, <2>2 DEF Quotes!QuotesInv, Quotes!Rows
    <3> QED BY Zenon, <2>2, <3>1, <1>2, <1>4
  <2>3. CASE i \in answers[k]
    <3>1. i \in DOMAIN quotes BY <2>3 DEF Quotes!QuotesInv, Quotes!Rows
    <3> QED BY Zenon, <2>3, <3>1, <1>4 DEF Quotes!QuotesInv, Quotes!AnsweredByRow
  <2>4. i = n \/ i \in answers[k] BY <2>1 DEF Quotes!QuotesInv, Quotes!Rows
  <2> QED BY Zenon, <2>2, <2>3, <2>4
<1>10. Quotes!Rows' BY Zenon, <1>4, <1>8 DEF Quotes!QuotesInv, Quotes!Rows
<1>11. /\ call' \in [Tabs -> Quotes!Calls]
       /\ \A u \in Tabs : call'[u] = call[u] \/ call'[u] = Quotes!NoCall
  BY CallOver DEF Quotes!Answer
<1>12. \A u \in Tabs : Quotes!InCall(call[u])' BY Zenon, <1>5, <1>11, CallsKept
<1>13. Quotes!Locked'
  <2> HIDE DEF q, n
  <2> QED BY Zenon, <1>4, <1>5 DEF Quotes!QuotesInv, Quotes!Locked
<1> QED BY Zenon, <1>7, <1>9, <1>10, <1>11, <1>12, <1>13 DEF Quotes!QuotesInv

\* store.issue, under the lock of the draft.
LEMMA IssueStep ==
  ASSUME QuotesConstants, Quotes!QuotesInv, NEW t \in Tabs, Quotes!Issue(t)
  PROVE  Quotes!QuotesInv'
<1> DEFINE c == call[t]
           current == draft.revision = c.revision /\ draft.body = c.body /\ draft.status = "draft"
<1>0. c.phase = "issue" /\ UNCHANGED <<draft, accepted, clock, known>> BY Zenon DEF Quotes!Issue
<1>1. c.key \in RequestKeys BY Zenon, <1>0 DEF Quotes!QuotesInv, Quotes!InCall
<1>2. CASE Quotes!Prior(c.key) # {}
  <2> DEFINE i == CHOOSE i \in Quotes!Prior(c.key) : TRUE
  <2>1. i \in Quotes!Prior(c.key) BY Zenon, <1>2
  <2>2. /\ UNCHANGED quotes
        /\ Quotes!Answer(t, c.key, i) \/ (call' = [call EXCEPT ![t] = Quotes!NoCall] /\ UNCHANGED answers)
    BY <1>2 DEF Quotes!Issue
  <2> HIDE DEF i
  <2>3. CASE Quotes!Answer(t, c.key, i) BY Zenon, <1>0, <1>1, <2>1, <2>2, <2>3, AnswerStep
  <2>4. CASE call' = [call EXCEPT ![t] = Quotes!NoCall] /\ UNCHANGED answers
    BY Zenon, <1>0, <2>2, <2>4, CallStep, NothingCalled
  <2> QED BY Zenon, <2>2, <2>3, <2>4
<1>3. CASE Quotes!Prior(c.key) = {} /\ ~current
  <2>1. call' = [call EXCEPT ![t] = Quotes!NoCall] /\ UNCHANGED <<quotes, answers>>
    BY <1>3 DEF Quotes!Issue
  <2> QED BY Zenon, <1>0, <2>1, CallStep, NothingCalled
<1>4. CASE Quotes!Prior(c.key) = {} /\ current
  <2>1. quotes' = Append(quotes, Quotes!NewQuote(c)) /\ Quotes!Answer(t, c.key, Len(quotes) + 1)
    BY <1>4 DEF Quotes!Issue
  <2> QED BY Zenon, <1>0, <1>4, <2>1, QuotedStep
<1> QED BY Zenon, <1>2, <1>3, <1>4

\* accept: the quote is read.
LEMMA AcceptReadStep ==
  ASSUME QuotesConstants, Quotes!QuotesInv, NEW t \in Tabs, NEW i \in DOMAIN quotes, NEW policy, Quotes!AcceptRead(t, i, policy)
  PROVE  Quotes!QuotesInv'
<1> DEFINE c == [Quotes!NoCall EXCEPT !.phase = "accept", !.quote = i]
<1>1. i \in Nat BY DEF Quotes!QuotesInv, Quotes!Rows
<1>2. Quotes!NoCall \in Quotes!Calls BY Zenon, NothingCalled
<1>3. c \in Quotes!Calls BY Zenon, <1>1, <1>2 DEF Quotes!Calls
<1>4. Quotes!InCall(c)
  <2>1. c.phase = "accept" /\ c.quote = i BY <1>2 DEF Quotes!Calls
  <2> QED BY <2>1 DEF Quotes!InCall
<1> QED BY Zenon, <1>3, <1>4, CallStep DEF Quotes!AcceptRead

\* store.accept: one request of a draft, which is locked from then on.
LEMMA AcceptStep ==
  ASSUME QuotesConstants, Quotes!QuotesInv, NEW t \in Tabs, Quotes!Accept(t)
  PROVE  Quotes!QuotesInv'
<1> DEFINE q == quotes[call[t].quote]
<1>0. call[t].phase = "accept" /\ UNCHANGED <<quotes, clock, known, answers>> BY Zenon DEF Quotes!Accept
<1>1. call[t].quote \in DOMAIN quotes BY Zenon, <1>0 DEF Quotes!QuotesInv, Quotes!InCall
<1>2. CASE Quotes!Refused(t)
  BY Zenon, <1>0, <1>2, CallStep, NothingCalled DEF Quotes!Refused
<1>3. CASE /\ Quotes!Accepted(t, q) /\ accepted = Quotes!NoRequest /\ draft.revision = q.revision
           /\ draft.body = q.body /\ ~(clock >= q.expires)
  <2>1. /\ draft' \in [revision: 0..MaxRevision, body: Bodies \cup {"none"},
                       status: {"draft", "creating"}]
        /\ draft'.status = "creating" /\ draft'.revision = draft.revision /\ draft'.body = draft.body
    BY <1>3 DEF Quotes!Accepted, Quotes!QuotesInv, Quotes!Rows
  <2>2. Quotes!Rows' BY Zenon, <1>0, <2>1 DEF Quotes!Rows, Quotes!QuotesInv
  <2>3. /\ call' \in [Tabs -> Quotes!Calls]
        /\ \A u \in Tabs : call'[u] = call[u] \/ call'[u] = Quotes!NoCall
    BY <1>3, CallOver DEF Quotes!Accepted
  <2>4. \A u \in Tabs : Quotes!InCall(call[u])' BY Zenon, <1>0, <2>3, CallsKept
  <2>5. q.expires \in Nat /\ clock \in Nat
    <3>1. q \in Quotes!QuoteRows BY <1>1 DEF Quotes!QuotesInv, Quotes!Rows
    <3> QED BY <3>1 DEF Quotes!QuoteRows, Quotes!QuotesInv, Quotes!Rows
  <2>6. clock < q.expires BY <1>3, <2>5
  <2>7. /\ accepted'.quote = call[t].quote /\ accepted'.body = draft.body /\ accepted'.at = clock
    BY <1>3 DEF Quotes!Accepted
  <2>8. Quotes!Locked' BY Zenon, <1>0, <1>1, <1>3, <2>1, <2>6, <2>7 DEF Quotes!Locked
  <2> QED BY Zenon, <1>0, <2>2, <2>3, <2>4, <2>8 DEF Quotes!QuotesInv, Quotes!OneRowPerKey, Quotes!AnsweredByRow
<1> QED BY Zenon, <1>2, <1>3 DEF Quotes!Accept

\* However the calls of several tabs and replicas interleave between a read and the write after it: a
\* request key has one row and is answered by it, and the accepted request and the draft it locked
\* still say the same (creation/store.mjs 15-48, public-creation.mjs 31-66).
THEOREM QuotesInductive == ASSUME QuotesConstants PROVE Quotes!Spec => []Quotes!QuotesInv
<1>1. Quotes!Init => Quotes!QuotesInv
  <2> SUFFICES ASSUME Quotes!Init PROVE Quotes!QuotesInv OBVIOUS
  <2>1. quotes = <<>> /\ DOMAIN quotes = {} /\ quotes \in Seq(Quotes!QuoteRows) BY DEF Quotes!Init
  <2>2. Quotes!Rows BY <2>1 DEF Quotes!Init, Quotes!Rows, QuotesConstants
  <2>3. call \in [Tabs -> Quotes!Calls] /\ \A t \in Tabs : Quotes!InCall(call[t])
    BY NothingCalled DEF Quotes!Init
  <2>4. Quotes!OneRowPerKey BY Zenon, <2>1 DEF Quotes!OneRowPerKey
  <2>5. Quotes!AnsweredByRow BY DEF Quotes!Init, Quotes!AnsweredByRow
  <2>6. Quotes!Locked BY Zenon DEF Quotes!Init, Quotes!Locked
  <2> QED BY Zenon, <2>2, <2>3, <2>4, <2>5, <2>6 DEF Quotes!QuotesInv
<1>2. Quotes!QuotesInv /\ [Quotes!Next]_(Quotes!vars) => Quotes!QuotesInv'
  <2> SUFFICES ASSUME QuotesConstants, Quotes!QuotesInv, [Quotes!Next]_(Quotes!vars) PROVE Quotes!QuotesInv' OBVIOUS
  <2>1. CASE Quotes!Tick
    <3>1. clock' \in Nat BY <2>1 DEF Quotes!Tick, Quotes!QuotesInv, Quotes!Rows
    <3> QED BY Zenon, <2>1, <3>1 DEF Quotes!Tick, Quotes!QuotesInv, Quotes!Rows, Quotes!InCall, Quotes!OneRowPerKey, Quotes!AnsweredByRow, Quotes!Locked
  <2>2. CASE UNCHANGED Quotes!vars
    BY Zenon, <2>2 DEF Quotes!vars, Quotes!QuotesInv, Quotes!Rows, Quotes!InCall, Quotes!OneRowPerKey, Quotes!AnsweredByRow, Quotes!Locked
  <2>3. ASSUME NEW t \in Tabs,
               \/ Quotes!Load(t) \/ Quotes!Issue(t) \/ Quotes!Accept(t)
               \/ \E body \in Bodies : Quotes!Save(t, body)
               \/ \E key \in RequestKeys, policy \in Policies : Quotes!QuoteRead(t, key, policy)
               \/ \E i \in DOMAIN quotes, policy \in Policies : Quotes!AcceptRead(t, i, policy)
        PROVE  Quotes!QuotesInv'
    BY Zenon, <2>3, LoadStep, IssueStep, AcceptStep, SaveStep, QuoteReadStep, AcceptReadStep
  <2> QED BY Zenon, <2>1, <2>2, <2>3 DEF Quotes!Next
<1> QED BY <1>1, <1>2, PTL DEF Quotes!Spec

\* What is created is what the creator reviewed: the accepted body, the draft and the quote agree,
\* and the quote had not expired on the database clock (store.mjs accept), for any number of tabs,
\* bodies, keys, policies and revisions.
THEOREM AcceptedAlwaysReviewed ==
  ASSUME QuotesConstants PROVE Quotes!Spec => [](Quotes!AcceptedIsReviewed /\ Quotes!AcceptedInTime)
<1>1. Quotes!QuotesInv => Quotes!AcceptedIsReviewed /\ Quotes!AcceptedInTime
  BY Zenon DEF Quotes!QuotesInv, Quotes!Locked, Quotes!AcceptedIsReviewed, Quotes!AcceptedInTime
<1> QED BY <1>1, QuotesInductive, PTL

\* A request key is answered with one quote for ever, although two tabs may price it at the same time
\* (store.mjs 22-24).
THEOREM KeyAlwaysOneQuote == ASSUME QuotesConstants PROVE Quotes!Spec => []Quotes!OneQuotePerKey
<1>1. Quotes!QuotesInv => Quotes!OneQuotePerKey
  <2> SUFFICES ASSUME QuotesConstants, Quotes!QuotesInv, NEW k \in RequestKeys PROVE Cardinality(answers[k]) <= 1
    BY Zenon, QuotesCount DEF Quotes!OneQuotePerKey
  <2>1. \A i, j \in answers[k] : i = j
    <3>1. answers[k] \subseteq DOMAIN quotes BY DEF Quotes!QuotesInv, Quotes!Rows
    <3> QED BY Zenon, <3>1 DEF Quotes!QuotesInv, Quotes!OneRowPerKey, Quotes!AnsweredByRow
  <2>2. CASE answers[k] = {} BY <2>2, FS_EmptySet
  <2>3. ASSUME NEW i \in answers[k] PROVE Cardinality(answers[k]) <= 1
    <3>1. answers[k] = {i} BY Zenon, <2>1
    <3>2. Cardinality({i}) = 1 BY Zenon, FS_Singleton
    <3> QED BY <3>1, <3>2
  <2> QED BY Zenon, <2>2, <2>3
<1> QED BY <1>1, QuotesInductive, PTL

\* A creation that started is never restarted on other terms (store.mjs accept).
THEOREM RequestAlwaysFinal == ASSUME QuotesConstants PROVE Quotes!Spec => [][Quotes!RequestIsFinal]_(Quotes!vars)
<1>1. [Quotes!Next]_(Quotes!vars) => [Quotes!RequestIsFinal]_(Quotes!vars)
  <2> SUFFICES ASSUME Quotes!Next, accepted # Quotes!NoRequest PROVE accepted' = accepted
    BY Zenon DEF Quotes!RequestIsFinal
  <2>1. CASE Quotes!Tick BY Zenon, <2>1 DEF Quotes!Tick
  <2>2. ASSUME NEW t \in Tabs, Quotes!Load(t) \/ Quotes!Issue(t) PROVE accepted' = accepted
    BY Zenon, <2>2 DEF Quotes!Load, Quotes!Issue
  <2>3. ASSUME NEW t \in Tabs, Quotes!Accept(t) PROVE accepted' = accepted
    BY Zenon, <2>3 DEF Quotes!Accept, Quotes!Refused
  <2>4. ASSUME NEW t \in Tabs, NEW body, Quotes!Save(t, body) PROVE accepted' = accepted
    BY Zenon, <2>4 DEF Quotes!Save
  <2>5. ASSUME NEW t, NEW key, NEW policy, Quotes!QuoteRead(t, key, policy) PROVE accepted' = accepted
    BY Zenon, <2>5 DEF Quotes!QuoteRead
  <2>6. ASSUME NEW t, NEW i, NEW policy, Quotes!AcceptRead(t, i, policy) PROVE accepted' = accepted
    BY Zenon, <2>6 DEF Quotes!AcceptRead
  <2> QED BY Zenon, <2>1, <2>2, <2>3, <2>4, <2>5, <2>6 DEF Quotes!Next
<1> QED BY <1>1, PTL DEF Quotes!Spec
=============================================================================
