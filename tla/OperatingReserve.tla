-------------------------- MODULE OperatingReserve --------------------------
(***************************************************************************)
(* The creator's operating reserve                                         *)
(* (localnet/creation/operating-reserve.mjs): one creator-signed transfer, *)
(* journaled as an operator packet, credited to the campaign's budget from *)
(* finalized chain evidence only (creation/operating-ledger.mjs credit,    *)
(* operating-proofs.mjs verifyFunding).  Requests of the same creator run  *)
(* concurrently and stop at any await.  Under the one-transaction creation *)
(* (oneTransaction) the transfer rides in the finalized creation packet    *)
(* and is journaled and credited by creditFromCreation instead.            *)
(*                                                                         *)
(* A confirmed execution is taken as lasting (optimistic confirmation); the*)
(* server alone broadcasts, and only rows whose signature it has saved.    *)
(***************************************************************************)
EXTENDS BudgetAccounting, FiniteSets

CONSTANTS
  Requests,         \* concurrent HTTP requests
  Lamports,         \* the reserve of the accepted quote
  MaxAttempts       \* bound of the model

VARIABLES
  oneTransaction,   \* the accepted request's mint plan has version 2 or 3
  status, credited, \* journal rows: status and result.credited, row k is attempt k
  offered,          \* attempts whose packet the wallet was shown
  budget, receipts, \* the budget row and operating_funding_receipts
  chain, late,      \* per attempt: execution and finalized validity
  request           \* local variables of each request

journal == <<status, credited>>
vars == <<oneTransaction, journal, offered, budget, receipts, chain, late, request>>

Attempts == 1 .. MaxAttempts
Count  == Cardinality({k \in Attempts : status[k] # "none"})
Latest == IF Count = 0 THEN "none" ELSE status[Count]
Settled == {"failed", "expired"}
Idle == [at |-> "idle", row |-> 0, st |-> "none", to |-> "none"]

Init ==
  /\ oneTransaction \in BOOLEAN
  /\ status = [k \in Attempts |-> "none"] /\ credited = [k \in Attempts |-> FALSE]
  /\ offered = {} /\ budget = EmptyBudget /\ receipts = {}
  /\ chain = [k \in Attempts |-> IF oneTransaction /\ k = 1 THEN "finalized" ELSE "none"]
  /\ late = [k \in Attempts |-> FALSE] /\ request = [r \in Requests |-> Idle]

At(r, p) == request[r].at = p
Row(r) == request[r].row
Read(r, p, k, s) == request' = [request EXCEPT ![r] = [at |-> p, row |-> k, st |-> s, to |-> "none"]]
Goto(r, p) == request' = [request EXCEPT ![r].at = p]
Return(r) == request' = [request EXCEPT ![r] = Idle]

\* operatorPackets.progress: compare-and-set from the status that was read.
Moved(r, to) == [status EXCEPT ![Row(r)] = IF @ = request[r].st THEN to ELSE @]

-----------------------------------------------------------------------------
(* prepare() and recover(): offer the open packet or replace a settled one.*)
Prepare(r) ==
  /\ At(r, "idle") /\ ~oneTransaction
  /\ \/ Latest = "prepared" /\ Read(r, "validity", Count, "prepared")
     \/ Latest \in {"none"} \cup Settled /\ Read(r, "insert", Count, Latest)
  /\ UNCHANGED <<oneTransaction, journal, offered, budget, receipts, chain, late>>

\* isBlockhashValid at confirmed: a lagging node may deny a valid blockhash.
CheckValidity(r) ==
  /\ At(r, "validity")
  /\ \/ ~late[Row(r)] /\ offered' = offered \cup {Row(r)} /\ Return(r)
     \/ Goto(r, "expire") /\ UNCHANGED offered
  /\ UNCHANGED <<oneTransaction, journal, budget, receipts, chain, late>>

\* Only an unsigned offer expires here; a signature that arrived first wins.
ExpireOffer(r) ==
  /\ At(r, "expire")
  /\ status' = Moved(r, "expired")
  /\ IF status'[Row(r)] = "expired" THEN Goto(r, "insert") ELSE Return(r)
  /\ UNCHANGED <<oneTransaction, credited, offered, budget, receipts, chain, late>>

\* journal.prepare inserts after a settled newest row; then the newest row is
\* offered if it is still unsigned.
Insert(r) ==
  LET k == Row(r) + 1
      insert == k <= MaxAttempts /\ Count = Row(r) /\ Latest \in {"none"} \cup Settled
  IN
  /\ At(r, "insert") /\ Return(r)
  /\ status' = IF insert THEN [status EXCEPT ![k] = "prepared"] ELSE status
  /\ offered' = IF insert THEN offered \cup {k}
                ELSE IF Latest = "prepared" THEN offered \cup {Count} ELSE offered
  /\ UNCHANGED <<oneTransaction, credited, budget, receipts, chain, late>>

-----------------------------------------------------------------------------
(* submit(): the wallet's signature of an offered packet.                  *)
Broadcastable(k) == ~late[k] /\ chain[k] = "none"

\* A best-effort broadcast may be lost; the chain executes a packet once.
Broadcast(k) ==
  \/ UNCHANGED chain
  \/ Broadcastable(k) /\ \E x \in {"landed", "broken"} : chain' = [chain EXCEPT ![k] = x]

Submit(r, k) ==
  /\ At(r, "idle") /\ ~oneTransaction /\ k \in offered
  /\ \/ status[k] = "prepared" /\ Read(r, "sign", k, "prepared") /\ UNCHANGED chain
     \/ status[k] \in {"signed", "confirmed", "finalized"} /\ Broadcast(k) /\ UNCHANGED request
  /\ UNCHANGED <<oneTransaction, journal, offered, budget, receipts, late>>

\* journal.sign saves the signature of a row that is still prepared, or the
\* request is refused and nothing is broadcast.
Sign(r) ==
  /\ At(r, "sign") /\ Return(r)
  /\ status' = Moved(r, "signed")
  /\ IF status'[Row(r)] = "signed" THEN Broadcast(Row(r)) ELSE UNCHANGED chain
  /\ UNCHANGED <<oneTransaction, credited, offered, budget, receipts, late>>

-----------------------------------------------------------------------------
(* resume() and creditFromCreation().                                      *)
Resume(r) ==
  /\ At(r, "idle") /\ ~oneTransaction /\ Latest \in {"signed", "confirmed"}
  /\ Read(r, "status", Count, Latest)
  /\ UNCHANGED <<oneTransaction, journal, offered, budget, receipts, chain, late>>

\* packetStatus, and a new broadcast of a packet the chain does not know.
ReadStatus(r) ==
  LET k == Row(r) IN
  /\ At(r, "status")
  /\ \/ /\ chain[k] \in {"failed"} \/ (chain[k] = "none" /\ late[k])
        /\ request[r].st = "signed"
        /\ request' = [request EXCEPT ![r].at = "progress",
                                      ![r].to = IF chain[k] = "failed" THEN "failed" ELSE "expired"]
        /\ UNCHANGED chain
     \/ chain[k] = "finalized" /\ Goto(r, "credit") /\ UNCHANGED chain
     \/ /\ chain[k] \in {"landed", "finalized"} /\ request[r].st = "signed"
        /\ request' = [request EXCEPT ![r].at = "progress", ![r].to = "confirmed"]
        /\ UNCHANGED chain
     \/ Return(r) /\ Broadcast(k)
  /\ UNCHANGED <<oneTransaction, journal, offered, budget, receipts, late>>

Progress(r) ==
  /\ At(r, "progress") /\ Return(r)
  /\ status' = Moved(r, request[r].to)
  /\ UNCHANGED <<oneTransaction, credited, offered, budget, receipts, chain, late>>

\* The creation packet becomes row 1; a row that exists is used as it is.
CreationInsert(r) ==
  /\ At(r, "idle") /\ oneTransaction /\ ~credited[1]
  /\ status' = [status EXCEPT ![1] = IF @ = "none" THEN "prepared" ELSE @]
  /\ Read(r, "creation", 1, status'[1])
  /\ UNCHANGED <<oneTransaction, credited, offered, budget, receipts, chain, late>>

CreationSign(r) ==
  /\ At(r, "creation")
  /\ status' = [status EXCEPT ![1] = IF @ = "prepared" THEN "signed" ELSE @]
  /\ Read(r, "credit", 1, status'[1])
  /\ UNCHANGED <<oneTransaction, credited, offered, budget, receipts, chain, late>>

\* verifyFunding: the newest packet of this reserve, finalized and successful.
FundingProved(r) == Row(r) = Count /\ chain[Row(r)] = "finalized"

\* ledger.credit: the receipt and the reserve in one transaction, once per
\* signature.
Credit(r) ==
  /\ At(r, "credit") /\ FundingProved(r)
  /\ receipts' = receipts \cup {Row(r)}
  /\ budget' = IF Row(r) \in receipts THEN budget
               ELSE Change(budget, "reserve", Lamports, 0).budget
  /\ Goto(r, "journal")
  /\ UNCHANGED <<oneTransaction, journal, offered, chain, late>>

\* The row is finalized with credited = true; only then is the stage complete.
Journal(r) ==
  LET k == Row(r)  moves == status[k] = request[r].st /\ status[k] \in {"signed", "confirmed"} IN
  /\ At(r, "journal") /\ Return(r)
  /\ status' = IF moves THEN [status EXCEPT ![k] = "finalized"] ELSE status
  /\ credited' = IF moves THEN [credited EXCEPT ![k] = TRUE] ELSE credited
  /\ UNCHANGED <<oneTransaction, offered, budget, receipts, chain, late>>

\* A timeout, a refusal by the proof reader or a restart of the server.
Interrupt(r) ==
  /\ ~At(r, "idle") /\ Return(r)
  /\ UNCHANGED <<oneTransaction, journal, offered, budget, receipts, chain, late>>

-----------------------------------------------------------------------------
Finalize(k) ==
  /\ chain[k] \in {"landed", "broken"}
  /\ chain' = [chain EXCEPT ![k] = IF @ = "landed" THEN "finalized" ELSE "failed"]
  /\ UNCHANGED <<oneTransaction, journal, offered, budget, receipts, late, request>>

PassValidity(k) ==
  /\ k <= Count /\ ~late[k] /\ chain[k] \notin {"landed", "broken"}
  /\ late' = [late EXCEPT ![k] = TRUE]
  /\ UNCHANGED <<oneTransaction, journal, offered, budget, receipts, chain, request>>

Step(r) ==
  \/ Prepare(r) \/ CheckValidity(r) \/ ExpireOffer(r) \/ Insert(r)
  \/ (\E k \in Attempts : Submit(r, k)) \/ Sign(r)
  \/ Resume(r) \/ ReadStatus(r) \/ Progress(r)
  \/ CreationInsert(r) \/ CreationSign(r) \/ Credit(r) \/ Journal(r) \/ Interrupt(r)

Next ==
  \/ \E r \in Requests : Step(r)
  \/ \E k \in Attempts : Finalize(k) \/ PassValidity(k)

Spec == Init /\ [][Next]_vars

-----------------------------------------------------------------------------
(* Every variable keeps its type, and the journal rows have no gap.        *)
TypeOK ==
  /\ status \in [Attempts -> {"none", "prepared", "signed", "confirmed", "finalized"} \cup Settled]
  /\ \A k \in Attempts : k > Count => status[k] = "none"
  /\ budget \in [reserved : Nat, spent : Nat, returned : Nat]
  /\ offered \subseteq Attempts /\ receipts \subseteq Attempts
  /\ chain \in [Attempts -> {"none", "landed", "broken", "finalized", "failed"}]
  /\ \A r \in Requests : Row(r) \in 0 .. MaxAttempts

(* The budget holds exactly the transfers that finalized evidence shows,   *)
(* each counted once, although a request may stop between the credit and   *)
(* the journal and another repeats it (operating-reserve.mjs credit).      *)
CreditedExactlyOnce ==
  /\ budget.reserved = Lamports * Cardinality(receipts)
  /\ \A k \in receipts : chain[k] = "finalized"

(* The creator is told "credited" only for a transfer in the budget.       *)
CreditedIsInBudget == \A k \in Attempts : credited[k] => k \in receipts

(* The creator pays the reserve once: no two attempts are ever executed,   *)
(* because an attempt is replaced only when it can no longer execute.      *)
PaidOnce == Cardinality({k \in Attempts : chain[k] \in {"landed", "finalized"}}) <= 1

(* What keeps them true between the steps of concurrent requests.          *)
Statuses == {"none", "prepared", "signed", "confirmed", "finalized", "failed", "expired"}
Executions == {"none", "landed", "broken", "finalized", "failed"}
Places == {"idle", "validity", "expire", "insert", "sign", "status", "progress", "creation", "credit",
           "journal"}
Locals == [at : Places, row : 0 .. MaxAttempts, st : Statuses, to : Statuses]
Types ==
  /\ oneTransaction \in BOOLEAN /\ status \in [Attempts -> Statuses]
  /\ credited \in [Attempts -> BOOLEAN] /\ offered \subseteq Attempts /\ receipts \subseteq Attempts
  /\ budget \in [reserved : Nat, spent : Nat, returned : Nat]
  /\ chain \in [Attempts -> Executions] /\ late \in [Attempts -> BOOLEAN]
  /\ request \in [Requests -> Locals]

\* The rows have no gap, and only the newest is open.
Gapless ==
  /\ Count \in 0 .. MaxAttempts
  /\ \A k \in Attempts : (status[k] # "none") <=> k <= Count
  /\ \A k \in Attempts : k < Count => status[k] \in Settled

\* A settled row had no effect, and a packet on the chain has a signed row.
RowTrue(k) ==
  /\ status[k] = "expired" => chain[k] = "none"
  /\ status[k] = "failed" => chain[k] = "failed"
  /\ chain[k] # "none" => \/ oneTransaction /\ k = 1
                          \/ status[k] \in {"signed", "confirmed", "finalized", "failed"}
OneRow ==
  oneTransaction => /\ chain[1] = "finalized" /\ status[1] \notin Settled
                    /\ \A k \in Attempts : k > 1 => status[k] = "none"

\* What a request holds true of the row it read before an await.
Wallet(r) ==
  At(r, "validity") \/ At(r, "expire") \/ At(r, "insert") \/ At(r, "sign") \/ At(r, "status")
    \/ At(r, "progress") => ~oneTransaction
Knows(r) ==
  /\ Wallet(r)
  /\ ~At(r, "idle") /\ ~At(r, "insert") => Row(r) \in Attempts
  /\ At(r, "validity") \/ At(r, "expire") \/ At(r, "sign") => request[r].st = "prepared"
  /\ At(r, "status") => \/ status[Row(r)] \in {"signed", "confirmed", "finalized", "failed"}
                        \/ status[Row(r)] = "expired" /\ late[Row(r)]
  /\ At(r, "progress") =>
       /\ request[r].st = "signed" /\ request[r].to \in {"expired", "failed", "confirmed"}
       /\ request[r].to = "expired" => chain[Row(r)] = "none" /\ late[Row(r)]
       /\ request[r].to = "failed" => chain[Row(r)] = "failed"
  /\ At(r, "creation") => oneTransaction /\ Row(r) = 1
  /\ At(r, "journal") => Row(r) \in receipts

ReserveInv ==
  /\ Types /\ Gapless /\ OneRow /\ CreditedExactlyOnce /\ CreditedIsInBudget
  /\ \A k \in Attempts : RowTrue(k)
  /\ \A r \in Requests : Knows(r)
=============================================================================
