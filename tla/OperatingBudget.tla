-------------------------- MODULE OperatingBudget ---------------------------
(***************************************************************************)
(* What the keeper's payer may spend for one campaign: the signer reserves *)
(* a maximum before it signs (signer/operating-budget.mjs), the shared     *)
(* ledger holds it (creation/operating-ledger.mjs), and a reconciliation   *)
(* job replaces the hold by the cost that finalized chain evidence proves  *)
(* (creation/operating-proofs.mjs, operating-costs.mjs,                    *)
(* jobs/operating-reconcile.mjs).  Signers and reconcilers are concurrent  *)
(* and stop at any await.  An operation is bound to one message; two       *)
(* operations may carry the same message bytes, of which the chain executes*)
(* at most one.  A transaction is on the chain here once it is final.      *)
(***************************************************************************)
EXTENDS BudgetAccounting, FiniteSets, FiniteSetsExt

CONSTANTS
  Ops, Message, Maximum,   \* operations, the message and the reserved maximum of each
  Returns,                 \* the operations that return unused reserve to the creator
  Fee,                     \* the network fee of a message
  Signers, Reconcilers,
  Deposit, MaxDeposits     \* bound of the model: credits of Deposit lamports

VARIABLES
  budget, applied,         \* operating_budgets row and budget_operations
  hold, actual,            \* operating_spend_holds: state and proved cost
  shadow, signed,          \* the budget's own packet rows: status and saved signature
  jobs,                    \* operations with an open operating-reconcile job
  released,                \* messages whose signature a caller was given
  chain, paid, late,       \* per message: execution, outflow, validity passed
  signer, reconciler       \* local variables

books   == <<budget, applied, hold, actual, jobs>>
packets == <<shadow, signed>>
ledger  == <<released, chain, paid, late>>
vars    == <<books, packets, ledger, signer, reconciler>>

Messages == {Message[o] : o \in Ops}
AnOp     == CHOOSE o \in Ops : TRUE
IdleSigner == [at |-> "idle", op |-> AnOp]
NoProof    == [status |-> "none", actual |-> 0, returned |-> 0]
IdleReconciler == [at |-> "idle", op |-> AnOp, row |-> "none", proof |-> NoProof]

Init ==
  /\ budget = EmptyBudget /\ applied = <<>>
  /\ hold = [o \in Ops |-> "none"] /\ actual = [o \in Ops |-> 0]
  /\ shadow = [o \in Ops |-> "none"] /\ signed = {} /\ jobs = {} /\ released = {}
  /\ chain = [m \in Messages |-> "none"] /\ paid = [m \in Messages |-> 0]
  /\ late = [m \in Messages |-> FALSE]
  /\ signer = [s \in Signers |-> IdleSigner]
  /\ reconciler = [r \in Reconcilers |-> IdleReconciler]

HeldBy(S) == MapThenSumSet(LAMBDA o : Maximum[o], {o \in S : hold[o] = "held"})
Held == HeldBy(Ops)

-----------------------------------------------------------------------------
(* The signer: reserve(), the signature, recordSignature().                *)
SignerAt(s, p) == signer[s].at = p
SignerGoto(s, p) ==
  signer' = [signer EXCEPT ![s] = IF p = "idle" THEN IdleSigner ELSE [@ EXCEPT !.at = p]]

\* qualify(): the reviewed packet, its cost template and its validity.
Qualify(s, o) ==
  /\ SignerAt(s, "idle") /\ ~late[Message[o]]
  /\ signer' = [signer EXCEPT ![s] = [at |-> "qualified", op |-> o]]
  /\ UNCHANGED <<books, packets, ledger, reconciler>>

\* The shadow row is inserted once; an expired one is refused.
PrepareShadow(s) ==
  LET o == signer[s].op IN
  /\ SignerAt(s, "qualified")
  /\ shadow' = [shadow EXCEPT ![o] = IF @ = "none" THEN "prepared" ELSE @]
  /\ SignerGoto(s, IF shadow[o] = "expired" THEN "idle" ELSE "prepared")
  /\ UNCHANGED <<books, signed, ledger, reconciler>>

\* One message is never held for two operations.
SameMessage(o) == \E p \in Ops \ {o} : Message[p] = Message[o] /\ hold[p] # "none"

Short(o) == Maximum[o] > Available(budget, Held)

\* ledger.hold in one transaction; the reconcile job is part of it.
Hold(s) ==
  LET o == signer[s].op
      granted == hold[o] = "held" \/ (hold[o] = "none" /\ ~SameMessage(o) /\ ~Short(o))
  IN
  /\ SignerAt(s, "prepared")
  /\ hold' = [hold EXCEPT ![o] = IF granted THEN "held" ELSE @]
  /\ jobs' = IF granted THEN jobs \cup {o} ELSE jobs
  /\ SignerGoto(s, IF granted THEN "held" ELSE "idle")
  /\ UNCHANGED <<budget, applied, actual, packets, ledger, reconciler>>

\* recordSignature: read the shadow row, then save the signature by
\* compare-and-set; only a saved signature is given to the caller.
ReadShadow(s) ==
  /\ SignerAt(s, "held")
  /\ SignerGoto(s, IF shadow[signer[s].op] \in {"prepared", "signed"} THEN "signing" ELSE "idle")
  /\ UNCHANGED <<books, packets, ledger, reconciler>>

RecordSignature(s) ==
  LET o == signer[s].op IN
  /\ SignerAt(s, "signing")
  /\ shadow' = [shadow EXCEPT ![o] = IF @ = "prepared" THEN "signed" ELSE @]
  /\ signed' = IF shadow[o] = "prepared" THEN signed \cup {o} ELSE signed
  /\ SignerGoto(s, IF o \in signed' THEN "saved" ELSE "idle")
  /\ UNCHANGED <<books, ledger, reconciler>>

Respond(s) ==
  /\ SignerAt(s, "saved")
  /\ released' = released \cup {Message[signer[s].op]}
  /\ SignerGoto(s, "idle")
  /\ UNCHANGED <<books, packets, chain, paid, late, reconciler>>

\* A timeout, a crash or a lost answer.
SignerStop(s) ==
  /\ ~SignerAt(s, "idle") /\ SignerGoto(s, "idle")
  /\ UNCHANGED <<books, packets, ledger, reconciler>>

-----------------------------------------------------------------------------
(* The reconciliation job: reconcile() around outcome().                   *)
At(r, p) == reconciler[r].at = p
Goto(r, p) == reconciler' = [reconciler EXCEPT ![r].at = p]
Stop(r) == reconciler' = [reconciler EXCEPT ![r] = IdleReconciler]
Prove(r, p, status, n, back) ==
  reconciler' = [reconciler EXCEPT ![r].at = p,
                   ![r].proof = [status |-> status, actual |-> n, returned |-> back]]

\* A settled hold ends the job.
Find(r, o) ==
  /\ At(r, "idle") /\ o \in jobs
  /\ IF hold[o] = "settled" THEN jobs' = jobs \ {o} /\ UNCHANGED reconciler
     ELSE /\ reconciler' = [reconciler EXCEPT ![r].at = "row", ![r].op = o]
          /\ UNCHANGED jobs
  /\ UNCHANGED <<budget, applied, hold, actual, packets, ledger, signer>>

\* outcome(): a row with a signature is judged by the chain, one without only
\* by the finalized height.
ReadRow(r) ==
  LET o == reconciler[r].op IN
  /\ At(r, "row")
  /\ reconciler' = [reconciler EXCEPT ![r].at = IF o \in signed THEN "chain" ELSE "height",
                                      ![r].row = shadow[o]]
  /\ UNCHANGED <<books, packets, ledger, signer>>

ReadHeight(r) ==
  /\ At(r, "height")
  /\ IF late[Message[reconciler[r].op]] THEN Goto(r, "expire") ELSE Stop(r)
  /\ UNCHANGED <<books, packets, ledger, signer>>

\* The compare-and-set prepared -> expired races the signature; a signature
\* that won is judged by the chain.
ExpireUnsigned(r) ==
  LET o == reconciler[r].op IN
  /\ At(r, "expire")
  /\ shadow' = [shadow EXCEPT ![o] =
                  IF reconciler[r].row = "prepared" /\ @ = "prepared" THEN "expired" ELSE @]
  /\ IF o \in signed
     THEN reconciler' = [reconciler EXCEPT ![r].at = "chain", ![r].row = shadow[o]]
     ELSE Prove(r, "settle", "expired", 0, 0)
  /\ UNCHANGED <<books, signed, ledger, signer>>

MissingIsExpired(m) == chain[m] = "none"

\* Expiry of a signed packet (packetStatus): the validity has passed at a
\* finalized height and the retained history does not know the signature.
ExpiryProved(m) == late[m] /\ chain[m] = "none"

\* operatingCostModel: what a success may take from the payer.  A rent template
\* takes up to its ceiling, a return exactly the amount and the fee.
CostTemplate(o) == IF o \in Returns THEN {Maximum[o]} ELSE Fee .. Maximum[o]

\* reconcileOperatingCost: a failure costs the fee; the outflow of a success
\* must fit the template, and only an executed return counts as returned.
Reconciles(o) ==
  paid[Message[o]] \in (IF chain[Message[o]] = "failed" THEN {Fee} ELSE CostTemplate(o))

ReturnedPart(o) ==
  IF o \in Returns /\ chain[Message[o]] = "ok" THEN paid[Message[o]] - Fee ELSE 0

ChainAnswers(r) ==
  LET o == reconciler[r].op  m == Message[o] IN
  /\ At(r, "chain")
  /\ \/ /\ chain[m] # "none" /\ Reconciles(o)
        /\ Prove(r, "progress", "finalized", paid[m], ReturnedPart(o))
     \/ ExpiryProved(m) /\ Prove(r, "progress", "expired", 0, 0)
  /\ UNCHANGED <<books, packets, ledger, signer>>

\* No finalized evidence, a timeout, missing history or a lost lease: the
\* whole hold stays.
NoEvidence(r) ==
  /\ ~At(r, "idle") /\ Stop(r)
  /\ UNCHANGED <<books, packets, ledger, signer>>

\* signedOutcome: the shadow row follows the proof.
Progress(r) ==
  LET o == reconciler[r].op
      to == IF reconciler[r].proof.status = "expired" THEN "expired"
            ELSE IF chain[Message[o]] = "failed" THEN "failed" ELSE "finalized"
  IN
  /\ At(r, "progress")
  /\ shadow' = [shadow EXCEPT ![o] =
                  IF reconciler[r].row = "signed" /\ @ = "signed" THEN to ELSE @]
  /\ Goto(r, "settle")
  /\ UNCHANGED <<books, signed, ledger, signer>>

\* The transaction of reconcile(): release this hold, then debit what was
\* proved; an outcome other than spent (returned) rolls everything back.
Settle(r) ==
  LET o == reconciler[r].op  proof == reconciler[r].proof
      others == HeldBy(Ops \ {o})
      spend == Apply(budget, applied, <<"cost", o>>, "spend",
                     proof.actual - proof.returned, others)
      back  == IF proof.returned = 0 THEN [spend EXCEPT !.outcome = "returned"]
               ELSE Apply(spend.budget, spend.applied, <<"return", o>>, "return",
                          proof.returned, others)
  IN
  /\ At(r, "settle") /\ Stop(r)
  /\ IF hold[o] = "held" /\ spend.outcome = "spent" /\ back.outcome = "returned"
     THEN /\ hold' = [hold EXCEPT ![o] = "settled"]
          /\ actual' = [actual EXCEPT ![o] = proof.actual]
          /\ budget' = back.budget /\ applied' = back.applied
     ELSE UNCHANGED <<hold, actual, budget, applied>>
  /\ UNCHANGED <<jobs, packets, ledger, signer>>

-----------------------------------------------------------------------------
(* Funding and the chain.                                                  *)
Credit ==
  /\ budget.reserved < Deposit * MaxDeposits
  /\ budget' = Change(budget, "reserve", Deposit, Held).budget
  /\ UNCHANGED <<applied, hold, actual, jobs, packets, ledger, signer, reconciler>>

\* A caller broadcasts what it was given.
Execute(m) ==
  /\ m \in released /\ ~late[m] /\ chain[m] = "none"
  /\ \E o \in {p \in Ops : Message[p] = m} :
       \/ chain' = [chain EXCEPT ![m] = "failed"] /\ paid' = [paid EXCEPT ![m] = Fee]
       \/ /\ chain' = [chain EXCEPT ![m] = "ok"]
          /\ \E n \in CostTemplate(o) : paid' = [paid EXCEPT ![m] = n]
  /\ UNCHANGED <<books, packets, released, late, signer, reconciler>>

PassValidity(m) ==
  /\ ~late[m] /\ late' = [late EXCEPT ![m] = TRUE]
  /\ UNCHANGED <<books, packets, released, chain, paid, signer, reconciler>>

SignerStep(s) ==
  \/ \E o \in Ops : Qualify(s, o)
  \/ PrepareShadow(s) \/ Hold(s) \/ ReadShadow(s) \/ RecordSignature(s) \/ Respond(s)
  \/ SignerStop(s)

Work(r) ==
  \/ \E o \in Ops : Find(r, o)
  \/ ReadRow(r) \/ ReadHeight(r) \/ ExpireUnsigned(r) \/ ChainAnswers(r)
  \/ Progress(r) \/ Settle(r)

Next ==
  \/ \E s \in Signers : SignerStep(s)
  \/ \E r \in Reconcilers : Work(r) \/ NoEvidence(r)
  \/ Credit
  \/ \E m \in Messages : Execute(m) \/ PassValidity(m)

Spec == Init /\ [][Next]_vars

-----------------------------------------------------------------------------
Statuses == {"none", "prepared", "signed", "finalized", "failed", "expired"}

(* Every variable keeps its type.                                          *)
TypeOK ==
  /\ budget \in [reserved : Nat, spent : Nat, returned : Nat]
  /\ hold \in [Ops -> {"none", "held", "settled"}] /\ actual \in [Ops -> Nat]
  /\ shadow \in [Ops -> Statuses] /\ signed \subseteq Ops /\ jobs \subseteq Ops
  /\ released \subseteq Messages /\ late \in [Messages -> BOOLEAN]
  /\ chain \in [Messages -> {"none", "ok", "failed"}] /\ paid \in [Messages -> Nat]
  /\ \A s \in Signers : signer[s].at \in
       {"idle", "qualified", "prepared", "held", "signing", "saved"}
  /\ \A r \in Reconcilers : reconciler[r].at \in
       {"idle", "row", "height", "expire", "chain", "progress", "settle"}

(* What has left the payer on the chain, together with what a signature in *)
(* a caller's hands may still take, never exceeds the verified funds: the  *)
(* signer reserves before it signs (operating-budget.mjs reserve), and no  *)
(* hold is released while its message can still be executed.               *)
Exposure(m) ==
  IF chain[m] # "none" THEN paid[m]
  ELSE IF m \in released /\ ~late[m] THEN Max({Maximum[o] : o \in {p \in Ops : Message[p] = m}})
  ELSE 0
OutflowCovered == MapThenSumSet(Exposure, Messages) <= budget.reserved

(* Holds and recorded costs stay within the reserve, so that balance()     *)
(* never meets "Operating exposure exceeds verified funds".                *)
BalanceNeverFails == budget.spent + budget.returned + Held <= budget.reserved

(* The books say what the chain did: a settled hold carries the outflow of *)
(* its executed message, or nothing when the message can never execute,    *)
(* and spent plus returned are exactly the sum of those costs.             *)
BooksMatchChain ==
  /\ \A o \in Ops : hold[o] = "settled" =>
       /\ actual[o] = paid[Message[o]]
       /\ chain[Message[o]] # "none" \/ Message[o] \notin released \/ late[Message[o]]
  /\ budget.spent + budget.returned =
       MapThenSumSet(LAMBDA o : actual[o], {o \in Ops : hold[o] = "settled"})

(* A message is charged to one operation: two operations with the same     *)
(* bytes are never both held or settled (operating-ledger.mjs hold).       *)
ChargedOnce ==
  \A o, p \in Ops : o # p /\ Message[o] = Message[p] => "none" \in {hold[o], hold[p]}

=============================================================================
