--------------------------- MODULE WalletPackets ----------------------------
(***************************************************************************)
(* Transactions a participant's own wallet signs: commits, refunds and     *)
(* claims (localnet/protocol-v2/public-wallet.mjs) and pool trades         *)
(* (localnet/protocol-v3/public-trade.mjs), kept as durable packets        *)
(* (walletPackets of localnet/registry/async-api.mjs).  Requests of several*)
(* tabs and replicas submit, poll, resume and cancel the same packet; every*)
(* await between two reads or writes is a step.  One owner's packets.      *)
(***************************************************************************)
EXTENDS Naturals, FiniteSets

CONSTANTS
  Packets, Trades,      \* Trades \subseteq Packets: packets with a quote that expires
  Requests,             \* requests in progress
  Sigs,                 \* signings of one message (a wallet may choose its priority fee)
  Altered,              \* signings of any other message
  MaxPending            \* 16

VARIABLES
  status, signature,    \* wallet_packets rows ("absent" before prepare)
  quoteLive,            \* the trade's quote has not expired
  open,                 \* the campaign or pool is in a state that allows the action
  req,                  \* local variables of the requests
  chain,                \* what the chain did with the packet's transaction
  sent,                 \* the signings handed to the RPC, per packet
  valid,                \* finalized height <= lastValidBlockHeight
  retained              \* the RPC still has the history of the signing window

rows == <<status, signature>>
net == <<chain, sent, valid, retained, open>>
vars == <<rows, quoteLive, req, net>>

NoSig == "unsigned"
Idle == [at |-> "idle", id |-> "none", sig |-> NoSig, seen |-> "none"]
Closed == {"confirmed", "finalized", "failed", "expired", "cancelled"}
Pending == {p \in Packets : status[p] \notin Closed \cup {"absent"}}

Init ==
  /\ status = [p \in Packets |-> "absent"] /\ signature = [p \in Packets |-> NoSig]
  /\ quoteLive = [p \in Packets |-> TRUE]
  /\ req = [r \in Requests |-> Idle]
  /\ chain = [p \in Packets |-> "none"] /\ sent = [p \in Packets |-> {}]
  /\ open = [p \in Packets |-> TRUE]
  /\ valid = [p \in Packets |-> TRUE] /\ retained = [p \in Packets |-> TRUE]

-----------------------------------------------------------------------------
(* The packet store: each operation is one transaction or one UPDATE.      *)
\* The verified campaign, receipt, recipient and payout accounts allow the action.
ActionOpen(p) == open[p]

\* The verified pool, vaults, mint and clock allow the swap.
PoolOpen(p) == open[p]

\* walletPackets.prepare: a new request key, and room among the pending packets.
Insertable(p) == status[p] = "absent" /\ Cardinality(Pending) < MaxPending

\* prepare builds and prices the message; a repeated request key returns its packet.
Prepare(p) ==
  /\ IF p \in Trades THEN PoolOpen(p) ELSE ActionOpen(p)
  /\ Insertable(p)
  /\ status' = [status EXCEPT ![p] = "prepared"]
  /\ UNCHANGED <<signature, quoteLive, req, net>>

\* progress: never downgrades a known success.
Progressed(p, s, expected) ==
  [status EXCEPT ![p] =
    IF \/ @ \in {"finalized", "cancelled"}
       \/ @ = "confirmed" /\ s # "finalized"
       \/ expected # "any" /\ @ # expected
    THEN @ ELSE s]

\* sign: the first signing is kept, another one is refused.
Signable(p, sig) == signature[p] = sig \/ (signature[p] = NoSig /\ status[p] = "prepared")

Cancel(p) ==
  /\ status[p] = "prepared" /\ signature[p] = NoSig
  /\ status' = [status EXCEPT ![p] = "cancelled"]
  /\ UNCHANGED <<signature, quoteLive, req, net>>

-----------------------------------------------------------------------------
(* Requests.                                                               *)
To(r, at) == req' = [req EXCEPT ![r].at = at]
Done(r) == req' = [req EXCEPT ![r] = Idle]

\* validateApprovedMessage: only the prepared instructions, payer, signers and
\* blockhash, plus a bounded priority fee.
Approved(s) == s \in Sigs

\* validateSignedTrade: the wallet and the temporary account signed that message.
TradeSigned(s) == Approved(s)

\* submit: a closed packet is only shown; an unsigned trade needs a live quote.
Submit(r, p, s) ==
  /\ req[r].at = "idle" /\ status[p] \notin Closed \cup {"absent"}
  /\ p \in Trades /\ signature[p] = NoSig => quoteLive[p]
  /\ IF p \in Trades THEN TradeSigned(s) ELSE Approved(s)
  /\ req' = [req EXCEPT ![r] = [at |-> "sign", id |-> p, sig |-> s, seen |-> "none"]]
  /\ UNCHANGED <<rows, quoteLive, net>>

Sign(r) ==
  LET p == req[r].id  s == req[r].sig IN
  /\ req[r].at = "sign"
  /\ IF Signable(p, s)
     THEN /\ signature' = [signature EXCEPT ![p] = s]
          /\ status' = [status EXCEPT ![p] = IF signature[p] = NoSig THEN "signed" ELSE @]
          /\ To(r, "send")
     ELSE Done(r) /\ UNCHANGED rows
  /\ UNCHANGED <<quoteLive, net>>

\* The RPC may refuse, or accept and lose the answer.
Send(r) ==
  LET p == req[r].id IN
  /\ req[r].at = "send"
  /\ \/ /\ sent' = [sent EXCEPT ![p] = @ \cup {req[r].sig}]
        /\ \E s \in {"submitted", "unknown"} : req' = [req EXCEPT ![r].at = "sent", ![r].seen = s]
     \/ req' = [req EXCEPT ![r].at = "sent", ![r].seen = "unknown"] /\ UNCHANGED sent
  /\ UNCHANGED <<rows, quoteLive, chain, valid, retained, open>>

RecordSent(r) ==
  /\ req[r].at = "sent"
  /\ status' = Progressed(req[r].id, req[r].seen, "any")
  /\ req' = [req EXCEPT ![r].at = "poll", ![r].seen = "none"]
  /\ UNCHANGED <<signature, quoteLive, net>>

\* status (and resume, which then submits the saved signing again).
Poll(r, p) ==
  /\ req[r].at = "idle" /\ status[p] # "absent"
  /\ req' = [req EXCEPT ![r] = [Idle EXCEPT !.at = "poll", !.id = p]]
  /\ UNCHANGED <<rows, quoteLive, net>>

StatusRead(r) ==
  LET p == req[r].id IN
  /\ req[r].at = "poll"
  /\ IF status[p] \in Closed \ {"confirmed"} THEN Done(r)
     ELSE IF signature[p] # NoSig THEN To(r, "lookup")
     ELSE IF valid[p] THEN Done(r) ELSE To(r, "lapse")
  /\ UNCHANGED <<rows, quoteLive, net>>

\* A packet seen unsigned expires only if it is still unsigned.
Lapse(r) ==
  /\ req[r].at = "lapse" /\ Done(r)
  /\ status' = Progressed(req[r].id, "expired", "prepared")
  /\ UNCHANGED <<signature, quoteLive, net>>

Outcome(p) ==
  CASE ~retained[p] -> "none"
    [] chain[p] = "processed" -> "submitted"
    [] chain[p] \in {"confirmed", "finalized"} -> chain[p]
    [] chain[p] = "error" -> "failed"
    [] OTHER -> "none"

\* signedPacketOutcome gives up on a packet only when the second history
\* lookup, after the finalized height passed, also finds nothing.
SecondLookup(r) == Outcome(req[r].id) = "none"

Lookup(r) ==
  LET p == req[r].id IN
  /\ req[r].at = "lookup"
  /\ IF Outcome(p) # "none" THEN req' = [req EXCEPT ![r].at = "record", ![r].seen = Outcome(p)]
     ELSE To(r, "height")
  /\ UNCHANGED <<rows, quoteLive, net>>

Height(r) ==
  LET p == req[r].id IN
  /\ req[r].at = "height"
  /\ IF valid[p] \/ ~retained[p] THEN Done(r) ELSE To(r, "again")
  /\ UNCHANGED <<rows, quoteLive, net>>

LookupAgain(r) ==
  LET p == req[r].id IN
  /\ req[r].at = "again"
  /\ IF ~SecondLookup(r)
       THEN req' = [req EXCEPT ![r].at = "record", ![r].seen = Outcome(p)]
     ELSE IF ~retained[p] THEN Done(r)
     ELSE req' = [req EXCEPT ![r].at = "record", ![r].seen = "expired"]
  /\ UNCHANGED <<rows, quoteLive, net>>

Record(r) ==
  /\ req[r].at = "record" /\ Done(r)
  /\ status' = Progressed(req[r].id, req[r].seen, "any")
  /\ UNCHANGED <<signature, quoteLive, net>>

Step(r) ==
  Sign(r) \/ Send(r) \/ RecordSent(r) \/ StatusRead(r) \/ Lapse(r) \/ Lookup(r)
    \/ Height(r) \/ LookupAgain(r) \/ Record(r)

-----------------------------------------------------------------------------
(* The chain and the clock.                                                *)
Execute(p) ==
  /\ chain[p] = "none" /\ sent[p] # {} /\ valid[p]
  /\ chain' = [chain EXCEPT ![p] = "processed"]
  /\ UNCHANGED <<rows, quoteLive, req, sent, valid, retained, open>>

Confirm(p) ==
  /\ \/ chain[p] = "processed" /\ chain' = [chain EXCEPT ![p] = IF open[p] THEN "confirmed" ELSE "error"]
     \/ chain[p] = "confirmed" /\ chain' = [chain EXCEPT ![p] = "finalized"]
  /\ UNCHANGED <<rows, quoteLive, req, sent, valid, retained, open>>

PassHeight(p) ==
  /\ valid[p] /\ status[p] # "absent" /\ chain[p] \notin {"processed", "confirmed"}
  /\ valid' = [valid EXCEPT ![p] = FALSE]
  /\ UNCHANGED <<rows, quoteLive, req, chain, sent, retained, open>>

Prune(p) ==
  /\ retained[p] /\ ~valid[p] /\ retained' = [retained EXCEPT ![p] = FALSE]
  /\ UNCHANGED <<rows, quoteLive, req, chain, sent, valid, open>>

Close(p) ==
  /\ open[p] /\ open' = [open EXCEPT ![p] = FALSE]
  /\ UNCHANGED <<rows, quoteLive, req, chain, sent, valid, retained>>

QuoteExpires(p) ==
  /\ p \in Trades /\ quoteLive[p] /\ quoteLive' = [quoteLive EXCEPT ![p] = FALSE]
  /\ UNCHANGED <<rows, req, net>>

Next ==
  \/ \E p \in Packets : Prepare(p) \/ Cancel(p)
  \/ \E r \in Requests, p \in Packets : Poll(r, p) \/ \E s \in Sigs \cup Altered : Submit(r, p, s)
  \/ \E r \in Requests : Step(r)
  \/ \E p \in Packets : Execute(p) \/ Confirm(p) \/ PassHeight(p) \/ Prune(p)
                          \/ Close(p) \/ QuoteExpires(p)

Spec == Init /\ [][Next]_vars

-----------------------------------------------------------------------------
(* What the store shows of a packet is true on the chain: a success or an  *)
(* error really happened, and an expired packet can never execute.         *)
ShownOutcomeIsTrue ==
  \A p \in Packets :
    /\ status[p] \in {"confirmed", "finalized"} => chain[p] \in {"confirmed", "finalized"}
    /\ status[p] = "failed" => chain[p] = "error"
    /\ status[p] = "expired" => ~valid[p] /\ chain[p] = "none"
    /\ status[p] = "cancelled" => sent[p] = {}

(* At most one signing of a packet is ever broadcast, the stored one of the*)
(* approved message, so a retry or a second tab never pays twice.          *)
OneSigningSent ==
  \A p \in Packets : sent[p] \subseteq {signature[p]} /\ sent[p] \cap Altered = {}

(* A recorded success is final: no late write of another request undoes it.*)
SuccessIsKept ==
  [][\A p \in Packets :
       /\ status[p] = "finalized" => status'[p] = "finalized"
       /\ status[p] = "confirmed" => status'[p] \in {"confirmed", "finalized"}]_vars

-----------------------------------------------------------------------------
(* The inductive invariant.                                                *)
Ats == {"idle", "sign", "send", "sent", "poll", "lapse", "lookup", "height", "again", "record"}
Seen == {"none", "submitted", "unknown", "confirmed", "finalized", "failed", "expired"}
Asked == [at : Ats \ {"idle"}, id : Packets, sig : Sigs \cup {NoSig}, seen : Seen]
Calls == {Idle} \cup Asked

(* Every variable keeps its type.                                          *)
TypeOK ==
  /\ status \in [Packets -> Closed \cup {"absent", "prepared", "signed", "submitted", "unknown"}]
  /\ signature \in [Packets -> Sigs \cup {NoSig}] /\ sent \in [Packets -> SUBSET Sigs]
  /\ chain \in [Packets -> {"none", "processed", "confirmed", "finalized", "error"}]
  /\ valid \in [Packets -> BOOLEAN] /\ retained \in [Packets -> BOOLEAN]
  /\ open \in [Packets -> BOOLEAN] /\ quoteLive \in [Packets -> BOOLEAN]
  /\ req \in [Requests -> Calls]

(* A row is signed exactly when its status says so, only the kept signing   *)
(* was sent, only what was sent is in a block, a packet in an unfinished    *)
(* block is within its height, and what the row shows is true.              *)
RowTrue(p) ==
  /\ signature[p] = NoSig => status[p] \in {"absent", "prepared", "cancelled", "expired"}
  /\ status[p] \in {"absent", "prepared", "cancelled"} => signature[p] = NoSig
  /\ sent[p] \subseteq {signature[p]}
  /\ chain[p] # "none" => sent[p] # {}
  /\ chain[p] \in {"processed", "confirmed"} => valid[p]
  /\ status[p] \in {"confirmed", "finalized"} => chain[p] \in {"confirmed", "finalized"}
  /\ status[p] = "failed" => chain[p] = "error"
  /\ status[p] = "expired" => ~valid[p] /\ chain[p] = "none"

(* What a request learned before an await is still true after it: the        *)
(* signing it is about to send is the kept one, a height once passed stays   *)
(* passed, and an answer of the chain stays its answer.                      *)
Learned(p, s) ==
  /\ s \in {"confirmed", "finalized"} => chain[p] \in {"confirmed", "finalized"}
  /\ s = "failed" => chain[p] = "error"
  /\ s = "expired" => ~valid[p] /\ chain[p] = "none"
CallTrue(r) ==
  LET c == req[r] IN
  /\ c.at = "sign" => c.sig # NoSig
  /\ c.at \in {"send", "sent"} => c.sig # NoSig /\ signature[c.id] = c.sig
  /\ c.at = "sent" => c.seen \in {"submitted", "unknown"}
  /\ c.at = "lapse" => ~valid[c.id]
  /\ c.at \in {"lookup", "height", "again", "record"} => signature[c.id] # NoSig
  /\ c.at = "again" => ~valid[c.id]
  /\ c.at = "record" => c.seen # "none" /\ Learned(c.id, c.seen)

WalletInv ==
  /\ TypeOK
  /\ \A p \in Packets : RowTrue(p)
  /\ \A r \in Requests : CallTrue(r)
=============================================================================
