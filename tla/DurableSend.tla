---------------------------- MODULE DurableSend -----------------------------
(***************************************************************************)
(* The operator outbox: localnet/protocol-v2/durable-send.mjs over the     *)
(* packet journal registry/operator-packets.mjs, for one operation.        *)
(* Several workers send the same operation, may crash between any two      *)
(* awaits and talk to a chain through RPC nodes that lag, forget old       *)
(* history or lose a broadcast.  Every step of a worker ends at an await.  *)
(*                                                                         *)
(* A packet is its attempt number: the journal never changes the message   *)
(* of an attempt, and signing the same message again gives the same bytes. *)
(* Slots and block heights are one counter.  The chain may drop blocks     *)
(* that are not final and include the packets again or not.                *)
(***************************************************************************)
EXTENDS Integers

CONSTANTS
  Workers,
  Commitment,      \* what a worker calls confirmed: "confirmed" or "finalized"
  Validity,        \* how many blocks a blockhash stays valid
  MaxAttempts, MaxHeight, MaxObserved, MaxPrune      \* bounds of the model

ASSUME DurableSendConstants ==
  /\ Commitment \in [Workers -> {"confirmed", "finalized"}]
  /\ Validity \in Nat /\ MaxAttempts \in Nat /\ MaxHeight \in Nat
  /\ MaxObserved \in Nat /\ MaxPrune \in Nat

VARIABLES
  \* the journal: rows 1 .. count
  count, status, last, observed, sig,
  \* the chain: height, final height, oldest retained block, packets in flight,
  \* the block that holds a packet (0: none) and whether its execution succeeded
  tip, fin, first, inFlight, land, ok,
  worker           \* the local variables of each worker's send()

journal == <<count, status, last, observed, sig>>
chain   == <<tip, fin, first, inFlight, land, ok>>
vars    == <<journal, chain, worker>>

Attempts == 1 .. MaxAttempts
Statuses == {"none", "prepared", "signed", "confirmed", "finalized", "failed", "expired"}
Settled  == {"failed", "expired"}

\* att, st: attempt and status of the row it read; to: the status it will write;
\* slot: the slot of its last observation; out: what its last send returned.
Pcs == {"idle", "status", "epoch", "kept", "again", "still", "resolve", "build",
        "insert", "reread", "height", "expire", "sign", "send", "confirm"}

Outcomes == {"none", "confirmed", "unknown", "failed"}

Local ==
  [pc   : Pcs,
   mode : {"send", "reconcile"},
   att  : 0 .. MaxAttempts, st : Statuses, to : Statuses, slot : Nat,
   out  : Outcomes]

Idle(o) == [pc |-> "idle", mode |-> "send", att |-> 0, st |-> "none", to |-> "none",
            slot |-> 0, out |-> o]

Init ==
  /\ count = 0 /\ status = [a \in Attempts |-> "none"]
  /\ last = [a \in Attempts |-> 0] /\ observed = [a \in Attempts |-> 0]
  /\ sig = [a \in Attempts |-> FALSE]
  /\ tip = 1 /\ fin = 1 /\ first = 0 /\ inFlight = {}
  /\ land = [a \in Attempts |-> 0] /\ ok = [a \in Attempts |-> FALSE]
  /\ worker = [w \in Workers |-> Idle("none")]

-----------------------------------------------------------------------------
At(w, p) == worker[w].pc = p
Att(w) == worker[w].att

Goto(w, p) == worker' = [worker EXCEPT ![w].pc = p]
Observe(w, p, s) == worker' = [worker EXCEPT ![w].pc = p, ![w].slot = s]
Enter(w, p, m, a, s) ==
  worker' = [worker EXCEPT ![w] = [pc |-> p, mode |-> m, att |-> a, st |-> s, to |-> "none",
                                   slot |-> 0, out |-> "none"]]
Advance(w, s) == worker' = [worker EXCEPT ![w].pc = "resolve", ![w].to = s]
Return(w, o) == worker' = [worker EXCEPT ![w] = Idle(o)]

Accepted(w, s) == s = "finalized" \/ (s = "confirmed" /\ Commitment[w] = "confirmed")

\* What send() returns for a row that is settled or confirmed.
Outcome(w, s) ==
  IF Accepted(w, s) THEN "confirmed" ELSE IF s \in Settled THEN "failed" ELSE "unknown"

Latest == IF count = 0 THEN "none" ELSE status[count]

(* send(): the newest row decides.                                         *)
Begin(w) ==
  /\ At(w, "idle")
  /\ \/ Accepted(w, Latest) /\ Return(w, "confirmed")
     \/ /\ ~Accepted(w, Latest) /\ Latest \in {"signed", "confirmed"}
        /\ Enter(w, "status", "send", count, Latest)
     \/ Latest \in {"none"} \cup Settled /\ Enter(w, "build", "send", count, Latest)
     \/ Latest = "prepared" /\ Enter(w, "height", "send", count, Latest)
  /\ UNCHANGED <<journal, chain>>

(* The job's reconcile step (signatureStatus): a named attempt, read only, *)
(* but chain evidence is written to the journal.                           *)
Reconcile(w, a) ==
  /\ At(w, "idle") /\ a <= count /\ sig[a]
  /\ \/ status[a] \in {"finalized"} \cup Settled
        /\ Return(w, IF status[a] = "finalized" THEN "confirmed" ELSE "failed")
     \/ status[a] \in {"signed", "confirmed"} /\ Enter(w, "status", "reconcile", a, status[a])
  /\ UNCHANGED <<journal, chain>>

-----------------------------------------------------------------------------
(* packetStatus: two reads of the signature status around a reading of the *)
(* finalized height, with the retained history checked on both sides.      *)

\* What a node at slot v may answer; a block before first may be forgotten.
Seen(a, v) == land[a] # 0 /\ land[a] <= v

Verdicts(a, v) ==
  IF ~Seen(a, v) THEN {"absent"}
  ELSE {"observed"} \cup (IF ok[a] THEN {"confirmed"} ELSE {})
         \cup (IF land[a] <= fin THEN {IF ok[a] THEN "finalized" ELSE "failed"} ELSE {})
         \cup (IF land[a] < first THEN {"absent"} ELSE {})

\* A signature that is not known to the chain: a signed packet is sent again.
Unresolved(w) ==
  IF worker[w].mode = "send" /\ worker[w].st = "signed" THEN Goto(w, "send")
  ELSE Return(w, "unknown")

\* A signature the chain knows.  A confirmed row only ever becomes finalized.
Judge(w, r) ==
  \/ r = "observed" /\ Return(w, "unknown")
  \/ r = "confirmed" /\ IF Commitment[w] = "finalized" THEN Return(w, "unknown")
                        ELSE Advance(w, "confirmed")
  \/ r = "finalized" /\ Advance(w, "finalized")
  \/ r \in Settled /\ IF worker[w].st = "signed" THEN Advance(w, r)
                      ELSE Return(w, IF worker[w].mode = "send" THEN "unknown" ELSE "failed")

ReadStatus(w) ==
  /\ At(w, "status")
  /\ \E v \in 0 .. tip : \E r \in Verdicts(Att(w), v) :
       IF r = "absent" THEN Goto(w, "epoch") ELSE Judge(w, r)
  /\ UNCHANGED <<journal, chain>>

ReadEpoch(w) ==
  /\ At(w, "epoch")
  /\ \E g \in 0 .. fin : IF g > last[Att(w)] THEN Observe(w, "kept", g) ELSE Unresolved(w)
  /\ UNCHANGED <<journal, chain>>

HistoryUnchecked(w) == TRUE

\* The whole signing window is still retained.
HistoryKept(w) == first <= observed[Att(w)]

ReadKept(w) ==
  /\ At(w, "kept")
  /\ IF HistoryKept(w) THEN Goto(w, "again") ELSE Unresolved(w)
  /\ UNCHANGED <<journal, chain>>

AnyAnswer(w, v) == TRUE

\* A lagging node's answer does not count: its view must reach the finalized
\* slot at which the validity had passed.
FreshEnough(w, v) == v >= worker[w].slot

ReadAgain(w) ==
  /\ At(w, "again")
  /\ \E v \in 0 .. tip : \E r \in Verdicts(Att(w), v) :
       IF r # "absent" THEN Judge(w, r)
       ELSE IF FreshEnough(w, v) THEN Goto(w, "still") ELSE Unresolved(w)
  /\ UNCHANGED <<journal, chain>>

ReadStill(w) ==
  /\ At(w, "still")
  /\ IF HistoryKept(w) THEN Judge(w, "expired") ELSE Unresolved(w)
  /\ UNCHANGED <<journal, chain>>

(* journal.progress: compare-and-set from the status that was read.        *)
ResolveBlindly(w) == worker[w].to

Resolved(w) == IF status[Att(w)] = worker[w].st THEN worker[w].to ELSE status[Att(w)]

Resolve(w) ==
  /\ At(w, "resolve")
  /\ status' = [status EXCEPT ![Att(w)] = Resolved(w)]
  /\ Return(w, Outcome(w, IF worker[w].mode = "send" THEN Resolved(w) ELSE worker[w].to))
  /\ UNCHANGED <<count, last, observed, sig, chain>>

-----------------------------------------------------------------------------
(* A new attempt: read a blockhash, insert the packet if the previous one  *)
(* is settled and still the newest, then go by whatever row is newest.     *)

Build(w) ==
  /\ At(w, "build") /\ Att(w) < MaxAttempts
  /\ \E v \in 1 .. (IF Commitment[w] = "finalized" THEN fin ELSE tip) :
       v <= MaxObserved /\ Observe(w, "insert", v)
  /\ UNCHANGED <<journal, chain>>

\* The two INSERT ... SELECT of journal.prepare.
Insertable(w) ==
  /\ count = Att(w)
  /\ Att(w) # 0 => status[Att(w)] \in Settled

Insert(w) ==
  /\ At(w, "insert")
  /\ IF Insertable(w)
     THEN LET n == Att(w) + 1 IN
          /\ count' = n
          /\ status' = [status EXCEPT ![n] = "prepared"]
          /\ observed' = [observed EXCEPT ![n] = worker[w].slot]
          /\ last' = [last EXCEPT ![n] = worker[w].slot + Validity]
          /\ UNCHANGED sig
     ELSE UNCHANGED journal
  /\ Goto(w, "reread")
  /\ UNCHANGED chain

Reread(w) ==
  /\ At(w, "reread")
  /\ IF Latest = "prepared" THEN Enter(w, "height", "send", count, Latest)
     ELSE Return(w, Outcome(w, Latest))
  /\ UNCHANGED <<journal, chain>>

(* A prepared packet: too old, or signed.                                  *)
CheckHeight(w) ==
  /\ At(w, "height")
  /\ \E g \in 0 .. fin : Goto(w, IF g > last[Att(w)] THEN "expire" ELSE "sign")
  /\ UNCHANGED <<journal, chain>>

Expire(w) ==
  /\ At(w, "expire")
  /\ status' = [status EXCEPT ![Att(w)] = IF @ = "prepared" THEN "expired" ELSE @]
  /\ Return(w, IF status'[Att(w)] = "signed" THEN "unknown" ELSE "failed")
  /\ UNCHANGED <<count, last, observed, sig, chain>>

Signable(w) == status[Att(w)] = "prepared"

\* The keeper signs; journal.sign stores the bytes or finds the same ones.
Sign(w) ==
  LET a == Att(w) IN
  /\ At(w, "sign")
  /\ status' = IF Signable(w) THEN [status EXCEPT ![a] = "signed"] ELSE status
  /\ sig' = IF Signable(w) THEN [sig EXCEPT ![a] = TRUE] ELSE sig
  /\ IF status'[a] = "signed" THEN Enter(w, "send", "send", a, "signed")
     ELSE Return(w, IF sig[a] THEN Outcome(w, status[a]) ELSE "failed")
  /\ UNCHANGED <<count, last, observed, chain>>

(* sendRawTransaction: the bytes may or may not have left when it fails.   *)
Broadcast(w) ==
  /\ At(w, "send")
  /\ \/ inFlight' = inFlight \cup {Att(w)} /\ (Goto(w, "confirm") \/ Return(w, "unknown"))
     \/ inFlight' = inFlight /\ Return(w, "unknown")
  /\ UNCHANGED <<journal, tip, fin, first, land, ok>>

ConfirmsAt(w, a) ==
  land[a] # 0 /\ ok[a] /\ (Commitment[w] = "finalized" => land[a] <= fin)

\* confirmTransaction: a timeout, an error or an interruption is no verdict.
Confirm(w) ==
  /\ At(w, "confirm")
  /\ \/ Return(w, "unknown")
     \/ ConfirmsAt(w, Att(w)) /\ Advance(w, Commitment[w])
  /\ UNCHANGED <<journal, chain>>

(* The process dies, loses its lease, or an RPC error is thrown.           *)
Crash(w) ==
  /\ ~At(w, "idle")
  /\ Return(w, "none")
  /\ UNCHANGED <<journal, chain>>

-----------------------------------------------------------------------------
(* The chain.                                                              *)

Block ==
  /\ tip < MaxHeight
  /\ tip' = tip + 1
  /\ UNCHANGED <<journal, worker, fin, first, inFlight, land, ok>>

\* A packet goes into the newest block, after the block of its blockhash and
\* while that is valid; a packet is never executed twice on one fork.
Include(a) ==
  /\ a \in inFlight /\ land[a] = 0
  /\ fin < tip /\ observed[a] < tip /\ tip <= last[a]
  /\ land' = [land EXCEPT ![a] = tip]
  /\ \E b \in BOOLEAN : ok' = [ok EXCEPT ![a] = b]
  /\ UNCHANGED <<journal, worker, tip, fin, first, inFlight>>

Finalize ==
  /\ fin < tip
  /\ fin' = fin + 1
  /\ UNCHANGED <<journal, worker, tip, first, inFlight, land, ok>>

\* Blocks above h are dropped for another fork.
Fork(h) ==
  /\ fin <= h /\ h < tip
  /\ tip' = h
  /\ land' = [a \in Attempts |-> IF land[a] > h THEN 0 ELSE land[a]]
  /\ ok' = [a \in Attempts |-> ok[a] /\ land[a] <= h]
  /\ UNCHANGED <<journal, worker, fin, first, inFlight>>

Prune ==
  /\ first < fin /\ first < MaxPrune
  /\ first' = first + 1
  /\ UNCHANGED <<journal, worker, tip, fin, inFlight, land, ok>>

WorkerStep(w) ==
  \/ Begin(w) \/ (\E a \in Attempts : Reconcile(w, a))
  \/ ReadStatus(w) \/ ReadEpoch(w) \/ ReadKept(w) \/ ReadAgain(w) \/ ReadStill(w) \/ Resolve(w)
  \/ Build(w) \/ Insert(w) \/ Reread(w)
  \/ CheckHeight(w) \/ Expire(w) \/ Sign(w) \/ Broadcast(w) \/ Confirm(w)
  \/ Crash(w)

Next ==
  \/ \E w \in Workers : WorkerStep(w)
  \/ Block \/ Finalize \/ Prune
  \/ \E a \in Attempts : Include(a)
  \/ \E h \in 0 .. MaxHeight : Fork(h)

Spec == Init /\ [][Next]_vars

-----------------------------------------------------------------------------
(* Properties.                                                             *)

\* The journal, the chain and the workers hold values of their kinds.
TypeOK ==
  /\ status \in [Attempts -> Statuses] /\ count \in 0 .. MaxAttempts
  /\ last \in [Attempts -> Nat] /\ observed \in [Attempts -> Nat]
  /\ sig \in [Attempts -> BOOLEAN]
  /\ tip \in Nat /\ fin \in Nat /\ first \in Nat /\ inFlight \subseteq Attempts
  /\ first <= fin /\ fin <= tip
  /\ land \in [Attempts -> Nat] /\ ok \in [Attempts -> BOOLEAN]
  /\ worker \in [Workers -> Local]

Effective(a) == land[a] # 0 /\ ok[a]
Final(a) == land[a] # 0 /\ land[a] <= fin

\* The operation takes effect at most once on the chain, whichever workers
\* race, crash, retry or rebuild: "neither a timeout nor a fork permits a
\* replacement" of a packet that may still execute.
AtMostOnce == \A a, b \in Attempts : Effective(a) /\ Effective(b) => a = b

\* A verdict in the journal is a fact of the chain that no fork can undo:
\* finalized and failed packets are in a final block with that result, an
\* expired one is in no block and can get into none.
JournalTruthful ==
  \A a \in Attempts :
    /\ status[a] = "finalized" => Final(a) /\ ok[a]
    /\ status[a] = "failed" => Final(a) /\ ~ok[a]
    /\ status[a] = "expired" => land[a] = 0 /\ (sig[a] => fin > last[a])

\* A worker that asks for finality is told success only when the operation
\* has taken effect in a final block.
SuccessIsFinal ==
  \A w \in Workers : worker[w].out = "confirmed" /\ Commitment[w] = "finalized" =>
    \E a \in Attempts : Final(a) /\ ok[a]

\* No bytes leave before they are in the journal, so whatever the chain
\* executes can be found again after a crash: a packet in flight is a signed
\* row, and only the newest row can still be undecided.
NothingForgotten ==
  \A a \in Attempts :
    /\ a \in inFlight => a <= count /\ sig[a] /\ status[a] # "prepared"
    /\ a < count => status[a] \in Settled

\* The journal never takes back a verdict, and a confirmed row is never
\* replaced: the compare-and-set in progress() keeps late writers out.
VerdictsStay ==
  [][\A a \in Attempts :
       /\ status[a] \in {"finalized"} \cup Settled => status'[a] = status[a]
       /\ status[a] = "confirmed" => status'[a] \in {"confirmed", "finalized"}]_vars

\* The inductive invariant: rows and packets agree, and a worker in the middle
\* of packetStatus knows what its earlier reads established, which no other
\* worker, fork or block can undo once the final height has passed the validity.
Rows ==
  \A a \in Attempts :
    /\ (a <= count) <=> (status[a] # "none")
    /\ sig[a] => status[a] \notin {"none", "prepared"}
    /\ status[a] \in {"signed", "confirmed", "finalized", "failed"} => sig[a]
    /\ a \in inFlight => sig[a]
    /\ land[a] # 0 => a \in inFlight /\ observed[a] < land[a] /\ land[a] <= last[a]
                      /\ land[a] <= tip

Expired(a) == land[a] = 0 /\ fin > last[a]

Known(w) ==
  LET a == worker[w].att
      p == worker[w].pc
  IN
  /\ p \in {"status", "epoch", "kept", "again", "still", "resolve", "send", "confirm"} =>
       a \in Attempts /\ sig[a] /\ worker[w].st \in {"signed", "confirmed"}
  /\ p \in {"send", "confirm"} => worker[w].st = "signed"
  /\ p \in {"height", "expire", "sign"} => a \in Attempts /\ a <= count
  /\ p \in {"build", "insert", "reread"} => a <= count /\ (a # 0 => status[a] \in Settled)
  /\ p = "insert" => a < MaxAttempts
  /\ p = "reread" => count # 0
  /\ p \in {"kept", "again", "still"} => worker[w].slot <= fin /\ last[a] < worker[w].slot
  /\ p = "still" => land[a] = 0 \/ first > observed[a]
  /\ p = "resolve" =>
       /\ worker[w].to \in {"confirmed", "finalized"} \cup Settled
       /\ worker[w].to = "finalized" => Final(a) /\ ok[a]
       /\ worker[w].to = "failed" => Final(a) /\ ~ok[a]
       /\ worker[w].to = "expired" => Expired(a)
       /\ worker[w].to = "confirmed" => Commitment[w] = "confirmed"
       /\ worker[w].to \in Settled => worker[w].st = "signed"

SendInv ==
  /\ TypeOK /\ Rows /\ JournalTruthful /\ NothingForgotten /\ SuccessIsFinal
  /\ \A w \in Workers : Known(w)

=============================================================================
