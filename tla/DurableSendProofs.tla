------------------------ MODULE DurableSendProofs ---------------------------
(* The safety of the operator outbox, for any number of workers and         *)
(* attempts, any validity and any chain.                                    *)
EXTENDS DurableSend, TLAPS

\* Time limits of the provers for every leaf.
USE SMTT(30), ZenonT(20)

-----------------------------------------------------------------------------
(* What the ways of leaving a step do to the worker that takes it.          *)

Moves(w) ==
  /\ worker' \in [Workers -> Local]
  /\ \A x \in Workers : x # w => worker'[x] = worker[x]

SameRow(w) ==
  /\ worker'[w].mode = worker[w].mode /\ worker'[w].att = worker[w].att
  /\ worker'[w].st = worker[w].st /\ worker'[w].out = worker[w].out

\* Goto only changes the step.
LEMMA GotoMoves ==
  ASSUME TypeOK, NEW w \in Workers, NEW p \in Pcs, Goto(w, p)
  PROVE  /\ Moves(w) /\ SameRow(w)
         /\ worker'[w].pc = p /\ worker'[w].slot = worker[w].slot /\ worker'[w].to = worker[w].to
  BY Zenon DEF TypeOK, Goto, Moves, SameRow, Local

\* Observe also records the slot of an observation.
LEMMA ObserveMoves ==
  ASSUME TypeOK, NEW w \in Workers, NEW p \in Pcs, NEW s \in Nat, Observe(w, p, s)
  PROVE  Moves(w) /\ SameRow(w) /\ worker'[w].pc = p /\ worker'[w].slot = s
  BY Zenon DEF TypeOK, Observe, Moves, SameRow, Local

\* Advance records the verdict that will be written to the journal.
LEMMA AdvanceMoves ==
  ASSUME TypeOK, NEW w \in Workers, NEW s \in Statuses, Advance(w, s)
  PROVE  Moves(w) /\ SameRow(w) /\ worker'[w].pc = "resolve" /\ worker'[w].to = s
  <1>1. "resolve" \in Pcs  BY Zenon DEF Pcs
  <1>2. QED  BY Zenon, <1>1 DEF TypeOK, Advance, Moves, SameRow, Local

\* Enter starts on a row.
LEMMA EnterMoves ==
  ASSUME TypeOK, NEW w \in Workers, NEW p \in Pcs, NEW m \in {"send", "reconcile"},
         NEW a \in 0 .. MaxAttempts, NEW s \in Statuses, Enter(w, p, m, a, s)
  PROVE  /\ Moves(w) /\ worker'[w].pc = p /\ worker'[w].att = a /\ worker'[w].st = s
         /\ worker'[w].out = "none"
  BY Zenon DEF TypeOK, Enter, Moves, Local, Outcomes, Statuses

\* Return ends the call with an outcome.
LEMMA ReturnMoves ==
  ASSUME TypeOK, NEW w \in Workers, NEW o \in Outcomes, Return(w, o),
         MaxAttempts \in Nat
  PROVE  Moves(w) /\ worker'[w].pc = "idle" /\ worker'[w].out = o
  BY DEF TypeOK, Return, Idle, Moves, Local, Pcs, Statuses

-----------------------------------------------------------------------------
(* The journal and the chain.                                               *)

DataType ==
  /\ count \in 0 .. MaxAttempts /\ status \in [Attempts -> Statuses]
  /\ last \in [Attempts -> Nat] /\ observed \in [Attempts -> Nat]
  /\ sig \in [Attempts -> BOOLEAN]
  /\ tip \in Nat /\ fin \in Nat /\ first \in Nat /\ inFlight \subseteq Attempts
  /\ first <= fin /\ fin <= tip
  /\ land \in [Attempts -> Nat] /\ ok \in [Attempts -> BOOLEAN]

Books == DataType /\ Rows /\ JournalTruthful /\ NothingForgotten

\* What no step takes back.
Stable ==
  /\ fin <= fin' /\ first <= first' /\ count <= count'
  /\ \A a \in Attempts :
       /\ sig[a] => sig'[a]
       /\ a <= count => observed'[a] = observed[a] /\ last'[a] = last[a]
       /\ status[a] \in Settled => status'[a] = status[a]
       /\ Final(a) => land'[a] = land[a] /\ ok'[a] = ok[a]
       /\ land[a] = 0 /\ fin > last[a] /\ a <= count => land'[a] = 0

\* The steps that only read keep everything.
LEMMA QuietStep ==
  ASSUME Books, UNCHANGED <<journal, chain>>
  PROVE  Books' /\ Stable
  <1>1. DataType' /\ Rows'
    BY Zenon DEF Books, DataType, Rows, journal, chain
  <1>2. JournalTruthful' /\ NothingForgotten'
    BY Zenon DEF Books, JournalTruthful, NothingForgotten, Final, journal, chain
  <1>3. Stable
    BY DEF Books, DataType, Stable, Final, journal, chain
  <1>4. QED  BY Zenon, <1>1, <1>2, <1>3 DEF Books

\* A new block changes only the height.
LEMMA BlockStep ==
  ASSUME Books, Block
  PROVE  Books' /\ Stable
  <1>1. DataType'
    BY DEF Books, DataType, Block, journal
  <1>2. Rows'
    BY DurableSendConstants DEF Books, DataType, Rows, Block, journal, Attempts
  <1>3. JournalTruthful' /\ NothingForgotten'
    BY Zenon DEF Books, JournalTruthful, NothingForgotten, Final, Block, journal
  <1>4. Stable
    BY DEF Books, DataType, Stable, Final, Block, journal
  <1>5. QED  BY Zenon, <1>1, <1>2, <1>3, <1>4 DEF Books

\* A final block was there already.
LEMMA FinalizeStep ==
  ASSUME Books, Finalize
  PROVE  Books' /\ Stable
  <1>1. DataType'
    BY DurableSendConstants DEF Books, DataType, Finalize, journal, Attempts
  <1>2. Rows'
    BY Zenon, DurableSendConstants DEF Books, DataType, Rows, Finalize, journal, Attempts
  <1>3. JournalTruthful'
    BY DEF Books, DataType, Rows, JournalTruthful, Final, Finalize, journal
  <1>4. NothingForgotten'
    BY Zenon DEF Books, NothingForgotten, Finalize, journal
  <1>5. Stable
    BY DurableSendConstants DEF Books, DataType, Rows, Stable, Final, Finalize, journal, Attempts
  <1>6. QED  BY Zenon, <1>1, <1>2, <1>3, <1>4, <1>5 DEF Books

\* Forgetting a block changes no packet.
LEMMA PruneStep ==
  ASSUME Books, Prune
  PROVE  Books' /\ Stable
  <1>1. DataType'
    BY DEF Books, DataType, Prune, journal
  <1>2. Rows'
    BY Zenon, DurableSendConstants DEF Books, DataType, Rows, Prune, journal, Attempts
  <1>3. JournalTruthful' /\ NothingForgotten'
    BY Zenon DEF Books, JournalTruthful, NothingForgotten, Final, Prune, journal
  <1>4. Stable
    BY DEF Books, DataType, Stable, Final, Prune, journal
  <1>5. QED  BY Zenon, <1>1, <1>2, <1>3, <1>4 DEF Books

\* A fork drops no final block, so it touches no verdict.
LEMMA ForkStep ==
  ASSUME Books, NEW h \in 0 .. MaxHeight, Fork(h)
  PROVE  Books' /\ Stable
  <1>1. DataType'
    BY DurableSendConstants DEF Books, DataType, Fork, journal, Attempts
  <1>2. Rows'
    BY DurableSendConstants DEF Books, DataType, Rows, Fork, journal, Attempts
  <1>3. JournalTruthful'
    BY DEF Books, DataType, Rows, JournalTruthful, Final, Fork, journal
  <1>4. NothingForgotten'
    BY Zenon DEF Books, NothingForgotten, Fork, journal
  <1>5. Stable
    BY DurableSendConstants DEF Books, DataType, Rows, Stable, Final, Fork, journal, Attempts
  <1>6. QED  BY Zenon, <1>1, <1>2, <1>3, <1>4, <1>5 DEF Books

\* A packet gets into a block while it is valid, never after it expired.
LEMMA IncludeStep ==
  ASSUME Books, NEW a \in Attempts, Include(a)
  PROVE  Books' /\ Stable
  <1>1. DataType'
    BY Zenon, DurableSendConstants DEF Books, DataType, Include, journal, Attempts
  <1>2. Rows'
    BY DurableSendConstants DEF Books, DataType, Rows, Include, journal, Attempts
  <1>3. JournalTruthful'
    BY DEF Books, DataType, Rows, JournalTruthful, Final, Include, journal
  <1>4. NothingForgotten'
    BY Zenon DEF Books, NothingForgotten, Include, journal
  <1>5. Stable
    BY DurableSendConstants DEF Books, DataType, Rows, Stable, Final, Include, journal, Attempts
  <1>6. QED  BY Zenon, <1>1, <1>2, <1>3, <1>4, <1>5 DEF Books

\* Only signed bytes are broadcast.
LEMMA BroadcastStep ==
  ASSUME Books, NEW w \in Workers, Known(w), Broadcast(w)
  PROVE  Books' /\ Stable
  <1> DEFINE a == worker[w].att
  <1>1. a \in Attempts /\ sig[a] /\ inFlight \subseteq inFlight' /\ inFlight' \subseteq inFlight \cup {a}
    BY Zenon DEF Broadcast, At, Att, Known
  <1>2. UNCHANGED <<journal, tip, fin, first, land, ok>>
    BY Zenon DEF Broadcast
  <1> HIDE DEF a
  <1>3. DataType' /\ Stable
    BY <1>1, <1>2 DEF Books, DataType, Stable, Final, journal
  <1>4. Rows'
    BY Zenon, <1>1, <1>2 DEF Books, DataType, Rows, journal
  <1>5. NothingForgotten'
    <2>1. a <= count /\ status[a] # "prepared"
      BY Zenon, <1>1 DEF Books, DataType, Rows
    <2>2. QED  BY Zenon, <1>1, <1>2, <2>1 DEF Books, DataType, NothingForgotten, journal
  <1>6. JournalTruthful'
    <2>1. SUFFICES ASSUME NEW b \in Attempts, status[b] = "expired", b = a
                   PROVE  land[b] = 0 /\ fin > last[b]
      BY Zenon, <1>1, <1>2 DEF Books, JournalTruthful, Final, journal
    <2>2. QED  BY Zenon, <1>1, <2>1 DEF Books, JournalTruthful
  <1>7. QED  BY Zenon, <1>3, <1>4, <1>5, <1>6 DEF Books

\* progress() writes what the chain has shown, over the status it was read from.
LEMMA ResolveStep ==
  ASSUME Books, NEW w \in Workers, Known(w), Resolve(w)
  PROVE  Books' /\ Stable
  <1> DEFINE a == worker[w].att
             n == Resolved(w)
  <1>1. /\ a \in Attempts /\ sig[a] /\ worker[w].st \in {"signed", "confirmed"}
        /\ worker[w].to \in {"confirmed", "finalized"} \cup Settled
        /\ worker[w].to = "finalized" => Final(a) /\ ok[a]
        /\ worker[w].to = "failed" => Final(a) /\ ~ok[a]
        /\ worker[w].to = "expired" => Expired(a)
    BY Zenon DEF Resolve, At, Known
  <1>2. n = status[a] \/ (status[a] \in {"signed", "confirmed"} /\ n = worker[w].to)
    BY Zenon, <1>1 DEF Resolved, Att
  <1>3. /\ status' = [status EXCEPT ![a] = n]
        /\ UNCHANGED <<count, last, observed, sig, chain>>
    BY Zenon DEF Resolve, Att
  <1> HIDE DEF a, n
  <1>4. DataType'
    BY Zenon, <1>1, <1>2, <1>3 DEF Books, DataType, chain, Statuses, Settled
  <1>5. Stable
    BY <1>1, <1>2, <1>3 DEF Books, DataType, Stable, Final, chain, Settled
  <1>6. Rows'
    BY Zenon, <1>1, <1>2, <1>3 DEF Books, DataType, Rows, chain, Settled
  <1>7. NothingForgotten'
    BY Zenon, <1>1, <1>2, <1>3 DEF Books, DataType, NothingForgotten, chain, Settled
  <1>8. JournalTruthful'
    BY <1>1, <1>2, <1>3 DEF Books, DataType, JournalTruthful, Final, Expired, chain, Settled
  <1>9. QED  BY Zenon, <1>4, <1>5, <1>6, <1>7, <1>8 DEF Books

\* A prepared packet has not been signed, so dropping it loses nothing.
LEMMA ExpireStep ==
  ASSUME Books, NEW w \in Workers, Known(w), Expire(w)
  PROVE  Books' /\ Stable
  <1> DEFINE a == worker[w].att
             n == IF status[a] = "prepared" THEN "expired" ELSE status[a]
  <1>1. a \in Attempts /\ a <= count
    BY Zenon DEF Expire, At, Known
  <1>2. n = status[a] \/ (status[a] = "prepared" /\ n = "expired")
    OBVIOUS
  <1>3. /\ status' = [status EXCEPT ![a] = n]
        /\ UNCHANGED <<count, last, observed, sig, chain>>
    BY Zenon DEF Expire, Att
  <1>4. status[a] = "prepared" => ~sig[a] /\ a \notin inFlight /\ land[a] = 0
    BY Zenon, <1>1 DEF Books, DataType, Rows
  <1> HIDE DEF a, n
  <1>5. DataType'
    BY Zenon, <1>1, <1>2, <1>3 DEF Books, DataType, chain, Statuses
  <1>6. Stable
    BY <1>1, <1>2, <1>3 DEF Books, DataType, Stable, Final, chain, Settled
  <1>7. Rows'
    BY Zenon, <1>1, <1>2, <1>3, <1>4 DEF Books, DataType, Rows, chain
  <1>8. NothingForgotten'
    BY Zenon, <1>1, <1>2, <1>3, <1>4 DEF Books, DataType, NothingForgotten, chain, Settled
  <1>9. JournalTruthful'
    BY Zenon, <1>1, <1>2, <1>3, <1>4 DEF Books, DataType, JournalTruthful, Final, chain
  <1>10. QED  BY Zenon, <1>5, <1>6, <1>7, <1>8, <1>9 DEF Books

\* journal.sign turns only a prepared row into a signed one.
LEMMA SignStep ==
  ASSUME Books, NEW w \in Workers, Known(w), Sign(w)
  PROVE  Books' /\ Stable
  <1> DEFINE a == worker[w].att
  <1>1. a \in Attempts /\ a <= count
    BY Zenon DEF Sign, At, Known
  <1>2. UNCHANGED <<count, last, observed, chain>>
    BY Zenon DEF Sign
  <1>3. CASE status[a] # "prepared"
    <2>1. UNCHANGED <<journal, chain>>
      BY Zenon, <1>2, <1>3 DEF Sign, Signable, Att, journal
    <2>2. QED  BY Zenon, <2>1, QuietStep
  <1>4. CASE status[a] = "prepared"
    <2>1. status' = [status EXCEPT ![a] = "signed"] /\ sig' = [sig EXCEPT ![a] = TRUE]
      BY Zenon, <1>4 DEF Sign, Signable, Att
    <2>2. ~sig[a] /\ a \notin inFlight /\ land[a] = 0
      BY Zenon, <1>1, <1>4 DEF Books, DataType, Rows
    <2> HIDE DEF a
    <2>3. DataType'
      BY Zenon, <1>1, <1>2, <2>1 DEF Books, DataType, chain, Statuses
    <2>4. Stable
      BY <1>1, <1>2, <1>4, <2>1 DEF Books, DataType, Stable, Final, chain, Settled
    <2>5. Rows'
      BY Zenon, <1>1, <1>2, <2>1, <2>2 DEF Books, DataType, Rows, chain
    <2>6. NothingForgotten'
      BY Zenon, <1>1, <1>2, <1>4, <2>1, <2>2 DEF Books, DataType, NothingForgotten, chain, Settled
    <2>7. JournalTruthful'
      BY Zenon, <1>1, <1>2, <2>1 DEF Books, DataType, JournalTruthful, Final, chain
    <2>8. QED  BY Zenon, <2>3, <2>4, <2>5, <2>6, <2>7 DEF Books
  <1>5. QED  BY Zenon, <1>3, <1>4

\* journal.prepare adds a row only when every earlier one is settled.
LEMMA InsertStep ==
  ASSUME Books, NEW w \in Workers, Known(w), worker[w] \in Local, Insert(w)
  PROVE  Books' /\ Stable
  <1> DEFINE n == worker[w].att + 1
             s == worker[w].slot
  <1>1. UNCHANGED chain
    BY Zenon DEF Insert
  <1>2. CASE ~Insertable(w)
    <2>1. UNCHANGED <<journal, chain>>
      BY Zenon, <1>1, <1>2 DEF Insert
    <2>2. QED  BY Zenon, <2>1, QuietStep
  <1>3. CASE Insertable(w)
    <2>1. /\ count = n - 1 /\ n \in Attempts /\ n \in Nat /\ s \in Nat
          /\ n # 1 => status[n - 1] \in Settled
      BY <1>3, DurableSendConstants DEF Insertable, Insert, Known, At, Att, Local, Attempts
    <2>2. /\ count' = n
          /\ status' = [status EXCEPT ![n] = "prepared"]
          /\ observed' = [observed EXCEPT ![n] = s]
          /\ last' = [last EXCEPT ![n] = s + Validity]
          /\ sig' = sig
      BY Zenon, <1>3 DEF Insert, Att
    <2>3. status[n] = "none" /\ ~sig[n] /\ n \notin inFlight /\ land[n] = 0
      BY <2>1 DEF Books, DataType, Rows
    <2> HIDE DEF n, s
    <2>4. DataType'
      <3>1. n \in 0 .. MaxAttempts /\ s + Validity \in Nat /\ "prepared" \in Statuses
        BY <2>1, DurableSendConstants DEF Attempts, Statuses
      <3>2. count' \in 0 .. MaxAttempts /\ status' \in [Attempts -> Statuses]
        BY Zenon, <2>1, <2>2, <3>1 DEF Books, DataType
      <3>3. observed' \in [Attempts -> Nat] /\ last' \in [Attempts -> Nat]
        BY Zenon, <2>1, <2>2, <3>1 DEF Books, DataType
      <3>4. QED  BY Zenon, <1>1, <2>2, <3>2, <3>3 DEF Books, DataType, chain
    <2>5. Stable
      BY <1>1, <2>1, <2>2, <2>3 DEF Books, DataType, Stable, Final, chain, Settled, Attempts
    <2>6. Rows'
      BY <1>1, <2>1, <2>2, <2>3 DEF Books, DataType, Rows, chain, Attempts
    <2>7. NothingForgotten'
      BY <1>1, <2>1, <2>2, <2>3 DEF Books, DataType, NothingForgotten, chain, Settled, Attempts
    <2>8. JournalTruthful'
      BY Zenon, <1>1, <2>1, <2>2, <2>3 DEF Books, DataType, JournalTruthful, Final, chain, Attempts
    <2>9. QED  BY Zenon, <2>4, <2>5, <2>6, <2>7, <2>8 DEF Books
  <1>4. QED  BY Zenon, <1>2, <1>3

-----------------------------------------------------------------------------
(* The workers.                                                             *)

Told(w) ==
  worker[w].out = "confirmed" /\ Commitment[w] = "finalized" =>
    \E a \in Attempts : Final(a) /\ ok[a]

\* What a worker has learnt stays true while others step.
LEMMA OthersKeep ==
  ASSUME Books, Books', Stable, NEW x \in Workers, worker[x] \in Local,
         worker'[x] = worker[x], Known(x), Told(x)
  PROVE  Known(x)' /\ Told(x)'
  <1> DEFINE a == worker[x].att
             p == worker[x].pc
  <1>1. a \in 0 .. MaxAttempts /\ worker[x].slot \in Nat
    BY Zenon DEF Local
  <1>2. a # 0 => a \in Attempts
    BY <1>1, DurableSendConstants DEF Attempts
  <1>3. \A b \in Attempts : Final(b) => Final(b)' /\ (ok'[b] = ok[b])
    BY DEF Stable, Final, Books, DataType
  <1>4. Told(x)'
    BY Zenon, <1>3 DEF Told
  <1>5. \A b \in Attempts : sig[b] => b <= count
    BY Zenon DEF Books, Rows, DataType
  <1>6. \A b \in Attempts : sig[b] /\ Expired(b) => Expired(b)'
    BY <1>5 DEF Stable, Expired, Books, DataType
  <1>7. Known(x)'
    <2> SUFFICES /\ p \in {"status", "epoch", "kept", "again", "still", "resolve", "send", "confirm"} =>
                      a \in Attempts /\ sig'[a] /\ worker[x].st \in {"signed", "confirmed"}
                 /\ p \in {"send", "confirm"} => worker[x].st = "signed"
                 /\ p \in {"height", "expire", "sign"} => a \in Attempts /\ a <= count'
                 /\ p \in {"build", "insert", "reread"} => a <= count' /\ (a # 0 => status'[a] \in Settled)
                 /\ p = "insert" => a < MaxAttempts
                 /\ p = "reread" => count' # 0
                 /\ p \in {"kept", "again", "still"} => worker[x].slot <= fin' /\ last'[a] < worker[x].slot
                 /\ p = "still" => land'[a] = 0 \/ first' > observed'[a]
                 /\ p = "resolve" =>
                      /\ worker[x].to \in {"confirmed", "finalized"} \cup Settled
                      /\ worker[x].to = "finalized" => Final(a)' /\ ok'[a]
                      /\ worker[x].to = "failed" => Final(a)' /\ ~ok'[a]
                      /\ worker[x].to = "expired" => Expired(a)'
                      /\ worker[x].to = "confirmed" => Commitment[x] = "confirmed"
                      /\ worker[x].to \in Settled => worker[x].st = "signed"
      BY Zenon DEF Known
    <2> HIDE DEF a, p
    <2>1. p \in {"status", "epoch", "kept", "again", "still", "resolve", "send", "confirm"} =>
            a \in Attempts /\ sig[a] /\ sig'[a] /\ worker[x].st \in {"signed", "confirmed"}
      BY Zenon DEF Known, Stable, a, p
    <2>2. p \in {"send", "confirm"} => worker[x].st = "signed"
      BY Zenon DEF Known, p
    <2>3. p \in {"height", "expire", "sign"} => a \in Attempts /\ a <= count'
      BY <1>1 DEF Known, Stable, Books, DataType, a, p
    <2>4. /\ p \in {"build", "insert", "reread"} => a <= count' /\ (a # 0 => status'[a] \in Settled)
          /\ p = "insert" => a < MaxAttempts
          /\ p = "reread" => count' # 0
      BY <1>1, <1>2 DEF Known, Stable, Books, DataType, a, p
    <2>5. sig[a] /\ a \in Attempts => last'[a] = last[a] /\ observed'[a] = observed[a]
      BY Zenon, <1>5 DEF Stable
    <2>6. p \in {"kept", "again", "still"} => worker[x].slot <= fin' /\ last'[a] < worker[x].slot
      BY <1>1, <2>1, <2>5 DEF Known, Stable, Books, DataType, a, p
    <2>7. p = "still" => land'[a] = 0 \/ first' > observed'[a]
      <3>1. first \in Nat /\ first' \in Nat /\ first <= first' /\ fin \in Nat
            /\ last \in [Attempts -> Nat] /\ observed \in [Attempts -> Nat]
        BY Zenon DEF Stable, Books, DataType
      <3>2. CASE first > observed[a]
        BY <2>1, <2>5, <3>1, <3>2
      <3>3. CASE p = "still" /\ ~(first > observed[a])
        <4>1. a \in Attempts /\ sig[a] /\ land[a] = 0 /\ worker[x].slot <= fin /\ last[a] < worker[x].slot
          BY Zenon, <2>1, <3>3 DEF Known, a, p
        <4>2. Expired(a)
          BY <1>1, <3>1, <4>1 DEF Expired
        <4>3. QED  BY Zenon, <1>6, <4>1, <4>2 DEF Expired
      <3>4. QED  BY Zenon, <3>2, <3>3
    <2>8. p = "resolve" =>
            /\ worker[x].to \in {"confirmed", "finalized"} \cup Settled
            /\ worker[x].to = "finalized" => Final(a)' /\ ok'[a]
            /\ worker[x].to = "failed" => Final(a)' /\ ~ok'[a]
            /\ worker[x].to = "expired" => Expired(a)'
            /\ worker[x].to = "confirmed" => Commitment[x] = "confirmed"
            /\ worker[x].to \in Settled => worker[x].st = "signed"
      BY Zenon, <1>3, <1>6, <2>1 DEF Known, a, p
    <2>9. QED  BY Zenon, <2>1, <2>2, <2>3, <2>4, <2>6, <2>7, <2>8
  <1>8. QED  BY Zenon, <1>4, <1>7

Success == \E a \in Attempts : Final(a) /\ ok[a]

Good(w) == Moves(w) /\ Known(w)' /\ Told(w)'

\* A worker that returns knows nothing but the outcome.
LEMMA ReturnGood ==
  ASSUME TypeOK, NEW w \in Workers, NEW o \in Outcomes, Return(w, o),
         o = "confirmed" /\ Commitment[w] = "finalized" => Success'
  PROVE  Good(w)
  <1>1. Moves(w) /\ worker'[w].pc = "idle" /\ worker'[w].out = o
    BY Zenon, ReturnMoves, DurableSendConstants
  <1>2. QED  BY Zenon, <1>1 DEF Good, Known, Told, Success

\* Success in a final block is never undone.
LEMMA SuccessStays ==
  ASSUME Books, Books', Stable, Success
  PROVE  Success'
  <1>1. PICK a \in Attempts : Final(a) /\ ok[a]
    BY Zenon DEF Success
  <1>2. land'[a] = land[a] /\ ok'[a] = ok[a] /\ fin <= fin'
    BY Zenon, <1>1 DEF Stable
  <1>3. Final(a)' /\ ok'[a]
    BY <1>1, <1>2 DEF Final, Books, DataType, Stable
  <1>4. QED  BY Zenon, <1>3 DEF Success

\* The outcome of a row that asks for finality is success only for a finalized row.
LEMMA OutcomeTrue ==
  ASSUME NEW w \in Workers, NEW s, Outcome(w, s) = "confirmed", Commitment[w] = "finalized"
  PROVE  s = "finalized"
  BY Zenon DEF Outcome, Accepted

\* send() has three outcomes.
LEMMA OutcomeType ==
  ASSUME NEW w, NEW s
  PROVE  Outcome(w, s) \in Outcomes
  BY Zenon DEF Outcome, Outcomes

\* The newest row is one of the journal.
LEMMA LatestRow ==
  ASSUME Books
  PROVE  /\ Latest \in Statuses
         /\ Latest # "none" => count \in Attempts /\ Latest = status[count]
         /\ count \in 0 .. MaxAttempts
         /\ count = 0 <=> Latest = "none"
  BY DurableSendConstants DEF Books, DataType, Rows, Latest, Attempts, Statuses

\* send() starts on the newest row.
LEMMA BeginGood ==
  ASSUME TypeOK, Books, NEW w \in Workers, Begin(w)
  PROVE  Good(w)
  <1>1. UNCHANGED <<journal, chain>> /\ Books' /\ Stable
    BY Zenon, QuietStep DEF Begin
  <1>2. CASE Accepted(w, Latest) /\ Return(w, "confirmed")
    <2>1. Commitment[w] = "finalized" => Success
      BY Zenon, <1>2, LatestRow DEF Accepted, Books, JournalTruthful, Success
    <2>2. QED  BY Zenon, <1>1, <1>2, <2>1, SuccessStays, ReturnGood DEF Outcomes
  <1>3. CASE Latest \in {"signed", "confirmed"} /\ Enter(w, "status", "send", count, Latest)
    <2>1. count \in Attempts /\ sig[count]
      BY Zenon, <1>3, LatestRow DEF Books, Rows
    <2>2. /\ Moves(w) /\ worker'[w].pc = "status" /\ worker'[w].att = count
          /\ worker'[w].st = Latest /\ worker'[w].out = "none"
      BY <1>3, LatestRow, EnterMoves, "status" \in Pcs DEF Pcs
    <2>3. QED  BY Zenon, <1>1, <1>3, <2>1, <2>2 DEF Good, Known, Told, journal
  <1>4. CASE Latest \in {"none"} \cup Settled /\ Enter(w, "build", "send", count, Latest)
    <2>1. /\ Moves(w) /\ worker'[w].pc = "build" /\ worker'[w].att = count
          /\ worker'[w].st = Latest /\ worker'[w].out = "none"
      BY <1>4, LatestRow, EnterMoves, "build" \in Pcs DEF Pcs
    <2>2. count \in Nat /\ (count # 0 => status[count] \in Settled)
      BY <1>4, LatestRow, DurableSendConstants DEF Settled
    <2>3. QED  BY <1>1, <2>1, <2>2 DEF Good, Known, Told, journal
  <1>5. CASE Latest = "prepared" /\ Enter(w, "height", "send", count, Latest)
    <2>1. /\ Moves(w) /\ worker'[w].pc = "height" /\ worker'[w].att = count
          /\ worker'[w].st = Latest /\ worker'[w].out = "none"
      BY <1>5, LatestRow, EnterMoves, "height" \in Pcs DEF Pcs
    <2>2. count \in Nat /\ count \in Attempts
      BY <1>5, LatestRow, DurableSendConstants
    <2>3. QED  BY <1>1, <2>1, <2>2 DEF Good, Known, Told, journal
  <1>6. QED  BY Zenon, <1>2, <1>3, <1>4, <1>5 DEF Begin

\* The job's reconcile step starts on a signed row.
LEMMA ReconcileGood ==
  ASSUME TypeOK, Books, NEW w \in Workers, NEW a \in Attempts, Reconcile(w, a)
  PROVE  Good(w)
  <1>1. UNCHANGED <<journal, chain>> /\ Books' /\ Stable
    BY Zenon, QuietStep DEF Reconcile
  <1>2. CASE status[a] \in {"finalized"} \cup Settled
             /\ Return(w, IF status[a] = "finalized" THEN "confirmed" ELSE "failed")
    <2> DEFINE o == IF status[a] = "finalized" THEN "confirmed" ELSE "failed"
    <2>1. o = "confirmed" => Success
      BY Zenon DEF Books, JournalTruthful, Success
    <2>2. o \in Outcomes /\ Return(w, o)
      BY Zenon, <1>2 DEF Outcomes
    <2> HIDE DEF o
    <2>3. QED  BY Zenon, <1>1, <2>1, <2>2, SuccessStays, ReturnGood
  <1>3. CASE status[a] \in {"signed", "confirmed"} /\ Enter(w, "status", "reconcile", a, status[a])
    <2>1. /\ Moves(w) /\ worker'[w].pc = "status" /\ worker'[w].att = a
          /\ worker'[w].st = status[a] /\ worker'[w].out = "none"
      <3>1. a \in 0 .. MaxAttempts /\ status[a] \in Statuses /\ "status" \in Pcs
        BY DurableSendConstants DEF Books, DataType, Attempts, Pcs
      <3>2. QED  BY <1>3, <3>1, EnterMoves
    <2>2. QED  BY Zenon, <1>1, <1>3, <2>1 DEF Good, Known, Told, journal, Reconcile
  <1>4. QED  BY Zenon, <1>2, <1>3 DEF Reconcile

\* The facts about the row a worker in packetStatus is looking at.
LEMMA Looking ==
  ASSUME NEW w \in Workers, Known(w),
         worker[w].pc \in {"status", "epoch", "kept", "again", "still", "resolve", "send", "confirm"}
  PROVE  worker[w].att \in Attempts /\ sig[worker[w].att] /\ worker[w].st \in {"signed", "confirmed"}
  BY Zenon DEF Known

\* A worker that moves on along the same row, in a step that only reads.
LEMMA ToldQuiet ==
  ASSUME NEW w \in Workers, Told(w), UNCHANGED <<journal, chain>>, worker'[w].out = worker[w].out
  PROVE  Told(w)'
  BY Zenon DEF Told, Final, chain

\* An unresolved packet is sent again or left for later.
LEMMA UnresolvedGood ==
  ASSUME TypeOK, NEW w \in Workers, Known(w), Told(w), UNCHANGED <<journal, chain>>,
         worker[w].pc \in {"status", "epoch", "kept", "again", "still"}, Unresolved(w)
  PROVE  Good(w)
  <1>1. CASE Return(w, "unknown")
    BY Zenon, <1>1, ReturnGood DEF Outcomes
  <1>2. CASE worker[w].st = "signed" /\ Goto(w, "send")
    <2>1. Moves(w) /\ SameRow(w) /\ worker'[w].pc = "send"
      BY Zenon, <1>2, GotoMoves, "send" \in Pcs DEF Pcs
    <2>2. QED  BY Zenon, <1>2, <2>1, Looking, ToldQuiet DEF Good, Known, SameRow, journal
  <1>3. QED  BY Zenon, <1>1, <1>2 DEF Unresolved

\* A verdict that the chain bears out becomes the status to write.
LEMMA JudgeGood ==
  ASSUME TypeOK, NEW w \in Workers, Known(w), Told(w), UNCHANGED <<journal, chain>>,
         worker[w].pc \in {"status", "epoch", "kept", "again", "still"},
         NEW r, Judge(w, r),
         r = "finalized" => Final(worker[w].att) /\ ok[worker[w].att],
         r = "failed" => Final(worker[w].att) /\ ~ok[worker[w].att],
         r = "expired" => Expired(worker[w].att)
  PROVE  Good(w)
  <1>1. CASE \E o \in Outcomes : o # "confirmed" /\ Return(w, o)
    BY Zenon, <1>1, ReturnGood
  <1>2. CASE /\ r \in {"confirmed", "finalized"} \cup Settled /\ Advance(w, r)
             /\ r = "confirmed" => Commitment[w] = "confirmed"
             /\ r \in Settled => worker[w].st = "signed"
    <2>1. Moves(w) /\ SameRow(w) /\ worker'[w].pc = "resolve" /\ worker'[w].to = r
      BY Zenon, <1>2, AdvanceMoves, r \in Statuses DEF Statuses, Settled
    <2>2. Final(worker[w].att)' = Final(worker[w].att) /\ Expired(worker[w].att)' = Expired(worker[w].att)
      BY Zenon, <2>1 DEF Final, Expired, chain, journal, SameRow
    <2>3. QED  BY Zenon, <1>2, <2>1, <2>2, Looking, ToldQuiet DEF Good, Known, SameRow, journal, chain, Final, Expired
  <1>3. CASE r \in Settled /\ worker[w].st # "signed"
    <2> DEFINE o == IF worker[w].mode = "send" THEN "unknown" ELSE "failed"
    <2>1. Return(w, o) /\ o \in Outcomes /\ o # "confirmed"
      BY Zenon, <1>3 DEF Judge, Settled, Outcomes
    <2> HIDE DEF o
    <2>2. QED  BY Zenon, <1>1, <2>1
  <1>4. CASE ~(r \in Settled /\ worker[w].st # "signed")
    <2>1. CASE r = "observed"
      BY Zenon, <1>1, <2>1 DEF Judge, Settled, Outcomes
    <2>2. CASE r = "confirmed"
      <3>1. Commitment[w] \in {"confirmed", "finalized"}
        BY Zenon, DurableSendConstants
      <3>2. QED  BY Zenon, <1>1, <1>2, <2>2, <3>1 DEF Judge, Settled, Outcomes
    <2>3. CASE r = "finalized"
      BY Zenon, <1>2, <2>3 DEF Judge, Settled
    <2>4. CASE r \in Settled
      BY Zenon, <1>2, <1>4, <2>4 DEF Judge, Settled
    <2>5. QED  BY Zenon, <2>1, <2>2, <2>3, <2>4 DEF Judge
  <1>5. QED  BY Zenon, <1>3, <1>4

\* An answer about a signature is a fact about the packet.
LEMMA VerdictTrue ==
  ASSUME Books, NEW a \in Attempts, NEW v \in Nat, NEW r \in Verdicts(a, v)
  PROVE  /\ r = "finalized" => Final(a) /\ ok[a]
         /\ r = "failed" => Final(a) /\ ~ok[a]
         /\ r # "expired"
         /\ r = "absent" => land[a] = 0 \/ land[a] > v \/ land[a] < first
  BY DEF Books, DataType, Verdicts, Seen, Final

\* The first reading of the signature status.
LEMMA ReadStatusGood ==
  ASSUME TypeOK, Books, NEW w \in Workers, Known(w), Told(w), ReadStatus(w)
  PROVE  Good(w)
  <1>1. UNCHANGED <<journal, chain>> /\ worker[w].pc = "status" /\ worker[w].att \in Attempts
    BY Zenon, Looking DEF ReadStatus, At
  <1>2. PICK v \in 0 .. tip : \E r \in Verdicts(worker[w].att, v) :
          IF r = "absent" THEN Goto(w, "epoch") ELSE Judge(w, r)
    BY Zenon DEF ReadStatus, Att
  <1>3. PICK r \in Verdicts(worker[w].att, v) :
          IF r = "absent" THEN Goto(w, "epoch") ELSE Judge(w, r)
    BY Zenon, <1>2
  <1>4. v \in Nat
    OBVIOUS
  <1>5. CASE r = "absent"
    <2>1. Moves(w) /\ SameRow(w) /\ worker'[w].pc = "epoch"
      BY Zenon, <1>3, <1>5, GotoMoves, "epoch" \in Pcs DEF Pcs
    <2>2. QED  BY Zenon, <1>1, <2>1, Looking, ToldQuiet DEF Good, Known, SameRow, journal
  <1>6. CASE r # "absent"
    <2>1. Judge(w, r)
      BY Zenon, <1>3, <1>6
    <2>2. /\ r = "finalized" => Final(worker[w].att) /\ ok[worker[w].att]
          /\ r = "failed" => Final(worker[w].att) /\ ~ok[worker[w].att]
          /\ r # "expired"
      BY Zenon, <1>1, <1>4, VerdictTrue
    <2>3. QED  BY Zenon, <1>1, <2>1, <2>2, JudgeGood
  <1>7. QED  BY Zenon, <1>5, <1>6

\* The finalized height decides whether the packet may have expired.
LEMMA ReadEpochGood ==
  ASSUME TypeOK, Books, NEW w \in Workers, Known(w), Told(w), ReadEpoch(w)
  PROVE  Good(w)
  <1>1. UNCHANGED <<journal, chain>> /\ worker[w].pc = "epoch" /\ worker[w].att \in Attempts
    BY Zenon, Looking DEF ReadEpoch, At
  <1>2. PICK g \in 0 .. fin :
          IF g > last[worker[w].att] THEN Observe(w, "kept", g) ELSE Unresolved(w)
    BY Zenon DEF ReadEpoch, Att
  <1>3. CASE Unresolved(w)
    BY Zenon, <1>1, <1>3, UnresolvedGood
  <1>4. CASE g > last[worker[w].att] /\ Observe(w, "kept", g)
    <2>1. Moves(w) /\ SameRow(w) /\ worker'[w].pc = "kept" /\ worker'[w].slot = g
      <3>1. g \in Nat /\ "kept" \in Pcs  BY <1>1 DEF Pcs
      <3>2. QED  BY Zenon, <1>4, <3>1, ObserveMoves
    <2>2. last[worker[w].att] < g /\ g <= fin
      BY <1>1, <1>4 DEF Books, DataType
    <2>3. QED  BY Zenon, <1>1, <2>1, <2>2, Looking, ToldQuiet DEF Good, Known, SameRow, journal, chain
  <1>5. QED  BY Zenon, <1>2, <1>3, <1>4

\* The history is checked before the second reading.
LEMMA ReadKeptGood ==
  ASSUME TypeOK, Books, NEW w \in Workers, Known(w), Told(w), ReadKept(w)
  PROVE  Good(w)
  <1>1. UNCHANGED <<journal, chain>> /\ worker[w].pc = "kept" /\ worker[w].att \in Attempts
    BY Zenon, Looking DEF ReadKept, At
  <1>2. CASE Unresolved(w)
    BY Zenon, <1>1, <1>2, UnresolvedGood
  <1>3. CASE Goto(w, "again")
    <2>1. Moves(w) /\ SameRow(w) /\ worker'[w].pc = "again" /\ worker'[w].slot = worker[w].slot
      BY Zenon, <1>3, GotoMoves, "again" \in Pcs DEF Pcs
    <2>2. worker[w].slot <= fin /\ last[worker[w].att] < worker[w].slot
      BY Zenon, <1>1 DEF Known
    <2>3. QED  BY Zenon, <1>1, <2>1, <2>2, Looking, ToldQuiet DEF Good, Known, SameRow, journal, chain
  <1>4. QED  BY Zenon, <1>2, <1>3 DEF ReadKept

\* The second reading, by a node that has seen the packet's validity pass:
\* it is in no block, unless its block may have been forgotten.
LEMMA ReadAgainGood ==
  ASSUME TypeOK, Books, NEW w \in Workers, Known(w), Told(w), ReadAgain(w)
  PROVE  Good(w)
  <1> DEFINE a == worker[w].att
  <1>1. UNCHANGED <<journal, chain>> /\ worker[w].pc = "again" /\ a \in Attempts
    BY Zenon, Looking DEF ReadAgain, At
  <1>2. worker[w].slot <= fin /\ last[a] < worker[w].slot /\ worker[w].slot \in Nat
    BY Zenon, <1>1 DEF Known, TypeOK, Local
  <1>3. PICK v \in 0 .. tip : \E r \in Verdicts(a, v) :
          IF r # "absent" THEN Judge(w, r)
          ELSE IF FreshEnough(w, v) THEN Goto(w, "still") ELSE Unresolved(w)
    BY Zenon DEF ReadAgain, Att
  <1>4. PICK r \in Verdicts(a, v) :
          IF r # "absent" THEN Judge(w, r)
          ELSE IF FreshEnough(w, v) THEN Goto(w, "still") ELSE Unresolved(w)
    BY Zenon, <1>3
  <1>5. v \in Nat
    OBVIOUS
  <1>6. CASE Unresolved(w)
    BY Zenon, <1>1, <1>6, UnresolvedGood
  <1>7. CASE r # "absent"
    <2>1. Judge(w, r)
      BY Zenon, <1>4, <1>7
    <2>2. /\ r = "finalized" => Final(a) /\ ok[a]
          /\ r = "failed" => Final(a) /\ ~ok[a]
          /\ r # "expired"
      BY Zenon, <1>1, <1>5, VerdictTrue
    <2>3. QED  BY Zenon, <1>1, <2>1, <2>2, JudgeGood
  <1>8. CASE r = "absent" /\ FreshEnough(w, v) /\ Goto(w, "still")
    <2>1. Moves(w) /\ SameRow(w) /\ worker'[w].pc = "still" /\ worker'[w].slot = worker[w].slot
      BY Zenon, <1>8, GotoMoves, "still" \in Pcs DEF Pcs
    <2>2. land[a] = 0 \/ land[a] > v \/ land[a] < first
      BY Zenon, <1>1, <1>5, <1>8, VerdictTrue
    <2>3. land[a] # 0 => observed[a] < land[a] /\ land[a] <= last[a]
      BY Zenon, <1>1 DEF Books, Rows
    <2>4. v >= worker[w].slot
      BY Zenon, <1>8 DEF FreshEnough
    <2>5. land[a] = 0 \/ first > observed[a]
      BY <1>1, <1>2, <1>5, <2>2, <2>3, <2>4 DEF Books, DataType
    <2>6. QED  BY Zenon, <1>1, <1>2, <2>1, <2>5, Looking, ToldQuiet DEF Good, Known, SameRow, journal, chain
  <1>9. QED  BY Zenon, <1>4, <1>6, <1>7, <1>8

\* The history was kept throughout: the packet has expired.
LEMMA ReadStillGood ==
  ASSUME TypeOK, Books, NEW w \in Workers, Known(w), Told(w), ReadStill(w)
  PROVE  Good(w)
  <1> DEFINE a == worker[w].att
  <1>1. UNCHANGED <<journal, chain>> /\ worker[w].pc = "still" /\ a \in Attempts
    BY Zenon, Looking DEF ReadStill, At
  <1>2. CASE Unresolved(w)
    BY Zenon, <1>1, <1>2, UnresolvedGood
  <1>3. CASE HistoryKept(w) /\ Judge(w, "expired")
    <2>1. land[a] = 0 \/ first > observed[a]
      BY Zenon, <1>1 DEF Known
    <2>2. worker[w].slot <= fin /\ last[a] < worker[w].slot /\ worker[w].slot \in Nat
      BY Zenon, <1>1 DEF Known, TypeOK, Local
    <2>3. Expired(a)
      <3>1. ~(first > observed[a])
        BY <1>1, <1>3 DEF HistoryKept, Att, Books, DataType
      <3>2. fin \in Nat /\ last[a] \in Nat
        BY Zenon, <1>1 DEF Books, DataType
      <3>3. fin > last[a]
        BY <2>2, <3>2
      <3>4. QED  BY Zenon, <2>1, <3>1, <3>3 DEF Expired
    <2>4. QED  BY Zenon, <1>1, <1>3, <2>3, JudgeGood
  <1>4. QED  BY Zenon, <1>2, <1>3 DEF ReadStill

\* A blockhash is read for the attempt after a settled one.
LEMMA BuildGood ==
  ASSUME TypeOK, Books, NEW w \in Workers, Known(w), Told(w), Build(w)
  PROVE  Good(w)
  <1>1. UNCHANGED <<journal, chain>> /\ worker[w].pc = "build" /\ worker[w].att < MaxAttempts
    BY Zenon DEF Build, At, Att
  <1>2. PICK v \in 1 .. (IF Commitment[w] = "finalized" THEN fin ELSE tip) : Observe(w, "insert", v)
    BY Zenon DEF Build
  <1>3. v \in Nat
    BY DEF Books, DataType
  <1>4. Moves(w) /\ SameRow(w) /\ worker'[w].pc = "insert"
    BY Zenon, <1>2, <1>3, ObserveMoves, "insert" \in Pcs DEF Pcs
  <1>5. QED  BY Zenon, <1>1, <1>4, ToldQuiet DEF Good, Known, SameRow, journal

\* After the insert there is a row, this worker's or another's.
LEMMA InsertGood ==
  ASSUME TypeOK, Books, NEW w \in Workers, Known(w), Told(w), Insert(w)
  PROVE  Good(w)
  <1> DEFINE a == worker[w].att
  <1>1. /\ worker[w].pc = "insert" /\ a <= count /\ (a # 0 => status[a] \in Settled)
        /\ a \in 0 .. MaxAttempts /\ worker[w] \in Local
    BY Zenon DEF Insert, At, Known, TypeOK, Local
  <1>2. Books' /\ Stable
    BY Zenon, <1>1, InsertStep
  <1>3. Moves(w) /\ SameRow(w) /\ worker'[w].pc = "reread"
    BY Zenon, GotoMoves, "reread" \in Pcs DEF Insert, Pcs
  <1>4. count' # 0
    <2>1. CASE Insertable(w)
      <3>1. count' = a + 1
        BY Zenon, <2>1 DEF Insert, Att
      <3>2. a \in Nat
        BY <1>1, DurableSendConstants
      <3>3. QED  BY <3>1, <3>2
    <2>2. CASE ~Insertable(w)
      <3>1. count' = count
        BY Zenon, <2>2 DEF Insert, journal
      <3>2. a # count
        BY Zenon, <1>1, <2>2 DEF Insertable, Att
      <3>3. count \in Nat
        BY DurableSendConstants DEF Books, DataType
      <3>4. a \in Nat /\ a <= count
        BY <1>1, DurableSendConstants
      <3>5. QED  BY <3>1, <3>2, <3>3, <3>4
    <2>3. QED  BY Zenon, <2>1, <2>2
  <1>5. a # 0 => a \in Attempts
    BY <1>1, DurableSendConstants DEF Attempts
  <1>6. a <= count' /\ (a # 0 => status'[a] \in Settled)
    <2>1. count <= count' /\ count \in Nat /\ count' \in Nat
      BY <1>2, DurableSendConstants DEF Stable, Books, DataType
    <2>2. a <= count'
      BY <1>1, <2>1, DurableSendConstants
    <2>3. a # 0 => status'[a] \in Settled
      BY Zenon, <1>1, <1>2, <1>5 DEF Stable
    <2>4. QED  BY Zenon, <2>2, <2>3
  <1>7. Told(w)'
    <2>1. worker'[w].out = worker[w].out
      BY Zenon, <1>3 DEF SameRow
    <2>2. QED  BY Zenon, <1>2, <2>1, SuccessStays DEF Told, Success
  <1>8. QED  BY Zenon, <1>3, <1>4, <1>6, <1>7 DEF Good, Known, SameRow

\* A worker at the height check knows that its row exists.
LEMMA KnownHeight ==
  ASSUME NEW w \in Workers, worker'[w].pc = "height", worker'[w].att \in Attempts,
         worker'[w].att <= count'
  PROVE  Known(w)'
  BY Zenon DEF Known

\* The row that won the insert decides.
LEMMA RereadGood ==
  ASSUME TypeOK, Books, NEW w \in Workers, Known(w), Told(w), Reread(w)
  PROVE  Good(w)
  <1>1. UNCHANGED <<journal, chain>> /\ Books' /\ Stable /\ count # 0
    BY Zenon, QuietStep DEF Reread, At, Known
  <1>2. CASE Latest = "prepared" /\ Enter(w, "height", "send", count, Latest)
    <2>1. /\ Moves(w) /\ worker'[w].pc = "height" /\ worker'[w].att = count
          /\ worker'[w].out = "none"
      BY Zenon, <1>2, LatestRow, EnterMoves, "height" \in Pcs DEF Pcs
    <2>2. count \in Nat /\ count \in Attempts
      BY <1>2, LatestRow, DurableSendConstants
    <2>3. Known(w)' /\ Told(w)'
      <3>1. count' = count  BY Zenon, <1>1 DEF journal
      <3>2. Told(w)'  BY Zenon, <2>1 DEF Told
      <3>3. worker'[w].att <= count'  BY <2>1, <2>2, <3>1
      <3>4. Known(w)'  BY Zenon, <2>1, <2>2, <3>3, KnownHeight
      <3>5. QED  BY Zenon, <3>2, <3>4
    <2>4. QED  BY Zenon, <1>1, <2>1, <2>3 DEF Good
  <1>3. CASE Return(w, Outcome(w, Latest))
    <2>1. Latest = "finalized" => Success
      BY Zenon, <1>1, LatestRow DEF Books, JournalTruthful, Success
    <2>2. Outcome(w, Latest) = "confirmed" /\ Commitment[w] = "finalized" => Success'
      BY Zenon, <1>1, <2>1, OutcomeTrue, SuccessStays
    <2>3. QED  BY Zenon, <1>3, <2>2, OutcomeType, ReturnGood
  <1>4. QED  BY Zenon, <1>2, <1>3 DEF Reread

\* Reading the height decides between expiring and signing.
LEMMA CheckHeightGood ==
  ASSUME TypeOK, Books, NEW w \in Workers, Known(w), Told(w), CheckHeight(w)
  PROVE  Good(w)
  <1>1. UNCHANGED <<journal, chain>> /\ worker[w].pc = "height"
    BY Zenon DEF CheckHeight, At
  <1>2. PICK p \in {"expire", "sign"} : Goto(w, p)
    BY Zenon DEF CheckHeight
  <1>3. Moves(w) /\ SameRow(w) /\ worker'[w].pc = p
    BY Zenon, <1>2, GotoMoves, p \in Pcs DEF Pcs
  <1>4. QED  BY Zenon, <1>1, <1>2, <1>3, ToldQuiet DEF Good, Known, SameRow, journal

\* An expired, failed or unknown packet is not reported as a success.
LEMMA ExpireGood ==
  ASSUME TypeOK, Books, NEW w \in Workers, Expire(w)
  PROVE  Good(w)
  <1> DEFINE o == IF status'[Att(w)] = "signed" THEN "unknown" ELSE "failed"
  <1>1. Return(w, o) /\ o \in Outcomes /\ o # "confirmed"
    BY Zenon DEF Expire, Outcomes
  <1> HIDE DEF o
  <1>2. QED  BY Zenon, <1>1, ReturnGood

\* A signed row is sent, any other one gives its outcome.
LEMMA SignGood ==
  ASSUME TypeOK, Books, NEW w \in Workers, Known(w), Told(w), Sign(w)
  PROVE  Good(w)
  <1> DEFINE a == worker[w].att
  <1>1. a \in Attempts /\ a <= count /\ Books' /\ Stable
    BY Zenon, SignStep DEF Sign, At, Known
  <1>2. CASE status'[a] = "signed" /\ Enter(w, "send", "send", a, "signed")
    <2>1. a \in 0 .. MaxAttempts /\ "send" \in Pcs /\ "signed" \in Statuses
      BY <1>1, DurableSendConstants DEF Attempts, Pcs, Statuses
    <2>2. /\ Moves(w) /\ worker'[w].pc = "send" /\ worker'[w].att = a
          /\ worker'[w].st = "signed" /\ worker'[w].out = "none"
      BY <1>2, <2>1, EnterMoves
    <2>3. sig'[a]
      BY Zenon, <1>1, <1>2 DEF Books, Rows
    <2>4. QED  BY Zenon, <1>1, <2>2, <2>3 DEF Good, Known, Told
  <1>3. CASE Return(w, IF sig[a] THEN Outcome(w, status[a]) ELSE "failed")
    <2> DEFINE o == IF sig[a] THEN Outcome(w, status[a]) ELSE "failed"
    <2>1. o \in Outcomes
      BY Zenon, OutcomeType DEF Outcomes
    <2>2. status[a] = "finalized" => Success
      BY Zenon, <1>1 DEF Books, JournalTruthful, Success
    <2>3. o = "confirmed" /\ Commitment[w] = "finalized" => Success'
      BY Zenon, <1>1, <2>2, OutcomeTrue, SuccessStays
    <2> HIDE DEF o
    <2>4. Return(w, o)
      BY Zenon, <1>3 DEF o
    <2>5. QED  BY Zenon, <2>1, <2>3, <2>4, ReturnGood
  <1>4. QED  BY Zenon, <1>2, <1>3 DEF Sign, Att

\* Success is reported from the journal or, by reconcile, from the chain's verdict.
LEMMA ResolveGood ==
  ASSUME TypeOK, Books, NEW w \in Workers, Known(w), Told(w), Resolve(w)
  PROVE  Good(w)
  <1> DEFINE a == worker[w].att
             s == IF worker[w].mode = "send" THEN Resolved(w) ELSE worker[w].to
  <1>1. Books' /\ Stable
    BY Zenon, ResolveStep
  <1>2. a \in Attempts /\ (worker[w].to = "finalized" => Final(a) /\ ok[a])
    BY Zenon DEF Resolve, At, Known
  <1>3. s = "finalized" => Success
    <2>1. s \in {status[a], worker[w].to}
      BY Zenon DEF Resolved, Att
    <2>2. status[a] = "finalized" => Success
      BY Zenon, <1>2 DEF Books, JournalTruthful, Success
    <2>3. QED  BY Zenon, <1>2, <2>1, <2>2 DEF Success
  <1>4. Return(w, Outcome(w, s))
    BY Zenon DEF Resolve
  <1> HIDE DEF s
  <1>5. Outcome(w, s) = "confirmed" /\ Commitment[w] = "finalized" => Success'
    BY Zenon, <1>1, <1>3, OutcomeTrue, SuccessStays
  <1>6. QED  BY Zenon, <1>4, <1>5, OutcomeType, ReturnGood

\* A broadcast is followed by a wait or by an unknown outcome.
LEMMA BroadcastGood ==
  ASSUME TypeOK, Books, NEW w \in Workers, Known(w), Told(w), Broadcast(w)
  PROVE  Good(w)
  <1>1. UNCHANGED <<journal, tip, fin, first, land, ok>> /\ worker[w].pc = "send"
    BY Zenon DEF Broadcast, At
  <1>2. CASE Return(w, "unknown")
    BY Zenon, <1>2, ReturnGood DEF Outcomes
  <1>3. CASE Goto(w, "confirm")
    <2>1. Moves(w) /\ SameRow(w) /\ worker'[w].pc = "confirm"
      BY Zenon, <1>3, GotoMoves, "confirm" \in Pcs DEF Pcs
    <2>2. Told(w)'
      BY Zenon, <1>1, <2>1 DEF Told, Final, SameRow
    <2>3. QED  BY Zenon, <1>1, <2>1, <2>2 DEF Good, Known, SameRow, journal
  <1>4. QED  BY Zenon, <1>2, <1>3 DEF Broadcast

\* The wait ends with the commitment the worker asked for, or without verdict.
LEMMA ConfirmGood ==
  ASSUME TypeOK, Books, NEW w \in Workers, Known(w), Told(w), Confirm(w)
  PROVE  Good(w)
  <1> DEFINE a == worker[w].att
             c == Commitment[w]
  <1>1. /\ UNCHANGED <<journal, chain>> /\ worker[w].pc = "confirm"
        /\ a \in Attempts /\ sig[a] /\ worker[w].st = "signed"
    BY Zenon DEF Confirm, At, Known
  <1>2. CASE Return(w, "unknown")
    BY Zenon, <1>2, ReturnGood DEF Outcomes
  <1>3. CASE ConfirmsAt(w, a) /\ Advance(w, c)
    <2>1. c \in {"confirmed", "finalized"} /\ c \in Statuses
      BY Zenon, DurableSendConstants DEF Statuses
    <2>2. Moves(w) /\ SameRow(w) /\ worker'[w].pc = "resolve" /\ worker'[w].to = c
      BY Zenon, <1>3, <2>1, AdvanceMoves
    <2>3. c = "finalized" => Final(a) /\ ok[a]
      BY Zenon, <1>3 DEF ConfirmsAt, Final
    <2>4. QED
      BY Zenon, <1>1, <2>1, <2>2, <2>3, ToldQuiet DEF Good, Known, SameRow, journal, chain, Final, Settled
  <1>4. QED  BY Zenon, <1>2, <1>3 DEF Confirm, Att

\* A crash loses the worker's local state and nothing else.
LEMMA CrashGood ==
  ASSUME TypeOK, NEW w \in Workers, Crash(w)
  PROVE  Good(w)
  BY Zenon, ReturnGood DEF Crash, Outcomes

-----------------------------------------------------------------------------
(* The invariant is inductive.                                              *)

\* The parts of the invariant, as the lemmas above use them.
LEMMA Parts ==
  SendInv <=> Books /\ worker \in [Workers -> Local] /\ \A w \in Workers : Known(w) /\ Told(w)
  BY Zenon DEF SendInv, TypeOK, Books, DataType, SuccessIsFinal, Told

\* A worker's step keeps the journal and the chain in order.
LEMMA WorkerBooks ==
  ASSUME SendInv, NEW w \in Workers, WorkerStep(w)
  PROVE  Books' /\ Stable /\ Good(w)
  <1> USE Parts
  <1>1. TypeOK /\ Books /\ Known(w) /\ Told(w) /\ worker[w] \in Local
    BY Zenon DEF SendInv
  <1>2. CASE UNCHANGED <<journal, chain>> /\ Good(w)
    BY Zenon, <1>1, <1>2, QuietStep
  <1>3. CASE Begin(w)
    BY Zenon, <1>1, <1>2, <1>3, BeginGood DEF Begin
  <1>4. CASE \E a \in Attempts : Reconcile(w, a)
    BY Zenon, <1>1, <1>2, <1>4, ReconcileGood DEF Reconcile
  <1>5. CASE ReadStatus(w)
    BY Zenon, <1>1, <1>2, <1>5, ReadStatusGood DEF ReadStatus
  <1>6. CASE ReadEpoch(w)
    BY Zenon, <1>1, <1>2, <1>6, ReadEpochGood DEF ReadEpoch
  <1>7. CASE ReadKept(w)
    BY Zenon, <1>1, <1>2, <1>7, ReadKeptGood DEF ReadKept
  <1>8. CASE ReadAgain(w)
    BY Zenon, <1>1, <1>2, <1>8, ReadAgainGood DEF ReadAgain
  <1>9. CASE ReadStill(w)
    BY Zenon, <1>1, <1>2, <1>9, ReadStillGood DEF ReadStill
  <1>10. CASE Resolve(w)
    BY Zenon, <1>1, <1>10, ResolveStep, ResolveGood
  <1>11. CASE Build(w)
    BY Zenon, <1>1, <1>2, <1>11, BuildGood DEF Build
  <1>12. CASE Insert(w)
    BY Zenon, <1>1, <1>12, InsertStep, InsertGood
  <1>13. CASE Reread(w)
    BY Zenon, <1>1, <1>2, <1>13, RereadGood DEF Reread
  <1>14. CASE CheckHeight(w)
    BY Zenon, <1>1, <1>2, <1>14, CheckHeightGood DEF CheckHeight
  <1>15. CASE Expire(w)
    BY Zenon, <1>1, <1>15, ExpireStep, ExpireGood
  <1>16. CASE Sign(w)
    BY Zenon, <1>1, <1>16, SignStep, SignGood
  <1>17. CASE Broadcast(w)
    BY Zenon, <1>1, <1>17, BroadcastStep, BroadcastGood
  <1>18. CASE Confirm(w)
    BY Zenon, <1>1, <1>2, <1>18, ConfirmGood DEF Confirm
  <1>19. CASE Crash(w)
    BY Zenon, <1>1, <1>2, <1>19, CrashGood DEF Crash
  <1>20. QED
    BY Zenon, <1>3, <1>4, <1>5, <1>6, <1>7, <1>8, <1>9, <1>10, <1>11, <1>12, <1>13, <1>14, <1>15,
       <1>16, <1>17, <1>18, <1>19 DEF WorkerStep

\* SendInv is inductive.
LEMMA SendInvStep ==
  ASSUME SendInv, [Next]_vars
  PROVE  SendInv'
  <1>1. Books /\ worker \in [Workers -> Local] /\ \A w \in Workers : Known(w) /\ Told(w)
    BY Zenon, Parts
  <1>2. ASSUME Books', Stable, NEW w \in Workers, Good(w)  PROVE SendInv'
    <2>1. \A x \in Workers : Known(x)' /\ Told(x)'
      BY Zenon, <1>1, <1>2, OthersKeep DEF Good, Moves
    <2>2. worker' \in [Workers -> Local]
      BY Zenon, <1>2 DEF Good, Moves
    <2>3. QED
      BY Zenon, <1>2, <2>1, <2>2 DEF SendInv, TypeOK, Books, DataType, SuccessIsFinal, Told
  <1>3. ASSUME Books', Stable, worker' = worker  PROVE SendInv'
    <2>1. \A x \in Workers : Known(x)' /\ Told(x)'
      BY Zenon, <1>1, <1>3, OthersKeep
    <2>2. QED
      BY Zenon, <1>1, <1>3, <2>1 DEF SendInv, TypeOK, Books, DataType, SuccessIsFinal, Told
  <1>4. CASE \E w \in Workers : WorkerStep(w)
    BY Zenon, <1>2, <1>4, WorkerBooks
  <1>5. CASE Block
    BY Zenon, <1>1, <1>3, <1>5, BlockStep DEF Block
  <1>6. CASE Finalize
    BY Zenon, <1>1, <1>3, <1>6, FinalizeStep DEF Finalize
  <1>7. CASE Prune
    BY Zenon, <1>1, <1>3, <1>7, PruneStep DEF Prune
  <1>8. CASE \E a \in Attempts : Include(a)
    BY Zenon, <1>1, <1>3, <1>8, IncludeStep DEF Include
  <1>9. CASE \E h \in 0 .. MaxHeight : Fork(h)
    BY Zenon, <1>1, <1>3, <1>9, ForkStep DEF Fork
  <1>10. CASE UNCHANGED vars
    BY Zenon, <1>1, <1>3, <1>10, QuietStep DEF vars
  <1>11. QED
    BY Zenon, <1>4, <1>5, <1>6, <1>7, <1>8, <1>9, <1>10 DEF Next

\* Initially nothing has been prepared, sent or reported.
LEMMA SendInvInit ==
  ASSUME Init
  PROVE  SendInv
  <1>1. Books
    BY DurableSendConstants DEF Init, Books, DataType, Rows, JournalTruthful, NothingForgotten, Attempts, Statuses
  <1>2. worker \in [Workers -> Local]
    BY DurableSendConstants DEF Init, Idle, Local, Pcs, Statuses, Outcomes
  <1>3. \A w \in Workers : Known(w) /\ Told(w)
    BY Zenon DEF Init, Idle, Known, Told
  <1>4. QED  BY Zenon, <1>1, <1>2, <1>3, Parts

\* SendInv holds always: journal rows, packets on the chain and what each
\* worker has read agree at every await of durable-send.mjs.
THEOREM SendInvariant == Spec => []SendInv
  <1>1. Init => SendInv
    BY Zenon, SendInvInit
  <1>2. SendInv /\ [Next]_vars => SendInv'
    BY Zenon, SendInvStep
  <1>3. QED  BY <1>1, <1>2, PTL DEF Spec

-----------------------------------------------------------------------------
(* The properties.                                                          *)

\* Every variable keeps its type, the final height never passes the tip.
THEOREM SendTypes == Spec => []TypeOK
  <1>1. SendInv => TypeOK
    BY Zenon DEF SendInv
  <1>2. QED  BY <1>1, SendInvariant, PTL

\* Two effective packets would both be rows, the older one settled.
LEMMA AtMostOnceInd ==
  ASSUME SendInv
  PROVE  AtMostOnce
  <1>1. SUFFICES ASSUME NEW a \in Attempts, NEW b \in Attempts, Effective(a), Effective(b), a < b
                 PROVE  FALSE
    BY DEF AtMostOnce, Attempts
  <1>2. b <= count
    BY Zenon, <1>1 DEF Effective, SendInv, TypeOK, Rows, NothingForgotten
  <1>3. status[a] \in Settled
    BY <1>1, <1>2 DEF SendInv, TypeOK, NothingForgotten, Attempts
  <1>4. QED  BY Zenon, <1>1, <1>3 DEF SendInv, JournalTruthful, Effective, Settled

\* An operation takes effect at most once, for any number of racing and
\* crashing workers and any behaviour of the chain.
THEOREM OperationOnce == Spec => []AtMostOnce
  <1>1. SendInv => AtMostOnce
    BY Zenon, AtMostOnceInd
  <1>2. QED  BY <1>1, SendInvariant, PTL

\* Finalized, failed and expired rows are facts no fork can undo.
THEOREM JournalTrue == Spec => []JournalTruthful
  <1>1. SendInv => JournalTruthful
    BY Zenon DEF SendInv
  <1>2. QED  BY <1>1, SendInvariant, PTL

\* Success reported to a worker that asks for finality is final.
THEOREM SuccessFinal == Spec => []SuccessIsFinal
  <1>1. SendInv => SuccessIsFinal
    BY Zenon DEF SendInv
  <1>2. QED  BY <1>1, SendInvariant, PTL

\* Whatever may execute is a signed row of the journal, the newest if undecided.
THEOREM AllJournaled == Spec => []NothingForgotten
  <1>1. SendInv => NothingForgotten
    BY Zenon DEF SendInv
  <1>2. QED  BY <1>1, SendInvariant, PTL

StatusStays(a) ==
  /\ status[a] \in {"finalized"} \cup Settled => status'[a] = status[a]
  /\ status[a] = "confirmed" => status'[a] \in {"confirmed", "finalized"}

\* No step takes a verdict back.
LEMMA VerdictStep ==
  ASSUME SendInv, [Next]_vars, NEW b \in Attempts
  PROVE  StatusStays(b)
  <1>1. CASE status' = status
    BY Zenon, <1>1 DEF StatusStays
  <1>2. ASSUME NEW w \in Workers, Resolve(w)  PROVE StatusStays(b)
    <2>1. /\ worker[w].st \in {"signed", "confirmed"}
          /\ worker[w].to \in {"confirmed", "finalized"} \cup Settled
          /\ worker[w].to \in Settled => worker[w].st = "signed"
      BY Zenon, <1>2 DEF SendInv, Known, Resolve, At
    <2>2. status' = [status EXCEPT ![Att(w)] = Resolved(w)]
      BY Zenon, <1>2 DEF Resolve
    <2>3. QED  BY Zenon, <2>1, <2>2 DEF SendInv, TypeOK, StatusStays, Resolved, Settled
  <1>3. ASSUME NEW w \in Workers, Expire(w)  PROVE StatusStays(b)
    BY Zenon, <1>3 DEF SendInv, TypeOK, StatusStays, Expire, Settled
  <1>4. ASSUME NEW w \in Workers, Sign(w)  PROVE StatusStays(b)
    BY Zenon, <1>4 DEF SendInv, TypeOK, StatusStays, Sign, Signable, Settled
  <1>5. ASSUME NEW w \in Workers, Insert(w)  PROVE StatusStays(b)
    <2> DEFINE n == worker[w].att + 1
    <2>1. CASE Insertable(w)
      <3>1. status' = [status EXCEPT ![n] = "prepared"] /\ count < n /\ count \in Nat
        BY <1>5, <2>1, DurableSendConstants DEF Insert, Insertable, Att, SendInv, TypeOK
      <3>2. n \in Attempts => status[n] = "none"
        BY <3>1 DEF SendInv, Rows, TypeOK, Attempts
      <3> HIDE DEF n
      <3>3. QED  BY Zenon, <3>1, <3>2 DEF StatusStays, SendInv, TypeOK, Settled
    <2>2. CASE ~Insertable(w)
      BY Zenon, <1>1, <1>5, <2>2 DEF Insert, journal
    <2>3. QED  BY Zenon, <2>1, <2>2
  <1>6. CASE \E w \in Workers : WorkerStep(w)
    BY Zenon, <1>1, <1>2, <1>3, <1>4, <1>5, <1>6
       DEF WorkerStep, Begin, Reconcile, ReadStatus, ReadEpoch, ReadKept, ReadAgain, ReadStill,
           Build, Reread, CheckHeight, Broadcast, Confirm, Crash, journal
  <1>7. CASE ~(\E w \in Workers : WorkerStep(w))
    BY Zenon, <1>1, <1>7 DEF Next, vars, Block, Finalize, Prune, Include, Fork, journal
  <1>8. QED  BY Zenon, <1>6, <1>7

\* A verdict in the journal is never taken back, a confirmed row never replaced.
THEOREM VerdictsKept == Spec => VerdictsStay
  <1>1. SendInv /\ [Next]_vars => [\A a \in Attempts : StatusStays(a)]_vars
    BY Zenon, VerdictStep
  <1>2. QED  BY <1>1, SendInvariant, PTL DEF Spec, VerdictsStay, StatusStays

-----------------------------------------------------------------------------
(* The packets participants sign themselves (WalletPackets), for any number *)
(* of packets, requests and signings.                                       *)
CONSTANTS Packets, Trades, Requests, Sigs, Altered, MaxPending
VARIABLES shown, signature, quoteLive, open, req, landed, sent, valid, retained

Wallet == INSTANCE WalletPackets WITH status <- shown, chain <- landed

\* "unsigned" names no signing, and a signing of the approved message is not one
\* of another message.
Distinct == Wallet!NoSig \notin Sigs /\ Sigs \cap Altered = {}

\* A request is idle or works on one packet.
LEMMA Working ==
  ASSUME Wallet!TypeOK, NEW r \in Requests
  PROVE  /\ req[r] \in Wallet!Asked \/ req[r] = Wallet!Idle
         /\ req[r].at # "idle" => req[r] \in Wallet!Asked
         /\ req[r].at # "idle" => /\ req[r].id \in Packets /\ req[r].sig \in Sigs \cup {Wallet!NoSig}
                                  /\ req[r].seen \in Wallet!Seen
<1>1. req[r] \in Wallet!Asked \/ req[r] = Wallet!Idle
  BY Zenon DEF Wallet!TypeOK, Wallet!Calls, Wallet!Asked
<1>2. req[r].at # "idle" => req[r] \in Wallet!Asked
  BY <1>1 DEF Wallet!Idle
<1>3. \A c \in Wallet!Asked : c.id \in Packets /\ c.sig \in Sigs \cup {Wallet!NoSig} /\ c.seen \in Wallet!Seen
  BY DEF Wallet!Asked
<1> QED BY Zenon, <1>1, <1>2, <1>3

\* progress changes one row, never away from a success or a cancellation.
LEMMA ProgressedRow ==
  ASSUME Wallet!TypeOK, NEW p \in Packets, NEW s \in Wallet!Seen \ {"none"}, NEW e,
         shown' = Wallet!Progressed(p, s, e)
  PROVE  /\ shown' \in [Packets -> Wallet!Closed \cup {"absent", "prepared", "signed", "submitted", "unknown"}]
         /\ \A q \in Packets \ {p} : shown'[q] = shown[q]
         /\ \/ shown'[p] = shown[p]
            \/ /\ shown'[p] = s /\ shown[p] \notin {"finalized", "cancelled"}
               /\ shown[p] = "confirmed" => s = "finalized"
               /\ e # "any" => shown[p] = e
  BY DEF Wallet!TypeOK, Wallet!Progressed, Wallet!Closed, Wallet!Seen

\* What a step may do to one row, to the signing kept for it and to the chain.
Moved(p) ==
  /\ signature[p] # Wallet!NoSig => signature'[p] = signature[p]
  /\ ~valid[p] => ~valid'[p]
  /\ landed[p] = "none" /\ ~valid[p] => landed'[p] = "none"
  /\ landed[p] \in {"confirmed", "finalized"} => landed'[p] \in {"confirmed", "finalized"}
  /\ landed[p] = "error" => landed'[p] = "error"

\* A request that does not move keeps what it knows.
LEMMA CallKept ==
  ASSUME Wallet!TypeOK, NEW r \in Requests, Wallet!CallTrue(r), req'[r] = req[r], \A p \in Packets : Moved(p)
  PROVE  Wallet!CallTrue(r)'
<1>1. CASE req[r] = Wallet!Idle
  BY <1>1 DEF Wallet!CallTrue, Wallet!Idle
<1>2. CASE req[r] \in Wallet!Asked
  <2>1. Moved(req[r].id)
    BY <1>2 DEF Wallet!Asked
  <2> QED BY <2>1 DEF Wallet!CallTrue, Moved, Wallet!Learned
<1> QED BY Zenon, <1>1, <1>2, Working

\* Writing a request leaves the others alone.
LEMMA CallWritten ==
  ASSUME Wallet!TypeOK, NEW r \in Requests, NEW c, req' = [req EXCEPT ![r] = c]
  PROVE  req'[r] = c /\ \A q \in Requests \ {r} : req'[q] = req[q]
  BY Zenon DEF Wallet!TypeOK

\* The new place of a request keeps its packet.
LEMMA CallMoved ==
  ASSUME Wallet!TypeOK, NEW r \in Requests, NEW a \in Wallet!Ats \ {"idle"}, req[r].at # "idle",
         req' = [req EXCEPT ![r].at = a]
  PROVE  /\ req' \in [Requests -> Wallet!Calls]
         /\ \A q \in Requests \ {r} : req'[q] = req[q]
         /\ req'[r].at = a /\ req'[r].id = req[r].id /\ req'[r].sig = req[r].sig
         /\ req'[r].seen = req[r].seen
<1>1. req[r] \in Wallet!Asked
  BY Zenon, Working
<1>2. [req[r] EXCEPT !.at = a] \in Wallet!Asked
  BY <1>1 DEF Wallet!Asked
<1>3. req' = [req EXCEPT ![r] = [req[r] EXCEPT !.at = a]]
  OBVIOUS
<1> QED BY <1>1, <1>2, <1>3 DEF Wallet!TypeOK, Wallet!Calls, Wallet!Asked

\* ... and may keep what it saw.
Saw(r, a, s) == req' = [req EXCEPT ![r].at = a, ![r].seen = s]
LEMMA CallSaw ==
  ASSUME Wallet!TypeOK, NEW r \in Requests, NEW a \in Wallet!Ats \ {"idle"}, NEW s \in Wallet!Seen, req[r].at # "idle",
         Saw(r, a, s)
  PROVE  /\ req' \in [Requests -> Wallet!Calls]
         /\ \A q \in Requests \ {r} : req'[q] = req[q]
         /\ req'[r].at = a /\ req'[r].id = req[r].id /\ req'[r].sig = req[r].sig
         /\ req'[r].seen = s
<1>1. req[r] \in Wallet!Asked
  BY Zenon, Working
<1>2. [[req[r] EXCEPT !.at = a] EXCEPT !.seen = s] \in Wallet!Asked
  BY <1>1 DEF Wallet!Asked
<1>3. req' = [req EXCEPT ![r] = [[req[r] EXCEPT !.at = a] EXCEPT !.seen = s]]
  BY DEF Wallet!TypeOK, Saw
<1> QED BY <1>1, <1>2, <1>3 DEF Wallet!TypeOK, Wallet!Calls, Wallet!Asked

LEMMA CallDone ==
  ASSUME Wallet!TypeOK, NEW r \in Requests, Wallet!Done(r)
  PROVE  /\ req' \in [Requests -> Wallet!Calls]
         /\ \A q \in Requests \ {r} : req'[q] = req[q]
         /\ req'[r] = Wallet!Idle
  BY Zenon DEF Wallet!TypeOK, Wallet!Calls, Wallet!Done

-----------------------------------------------------------------------------

\* Rows, chain and clock of a step that leaves the requests alone.
LEMMA WorldStep ==
  ASSUME Distinct, Wallet!WalletInv, NEW p \in Packets,
         \/ Wallet!Prepare(p) \/ Wallet!Cancel(p) \/ Wallet!Execute(p) \/ Wallet!Confirm(p) \/ Wallet!PassHeight(p) \/ Wallet!Prune(p)
         \/ Wallet!Close(p) \/ Wallet!QuoteExpires(p)
  PROVE  Wallet!WalletInv'
<1>1. Wallet!TypeOK /\ (\A q \in Packets : Wallet!RowTrue(q)) /\ (\A r \in Requests : Wallet!CallTrue(r))
  BY Zenon DEF Wallet!WalletInv
<1>2. UNCHANGED req
  BY Zenon DEF Wallet!Prepare, Wallet!Cancel, Wallet!Execute, Wallet!Confirm, Wallet!PassHeight, Wallet!Prune, Wallet!Close, Wallet!QuoteExpires
<1>3. Wallet!TypeOK'
  BY <1>1, <1>2 DEF Wallet!TypeOK, Wallet!Prepare, Wallet!Cancel, Wallet!Execute, Wallet!Confirm, Wallet!PassHeight, Wallet!Prune, Wallet!Close, Wallet!QuoteExpires,
       Wallet!net, Wallet!rows, Wallet!Closed
<1>4. ASSUME NEW q \in Packets PROVE Wallet!RowTrue(q)' /\ Moved(q)
  <2>1. Wallet!RowTrue(q)
    BY Zenon, <1>1
  <2>2. CASE Wallet!Prepare(p) \/ Wallet!Cancel(p)
    BY <1>1, <2>1, <2>2 DEF Distinct, Wallet!TypeOK, Wallet!RowTrue, Moved, Wallet!Prepare, Wallet!Cancel, Wallet!Insertable, Wallet!net
  <2>3. CASE Wallet!Execute(p) \/ Wallet!Confirm(p)
    BY <1>1, <2>1, <2>3 DEF Wallet!TypeOK, Wallet!RowTrue, Moved, Wallet!Execute, Wallet!Confirm, Wallet!rows
  <2>4. CASE Wallet!PassHeight(p) \/ Wallet!Prune(p) \/ Wallet!Close(p) \/ Wallet!QuoteExpires(p)
    BY <1>1, <2>1, <2>4 DEF Wallet!TypeOK, Wallet!RowTrue, Moved, Wallet!PassHeight, Wallet!Prune, Wallet!Close, Wallet!QuoteExpires, Wallet!rows, Wallet!net
  <2> QED BY Zenon, <2>2, <2>3, <2>4
<1>5. ASSUME NEW r \in Requests PROVE Wallet!CallTrue(r)'
  <2>1. \A q \in Packets : Moved(q)
    BY Zenon, <1>4
  <2> QED BY Zenon, <1>1, <1>2, <2>1, CallKept
<1> QED BY Zenon, <1>3, <1>4, <1>5 DEF Wallet!WalletInv

\* A request that writes no row and touches no chain.
LEMMA PacketQuietStep ==
  ASSUME Wallet!WalletInv, NEW r \in Requests, UNCHANGED <<Wallet!rows, quoteLive, Wallet!net>>,
         req' \in [Requests -> Wallet!Calls], \A q \in Requests \ {r} : req'[q] = req[q], Wallet!CallTrue(r)'
  PROVE  Wallet!WalletInv'
<1>1. Wallet!TypeOK /\ (\A q \in Packets : Wallet!RowTrue(q)) /\ (\A q \in Requests : Wallet!CallTrue(q))
  BY Zenon DEF Wallet!WalletInv
<1>2. Wallet!TypeOK'
  BY Zenon, <1>1 DEF Wallet!TypeOK, Wallet!rows, Wallet!net
<1>3. ASSUME NEW q \in Packets PROVE Wallet!RowTrue(q)' /\ Moved(q)
  BY Zenon, <1>1 DEF Wallet!RowTrue, Moved, Wallet!rows, Wallet!net
<1>4. ASSUME NEW q \in Requests PROVE Wallet!CallTrue(q)'
  <2>1. CASE q = r
    BY Zenon, <2>1
  <2>2. CASE q # r
    <3>1. req'[q] = req[q] /\ \A p \in Packets : Moved(p)
      BY Zenon, <1>3, <2>2
    <3> QED BY Zenon, <1>1, <3>1, CallKept
  <2> QED BY Zenon, <2>1, <2>2
<1> QED BY Zenon, <1>2, <1>3, <1>4 DEF Wallet!WalletInv

\* A request that writes the status of its packet, and then waits or is done.
LEMMA WriteStep ==
  ASSUME Distinct, Wallet!WalletInv, NEW r \in Requests, UNCHANGED <<signature, quoteLive, Wallet!net>>,
         req' \in [Requests -> Wallet!Calls], \A q \in Requests \ {r} : req'[q] = req[q], Wallet!CallTrue(r)',
         NEW p \in Packets, NEW s \in Wallet!Seen \ {"none"}, NEW e, shown' = Wallet!Progressed(p, s, e),
         Wallet!Learned(p, s), signature[p] # Wallet!NoSig \/ (s = "expired" /\ e = "prepared")
  PROVE  Wallet!WalletInv'
<1>1. Wallet!TypeOK /\ (\A q \in Packets : Wallet!RowTrue(q)) /\ (\A q \in Requests : Wallet!CallTrue(q))
  BY Zenon DEF Wallet!WalletInv
<1>2. /\ shown' \in [Packets -> Wallet!Closed \cup {"absent", "prepared", "signed", "submitted", "unknown"}]
      /\ \A q \in Packets \ {p} : shown'[q] = shown[q]
      /\ \/ shown'[p] = shown[p]
         \/ /\ shown'[p] = s /\ shown[p] \notin {"finalized", "cancelled"}
            /\ shown[p] = "confirmed" => s = "finalized"
            /\ e # "any" => shown[p] = e
  BY Zenon, <1>1, ProgressedRow
<1>3. Wallet!TypeOK'
  BY Zenon, <1>1, <1>2 DEF Wallet!TypeOK, Wallet!net
<1>4. ASSUME NEW q \in Packets PROVE Wallet!RowTrue(q)' /\ Moved(q)
  <2>1. Wallet!RowTrue(q) /\ Moved(q)
    BY Zenon, <1>1 DEF Moved, Wallet!net
  <2>2. CASE shown'[q] = shown[q]
    BY Zenon, <2>1, <2>2 DEF Wallet!RowTrue, Wallet!net
  <2>3. CASE q = p /\ shown'[p] = s /\ (e # "any" => shown[p] = e)
    BY <2>1, <2>3 DEF Wallet!RowTrue, Wallet!Learned, Wallet!net, Wallet!Seen
  <2> QED BY Zenon, <1>2, <2>1, <2>2, <2>3
<1>5. ASSUME NEW q \in Requests PROVE Wallet!CallTrue(q)'
  <2>1. CASE q = r
    BY Zenon, <2>1
  <2>2. CASE q # r
    <3>1. req'[q] = req[q] /\ \A x \in Packets : Moved(x)
      BY Zenon, <1>4, <2>2
    <3> QED BY Zenon, <1>1, <3>1, CallKept
  <2> QED BY Zenon, <2>1, <2>2
<1> QED BY Zenon, <1>3, <1>4, <1>5 DEF Wallet!WalletInv

\* An idle request knows nothing.
LEMMA IdleTrue == ASSUME NEW r, req'[r] = Wallet!Idle PROVE Wallet!CallTrue(r)'
  BY DEF Wallet!CallTrue, Wallet!Idle

\* submit and status start on a packet.
LEMMA StartStep ==
  ASSUME Distinct, Wallet!WalletInv, NEW r \in Requests, NEW p \in Packets,
         Wallet!Poll(r, p) \/ \E s \in Sigs \cup Altered : Wallet!Submit(r, p, s)
  PROVE  Wallet!WalletInv'
<1>1. Wallet!TypeOK
  BY Zenon DEF Wallet!WalletInv
<1>2. CASE Wallet!Poll(r, p)
  <2> DEFINE c == [Wallet!Idle EXCEPT !.at = "poll", !.id = p]
  <2>1. c \in Wallet!Asked /\ c.at = "poll"
    BY DEF Wallet!Idle, Wallet!Asked, Wallet!Ats, Wallet!Seen
  <2>2. req' = [req EXCEPT ![r] = c] /\ UNCHANGED <<Wallet!rows, quoteLive, Wallet!net>>
    BY Zenon, <1>2 DEF Wallet!Poll
  <2> HIDE DEF c
  <2>3. req'[r] = c /\ (\A q \in Requests \ {r} : req'[q] = req[q])
    BY Zenon, <1>1, <2>2, CallWritten
  <2>4. req' \in [Requests -> Wallet!Calls]
    BY Zenon, <1>1, <2>1, <2>2 DEF Wallet!TypeOK, Wallet!Calls, Wallet!Asked
  <2>5. Wallet!CallTrue(r)'
    BY <2>1, <2>3 DEF Wallet!CallTrue
  <2> QED BY Zenon, <2>2, <2>3, <2>4, <2>5, PacketQuietStep
<1>3. ASSUME NEW s \in Sigs \cup Altered, Wallet!Submit(r, p, s) PROVE Wallet!WalletInv'
  <2> DEFINE c == [at |-> "sign", id |-> p, sig |-> s, seen |-> "none"]
  <2>0. s \in Sigs /\ s # Wallet!NoSig
    BY Zenon, <1>3 DEF Wallet!Submit, Wallet!TradeSigned, Wallet!Approved, Distinct
  <2>1. c \in Wallet!Asked /\ c.at = "sign" /\ c.sig = s
    BY <2>0 DEF Wallet!Asked, Wallet!Ats, Wallet!Seen
  <2>2. req' = [req EXCEPT ![r] = c] /\ UNCHANGED <<Wallet!rows, quoteLive, Wallet!net>>
    BY Zenon, <1>3 DEF Wallet!Submit
  <2> HIDE DEF c
  <2>3. req'[r] = c /\ (\A q \in Requests \ {r} : req'[q] = req[q])
    BY Zenon, <1>1, <2>2, CallWritten
  <2>4. req' \in [Requests -> Wallet!Calls]
    BY Zenon, <1>1, <2>1, <2>2 DEF Wallet!TypeOK, Wallet!Calls, Wallet!Asked
  <2>5. Wallet!CallTrue(r)'
    BY <2>0, <2>1, <2>3 DEF Wallet!CallTrue
  <2> QED BY Zenon, <2>2, <2>3, <2>4, <2>5, PacketQuietStep
<1> QED BY Zenon, <1>2, <1>3

\* sign keeps the first signing; only that one goes on to be sent.
LEMMA PacketSignStep ==
  ASSUME Distinct, Wallet!WalletInv, NEW r \in Requests, Wallet!Sign(r)
  PROVE  Wallet!WalletInv'
<1>1. Wallet!TypeOK /\ (\A q \in Packets : Wallet!RowTrue(q)) /\ (\A q \in Requests : Wallet!CallTrue(q))
  BY Zenon DEF Wallet!WalletInv
<1>2. PICK p \in Packets, s \in Sigs : p = req[r].id /\ s = req[r].sig /\ req[r].at = "sign" /\ s # Wallet!NoSig
  BY Zenon, <1>1, Working DEF Wallet!Sign, Wallet!CallTrue
<1>3. UNCHANGED <<quoteLive, Wallet!net>>
  BY Zenon DEF Wallet!Sign
<1>4. CASE Wallet!Signable(p, s)
  <2>1. /\ signature' = [signature EXCEPT ![p] = s]
        /\ shown' = [shown EXCEPT ![p] = IF signature[p] = Wallet!NoSig THEN "signed" ELSE @]
        /\ req' = [req EXCEPT ![r].at = "send"]
    BY Zenon, <1>2, <1>4 DEF Wallet!Sign, Wallet!To
  <2>2. "send" \in Wallet!Ats \ {"idle"} /\ req[r].at # "idle"
    BY <1>2 DEF Wallet!Ats
  <2>3. /\ req' \in [Requests -> Wallet!Calls] /\ \A q \in Requests \ {r} : req'[q] = req[q]
        /\ req'[r].at = "send" /\ req'[r].id = p /\ req'[r].sig = s
    BY Zenon, <1>1, <1>2, <2>1, <2>2, CallMoved
  <2>4. Wallet!TypeOK'
    BY <1>1, <1>3, <2>1, <2>3 DEF Wallet!TypeOK, Wallet!net
  <2>5. ASSUME NEW q \in Packets PROVE Wallet!RowTrue(q)' /\ Moved(q)
    <3>1. Wallet!RowTrue(q) /\ sent[q] \subseteq Sigs
      BY Zenon, <1>1 DEF Wallet!TypeOK
    <3> QED BY <1>1, <1>2, <1>3, <1>4, <2>1, <3>1 DEF Distinct, Wallet!TypeOK, Wallet!RowTrue, Moved, Wallet!Signable, Wallet!net
  <2>6. signature'[p] = s
    BY Zenon, <1>1, <2>1 DEF Wallet!TypeOK
  <2>7. Wallet!CallTrue(r)'
    BY <1>2, <2>3, <2>6 DEF Wallet!CallTrue
  <2>8. ASSUME NEW q \in Requests, q # r PROVE Wallet!CallTrue(q)'
    <3>1. req'[q] = req[q] /\ \A x \in Packets : Moved(x)
      BY Zenon, <2>3, <2>5, <2>8
    <3> QED BY Zenon, <1>1, <3>1, CallKept
  <2> QED BY Zenon, <2>4, <2>5, <2>7, <2>8 DEF Wallet!WalletInv
<1>5. CASE ~Wallet!Signable(p, s)
  <2>1. Wallet!Done(r) /\ UNCHANGED Wallet!rows
    BY Zenon, <1>2, <1>5 DEF Wallet!Sign
  <2>2. /\ req' \in [Requests -> Wallet!Calls] /\ \A q \in Requests \ {r} : req'[q] = req[q]
        /\ req'[r] = Wallet!Idle
    BY Zenon, <1>1, <2>1, CallDone
  <2>3. Wallet!CallTrue(r)'
    BY Zenon, <2>2, IdleTrue
  <2> QED BY Zenon, <1>3, <2>1, <2>2, <2>3, PacketQuietStep
<1> QED BY Zenon, <1>4, <1>5

\* The broadcast hands out the signing that sign kept.
LEMMA SendStep ==
  ASSUME Distinct, Wallet!WalletInv, NEW r \in Requests, Wallet!Send(r)
  PROVE  Wallet!WalletInv'
<1>1. Wallet!TypeOK /\ (\A q \in Packets : Wallet!RowTrue(q)) /\ (\A q \in Requests : Wallet!CallTrue(q))
  BY Zenon DEF Wallet!WalletInv
<1>2. PICK p \in Packets, s \in Sigs : /\ p = req[r].id /\ s = req[r].sig /\ req[r].at = "send"
                                       /\ s # Wallet!NoSig /\ signature[p] = s
  BY Zenon, <1>1, Working DEF Wallet!Send, Wallet!CallTrue
<1>3. PICK x \in {"submitted", "unknown"} : Saw(r, "sent", x)
  BY Zenon DEF Wallet!Send, Saw
<1>4. sent' = sent \/ sent' = [sent EXCEPT ![p] = @ \cup {s}]
  BY Zenon, <1>2 DEF Wallet!Send
<1>5. UNCHANGED <<Wallet!rows, quoteLive, landed, valid, retained, open>>
  BY Zenon DEF Wallet!Send
<1>6. "sent" \in Wallet!Ats \ {"idle"} /\ x \in Wallet!Seen /\ req[r].at # "idle"
  BY <1>2 DEF Wallet!Ats, Wallet!Seen
<1>7. /\ req' \in [Requests -> Wallet!Calls] /\ \A q \in Requests \ {r} : req'[q] = req[q]
      /\ req'[r].at = "sent" /\ req'[r].id = p /\ req'[r].sig = s /\ req'[r].seen = x
  BY Zenon, <1>1, <1>2, <1>3, <1>6, CallSaw
<1>8. Wallet!TypeOK'
  BY <1>1, <1>2, <1>4, <1>5, <1>7 DEF Wallet!TypeOK, Wallet!rows
<1>9. ASSUME NEW q \in Packets PROVE Wallet!RowTrue(q)' /\ Moved(q)
  <2>1. Wallet!RowTrue(q)
    BY Zenon, <1>1
  <2>2. sent'[q] \subseteq {signature[q]} /\ (sent[q] # {} => sent'[q] # {})
    BY <1>1, <1>2, <1>4, <2>1 DEF Wallet!TypeOK, Wallet!RowTrue
  <2> QED BY Zenon, <1>5, <2>1, <2>2 DEF Wallet!RowTrue, Moved, Wallet!rows
<1>10. Wallet!CallTrue(r)'
  BY <1>2, <1>5, <1>7 DEF Wallet!CallTrue, Wallet!rows
<1>11. ASSUME NEW q \in Requests, q # r PROVE Wallet!CallTrue(q)'
  <2>1. req'[q] = req[q] /\ \A y \in Packets : Moved(y)
    BY Zenon, <1>7, <1>9, <1>11
  <2> QED BY Zenon, <1>1, <2>1, CallKept
<1> QED BY Zenon, <1>8, <1>9, <1>10, <1>11 DEF Wallet!WalletInv

\* The answer of the broadcast is recorded, and the packet polled.
LEMMA RecordSentStep ==
  ASSUME Distinct, Wallet!WalletInv, NEW r \in Requests, Wallet!RecordSent(r)
  PROVE  Wallet!WalletInv'
<1>1. Wallet!TypeOK /\ Wallet!CallTrue(r)
  BY Zenon DEF Wallet!WalletInv
<1>2. PICK p \in Packets, s \in {"submitted", "unknown"} :
        p = req[r].id /\ s = req[r].seen /\ req[r].at = "sent" /\ signature[p] # Wallet!NoSig
  <2>1. req[r].at = "sent"
    BY Zenon DEF Wallet!RecordSent
  <2> QED BY <1>1, <2>1, Working DEF Wallet!CallTrue
<1>3. /\ shown' = Wallet!Progressed(p, s, "any") /\ Saw(r, "poll", "none")
      /\ UNCHANGED <<signature, quoteLive, Wallet!net>>
  BY Zenon, <1>2 DEF Wallet!RecordSent, Saw
<1>4. "poll" \in Wallet!Ats \ {"idle"} /\ "none" \in Wallet!Seen /\ s \in Wallet!Seen \ {"none"} /\ req[r].at # "idle"
  BY <1>2 DEF Wallet!Ats, Wallet!Seen
<1>5. /\ req' \in [Requests -> Wallet!Calls] /\ \A q \in Requests \ {r} : req'[q] = req[q]
      /\ req'[r].at = "poll"
  BY Zenon, <1>1, <1>3, <1>4, CallSaw
<1>6. Wallet!CallTrue(r)'
  BY <1>5 DEF Wallet!CallTrue
<1>7. Wallet!Learned(p, s)
  BY <1>2 DEF Wallet!Learned
<1> QED BY Zenon, <1>2, <1>3, <1>4, <1>5, <1>6, <1>7, WriteStep

\* A packet seen unsigned after its height expires only while it is unsigned.
LEMMA LapseStep ==
  ASSUME Distinct, Wallet!WalletInv, NEW r \in Requests, Wallet!Lapse(r)
  PROVE  Wallet!WalletInv'
<1>1. Wallet!TypeOK /\ Wallet!CallTrue(r) /\ \A q \in Packets : Wallet!RowTrue(q)
  BY Zenon DEF Wallet!WalletInv
<1>2. PICK p \in Packets : p = req[r].id /\ req[r].at = "lapse" /\ ~valid[p]
  <2>1. req[r].at = "lapse"
    BY Zenon DEF Wallet!Lapse
  <2> QED BY <1>1, <2>1, Working DEF Wallet!CallTrue
<1>3. shown' = Wallet!Progressed(p, "expired", "prepared") /\ Wallet!Done(r) /\ UNCHANGED <<signature, quoteLive, Wallet!net>>
  BY Zenon, <1>2 DEF Wallet!Lapse
<1>4. /\ req' \in [Requests -> Wallet!Calls] /\ \A q \in Requests \ {r} : req'[q] = req[q]
      /\ req'[r] = Wallet!Idle
  BY Zenon, <1>1, <1>3, CallDone
<1>5. Wallet!CallTrue(r)'
  BY Zenon, <1>4, IdleTrue
<1>6. CASE shown[p] = "prepared"
  <2>1. Wallet!RowTrue(p) /\ sent[p] \subseteq Sigs
    BY Zenon, <1>1 DEF Wallet!TypeOK
  <2>2. Wallet!Learned(p, "expired")
    BY <1>2, <1>6, <2>1 DEF Distinct, Wallet!RowTrue, Wallet!Learned
  <2>3. "expired" \in Wallet!Seen \ {"none"}
    BY DEF Wallet!Seen
  <2> QED BY Zenon, <1>3, <1>4, <1>5, <2>2, <2>3, WriteStep
<1>7. CASE shown[p] # "prepared"
  <2>1. shown' = shown
    BY <1>1, <1>3, <1>7 DEF Wallet!TypeOK, Wallet!Progressed
  <2>2. UNCHANGED <<Wallet!rows, quoteLive, Wallet!net>>
    BY Zenon, <1>3, <2>1 DEF Wallet!rows
  <2> QED BY Zenon, <1>4, <1>5, <2>2, PacketQuietStep
<1> QED BY Zenon, <1>6, <1>7

\* What was looked up is recorded.
LEMMA RecordStep ==
  ASSUME Distinct, Wallet!WalletInv, NEW r \in Requests, Wallet!Record(r)
  PROVE  Wallet!WalletInv'
<1>1. Wallet!TypeOK /\ Wallet!CallTrue(r)
  BY Zenon DEF Wallet!WalletInv
<1>2. PICK p \in Packets, s \in Wallet!Seen \ {"none"} :
        p = req[r].id /\ s = req[r].seen /\ signature[p] # Wallet!NoSig /\ Wallet!Learned(p, s)
  <2>1. req[r].at = "record"
    BY Zenon DEF Wallet!Record
  <2> QED BY <1>1, <2>1, Working DEF Wallet!CallTrue
<1>3. shown' = Wallet!Progressed(p, s, "any") /\ Wallet!Done(r) /\ UNCHANGED <<signature, quoteLive, Wallet!net>>
  BY Zenon, <1>2 DEF Wallet!Record
<1>4. /\ req' \in [Requests -> Wallet!Calls] /\ \A q \in Requests \ {r} : req'[q] = req[q]
      /\ req'[r] = Wallet!Idle
  BY Zenon, <1>1, <1>3, CallDone
<1>5. Wallet!CallTrue(r)'
  BY Zenon, <1>4, IdleTrue
<1> QED BY Zenon, <1>2, <1>3, <1>4, <1>5, WriteStep

\* What an RPC lookup reports of a packet is true, and says whether it found one.
LEMMA PacketOutcomeTrue ==
  ASSUME Wallet!TypeOK, NEW p \in Packets
  PROVE  /\ Wallet!Outcome(p) \in Wallet!Seen /\ Wallet!Learned(p, Wallet!Outcome(p))
         /\ Wallet!Outcome(p) = "none" /\ retained[p] => landed[p] = "none"
  BY DEF Wallet!TypeOK, Wallet!Outcome, Wallet!Seen, Wallet!Learned

\* A lookup that found the packet, or its end, waits to record it.
LEMMA FoundStep ==
  ASSUME Wallet!WalletInv, NEW r \in Requests, req[r].at # "idle", UNCHANGED <<Wallet!rows, quoteLive, Wallet!net>>,
         NEW s \in Wallet!Seen \ {"none"}, signature[req[r].id] # Wallet!NoSig, Wallet!Learned(req[r].id, s),
         Saw(r, "record", s)
  PROVE  Wallet!WalletInv'
<1>1. Wallet!TypeOK
  BY Zenon DEF Wallet!WalletInv
<1>2. "record" \in Wallet!Ats \ {"idle"} /\ s \in Wallet!Seen
  BY DEF Wallet!Ats
<1>3. /\ req' \in [Requests -> Wallet!Calls] /\ \A q \in Requests \ {r} : req'[q] = req[q]
      /\ req'[r].at = "record" /\ req'[r].id = req[r].id /\ req'[r].seen = s
  BY Zenon, <1>1, <1>2, CallSaw
<1>4. signature' = signature /\ valid' = valid /\ landed' = landed
  BY Zenon DEF Wallet!rows, Wallet!net
<1>5. Wallet!CallTrue(r)'
  BY <1>3, <1>4 DEF Wallet!CallTrue, Wallet!Learned
<1> QED BY Zenon, <1>3, <1>5, PacketQuietStep

\* The reads of a poll write nothing; each place they lead to knows what it must.
LEMMA ReadStep ==
  ASSUME Distinct, Wallet!WalletInv, NEW r \in Requests,
         Wallet!StatusRead(r) \/ Wallet!Lookup(r) \/ Wallet!Height(r) \/ Wallet!LookupAgain(r)
  PROVE  Wallet!WalletInv'
<1>1. Wallet!TypeOK /\ Wallet!CallTrue(r)
  BY Zenon DEF Wallet!WalletInv
<1>2. req[r].at \in {"poll", "lookup", "height", "again"} /\ UNCHANGED <<Wallet!rows, quoteLive, Wallet!net>>
  BY Zenon DEF Wallet!StatusRead, Wallet!Lookup, Wallet!Height, Wallet!LookupAgain
<1>3. PICK p \in Packets : p = req[r].id /\ req[r].at # "idle"
  BY <1>1, <1>2, Working
<1>4. \/ Wallet!Done(r)
      \/ signature[p] # Wallet!NoSig /\ req' = [req EXCEPT ![r].at = "lookup"]
      \/ ~valid[p] /\ req' = [req EXCEPT ![r].at = "lapse"]
      \/ signature[p] # Wallet!NoSig /\ req' = [req EXCEPT ![r].at = "height"]
      \/ signature[p] # Wallet!NoSig /\ ~valid[p] /\ req' = [req EXCEPT ![r].at = "again"]
      \/ \E s \in Wallet!Seen \ {"none"} :
           signature[p] # Wallet!NoSig /\ Wallet!Learned(p, s) /\ Saw(r, "record", s)
  <2>1. /\ Wallet!Outcome(p) \in Wallet!Seen /\ Wallet!Learned(p, Wallet!Outcome(p))
        /\ Wallet!Outcome(p) = "none" /\ retained[p] => landed[p] = "none"
    BY Zenon, <1>1, PacketOutcomeTrue
  <2>2. /\ req[r].at \in {"lookup", "height", "again"} => signature[p] # Wallet!NoSig
        /\ req[r].at = "again" => ~valid[p]
    BY Zenon, <1>1, <1>3 DEF Wallet!CallTrue
  <2>3. CASE Wallet!StatusRead(r)
    BY Zenon, <1>3, <2>3 DEF Wallet!StatusRead, Wallet!To
  <2>4. CASE Wallet!Lookup(r)
    BY Zenon, <1>3, <2>1, <2>2, <2>4 DEF Wallet!Lookup, Wallet!To, Saw
  <2>5. CASE Wallet!Height(r)
    BY Zenon, <1>3, <2>2, <2>5 DEF Wallet!Height, Wallet!To
  <2>6. CASE Wallet!LookupAgain(r)
    <3>1. signature[p] # Wallet!NoSig /\ ~valid[p] /\ (Wallet!SecondLookup(r) <=> Wallet!Outcome(p) = "none")
      BY Zenon, <1>3, <2>2, <2>6 DEF Wallet!LookupAgain, Wallet!SecondLookup
    <3>2. CASE Wallet!Outcome(p) # "none"
      BY Zenon, <1>3, <2>1, <2>6, <3>1, <3>2 DEF Wallet!LookupAgain, Saw
    <3>3. CASE Wallet!Outcome(p) = "none" /\ retained[p]
      <4>1. Wallet!Learned(p, "expired") /\ "expired" \in Wallet!Seen \ {"none"}
        BY <2>1, <3>1, <3>3 DEF Wallet!Learned, Wallet!Seen
      <4> QED BY Zenon, <1>3, <2>6, <3>1, <3>3, <4>1 DEF Wallet!LookupAgain, Saw
    <3>4. CASE Wallet!Outcome(p) = "none" /\ ~retained[p]
      BY Zenon, <1>3, <2>6, <3>1, <3>4 DEF Wallet!LookupAgain, Saw
    <3> QED BY Zenon, <3>2, <3>3, <3>4
  <2> QED BY Zenon, <2>3, <2>4, <2>5, <2>6
<1>5. signature' = signature /\ valid' = valid /\ landed' = landed
  BY Zenon, <1>2 DEF Wallet!rows, Wallet!net
<1>6. CASE Wallet!Done(r)
  <2>1. /\ req' \in [Requests -> Wallet!Calls] /\ \A q \in Requests \ {r} : req'[q] = req[q]
        /\ req'[r] = Wallet!Idle
    BY Zenon, <1>1, <1>6, CallDone
  <2>2. Wallet!CallTrue(r)'
    BY Zenon, <2>1, IdleTrue
  <2> QED BY Zenon, <1>2, <2>1, <2>2, PacketQuietStep
<1>7. ASSUME NEW a \in {"lookup", "lapse", "height", "again"}, req' = [req EXCEPT ![r].at = a],
             a # "lapse" => signature[p] # Wallet!NoSig, a \in {"lapse", "again"} => ~valid[p]
      PROVE  Wallet!WalletInv'
  <2>1. a \in Wallet!Ats \ {"idle"}
    BY DEF Wallet!Ats
  <2>2. /\ req' \in [Requests -> Wallet!Calls] /\ \A q \in Requests \ {r} : req'[q] = req[q]
        /\ req'[r].at = a /\ req'[r].id = p
    BY Zenon, <1>1, <1>3, <1>7, <2>1, CallMoved
  <2>3. Wallet!CallTrue(r)'
    BY <1>5, <1>7, <2>2 DEF Wallet!CallTrue
  <2> QED BY Zenon, <1>2, <2>2, <2>3, PacketQuietStep
<1>8. ASSUME NEW s \in Wallet!Seen \ {"none"}, signature[p] # Wallet!NoSig, Wallet!Learned(p, s), Saw(r, "record", s)
      PROVE  Wallet!WalletInv'
  BY Zenon, <1>2, <1>3, <1>8, FoundStep
<1> QED BY <1>4, <1>6, <1>7, <1>8

-----------------------------------------------------------------------------

\* What the rows and the requests say of the chain is true in every reachable
\* state, for any number of packets, tabs, replicas and signings.
THEOREM WalletInductive ==
  ASSUME Distinct
  PROVE  Wallet!Spec => []Wallet!WalletInv
<1>1. Wallet!Init => Wallet!WalletInv
  <2> SUFFICES ASSUME Wallet!Init PROVE Wallet!WalletInv
    OBVIOUS
  <2>1. Wallet!TypeOK
    BY DEF Wallet!Init, Wallet!TypeOK, Wallet!Calls, Wallet!Closed
  <2>2. ASSUME NEW p \in Packets PROVE Wallet!RowTrue(p)
    BY DEF Wallet!Init, Wallet!RowTrue
  <2>3. ASSUME NEW r \in Requests PROVE Wallet!CallTrue(r)
    BY DEF Wallet!Init, Wallet!CallTrue, Wallet!Idle
  <2> QED BY Zenon, <2>1, <2>2, <2>3 DEF Wallet!WalletInv
<1>2. Wallet!WalletInv /\ [Wallet!Next]_(Wallet!vars) => Wallet!WalletInv'
  <2> SUFFICES ASSUME Wallet!WalletInv, [Wallet!Next]_(Wallet!vars) PROVE Wallet!WalletInv'
    OBVIOUS
  <2>1. CASE UNCHANGED Wallet!vars
    BY Zenon, <2>1 DEF Wallet!vars, Wallet!rows, Wallet!net, Wallet!WalletInv, Wallet!TypeOK, Wallet!RowTrue, Wallet!CallTrue, Wallet!Learned
  <2>2. ASSUME NEW p \in Packets,
               \/ Wallet!Prepare(p) \/ Wallet!Cancel(p) \/ Wallet!Execute(p) \/ Wallet!Confirm(p) \/ Wallet!PassHeight(p) \/ Wallet!Prune(p)
               \/ Wallet!Close(p) \/ Wallet!QuoteExpires(p)
        PROVE  Wallet!WalletInv'
    BY Zenon, <2>2, WorldStep
  <2>3. ASSUME NEW r \in Requests, NEW p \in Packets,
               Wallet!Poll(r, p) \/ \E s \in Sigs \cup Altered : Wallet!Submit(r, p, s)
        PROVE  Wallet!WalletInv'
    BY Zenon, <2>3, StartStep
  <2>4. ASSUME NEW r \in Requests, Wallet!Step(r) PROVE Wallet!WalletInv'
    <3>1. CASE Wallet!StatusRead(r) \/ Wallet!Lookup(r) \/ Wallet!Height(r) \/ Wallet!LookupAgain(r)
      BY Zenon, <3>1, ReadStep
    <3> QED BY Zenon, <2>4, <3>1, PacketSignStep, SendStep, RecordSentStep, LapseStep, RecordStep DEF Wallet!Step
  <2> QED BY Zenon, <2>1, <2>2, <2>3, <2>4 DEF Wallet!Next
<1> QED BY <1>1, <1>2, PTL DEF Wallet!Spec

\* progress and signedPacketOutcome: a success, error or expiry shown of a packet
\* really happened, and a cancelled packet was never sent.
THEOREM ShownAlwaysTrue ==
  ASSUME Distinct
  PROVE  Wallet!Spec => []Wallet!ShownOutcomeIsTrue
<1>1. Wallet!WalletInv => Wallet!ShownOutcomeIsTrue
  <2> SUFFICES ASSUME Wallet!WalletInv, NEW p \in Packets
               PROVE  /\ shown[p] \in {"confirmed", "finalized"} => landed[p] \in {"confirmed", "finalized"}
                      /\ shown[p] = "failed" => landed[p] = "error"
                      /\ shown[p] = "expired" => ~valid[p] /\ landed[p] = "none"
                      /\ shown[p] = "cancelled" => sent[p] = {}
    BY Zenon DEF Wallet!ShownOutcomeIsTrue
  <2>1. Wallet!RowTrue(p) /\ sent[p] \subseteq Sigs
    BY Zenon DEF Wallet!WalletInv, Wallet!TypeOK
  <2> QED BY <2>1 DEF Wallet!RowTrue, Distinct
<1> QED BY <1>1, WalletInductive, PTL

\* sign keeps the first signing and refuses another: retries, second tabs and
\* resumed polls broadcast that one signing of the approved message or nothing.
THEOREM OneSigningAlways ==
  ASSUME Distinct
  PROVE  Wallet!Spec => []Wallet!OneSigningSent
<1>1. Wallet!WalletInv => Wallet!OneSigningSent
  BY Zenon DEF Wallet!WalletInv, Wallet!TypeOK, Wallet!RowTrue, Wallet!OneSigningSent, Distinct
<1> QED BY <1>1, WalletInductive, PTL

\* progress: no late write of another request takes a recorded success back.
THEOREM SuccessAlwaysKept ==
  ASSUME Distinct
  PROVE  Wallet!Spec => Wallet!SuccessIsKept
<1> DEFINE Kept == \A p \in Packets :
                     /\ shown[p] = "finalized" => shown'[p] = "finalized"
                     /\ shown[p] = "confirmed" => shown'[p] \in {"confirmed", "finalized"}
<1>1. Wallet!WalletInv /\ [Wallet!Next]_(Wallet!vars) => [Kept]_(Wallet!vars)
  <2> SUFFICES ASSUME Wallet!WalletInv, Wallet!Next, NEW p \in Packets
               PROVE  /\ shown[p] = "finalized" => shown'[p] = "finalized"
                      /\ shown[p] = "confirmed" => shown'[p] \in {"confirmed", "finalized"}
    BY Zenon
  <2>0. Wallet!TypeOK /\ (\A q \in Packets : Wallet!RowTrue(q)) /\ \A r \in Requests : Wallet!CallTrue(r)
    BY Zenon DEF Wallet!WalletInv
  <2>1. CASE shown' = shown
    BY Zenon, <2>1
  <2>2. ASSUME NEW q \in Packets, Wallet!Prepare(q) \/ Wallet!Cancel(q)
        PROVE  \/ shown' = shown
               \/ shown[q] \notin {"confirmed", "finalized"} /\ \A x \in Packets \ {q} : shown'[x] = shown[x]
    BY <2>0, <2>2 DEF Wallet!TypeOK, Wallet!Prepare, Wallet!Insertable, Wallet!Cancel
  <2>3. ASSUME NEW q \in Packets, NEW s \in Wallet!Seen \ {"none"}, NEW e, shown' = Wallet!Progressed(q, s, e)
        PROVE  /\ shown[p] = "finalized" => shown'[p] = "finalized"
               /\ shown[p] = "confirmed" => shown'[p] \in {"confirmed", "finalized"}
    <3>1. /\ \A x \in Packets \ {q} : shown'[x] = shown[x]
          /\ \/ shown'[q] = shown[q]
             \/ /\ shown'[q] = s /\ shown[q] \notin {"finalized", "cancelled"}
                /\ shown[q] = "confirmed" => s = "finalized"
      BY Zenon, <2>0, <2>3, ProgressedRow
    <3> QED BY Zenon, <3>1
  <2>4. ASSUME NEW r \in Requests, Wallet!Step(r)
        PROVE  /\ shown[p] = "finalized" => shown'[p] = "finalized"
               /\ shown[p] = "confirmed" => shown'[p] \in {"confirmed", "finalized"}
    <3>1. CASE Wallet!Send(r) \/ Wallet!StatusRead(r) \/ Wallet!Lookup(r) \/ Wallet!Height(r) \/ Wallet!LookupAgain(r)
      BY Zenon, <2>1, <3>1 DEF Wallet!Send, Wallet!StatusRead, Wallet!Lookup, Wallet!Height, Wallet!LookupAgain, Wallet!rows
    <3>2. CASE Wallet!Sign(r)
      <4>1. PICK q \in Packets : q = req[r].id /\ Wallet!RowTrue(q)
        BY Zenon, <2>0, <3>2, Working DEF Wallet!Sign
      <4>2. shown' = shown \/ shown' = [shown EXCEPT ![q] = IF signature[q] = Wallet!NoSig THEN "signed" ELSE @]
        BY Zenon, <3>2, <4>1 DEF Wallet!Sign, Wallet!rows
      <4> QED BY <2>0, <4>1, <4>2 DEF Wallet!TypeOK, Wallet!RowTrue
    <3>3. ASSUME req[r].at \in {"sent", "record", "lapse"}
          PROVE  req[r].id \in Packets /\ (req[r].at # "lapse" => req[r].seen \in Wallet!Seen \ {"none"})
      BY <2>0, <3>3, Working DEF Wallet!CallTrue
    <3>4. CASE Wallet!RecordSent(r)
      BY Zenon, <2>3, <3>3, <3>4 DEF Wallet!RecordSent
    <3>5. CASE Wallet!Record(r)
      BY Zenon, <2>3, <3>3, <3>5 DEF Wallet!Record
    <3>6. CASE Wallet!Lapse(r)
      <4>1. "expired" \in Wallet!Seen \ {"none"}
        BY DEF Wallet!Seen
      <4> QED BY Zenon, <2>3, <3>3, <3>6, <4>1 DEF Wallet!Lapse
    <3> QED BY Zenon, <2>4, <3>1, <3>2, <3>4, <3>5, <3>6 DEF Wallet!Step
  <2>5. ASSUME NEW r \in Requests, NEW q \in Packets,
               Wallet!Poll(r, q) \/ \E s \in Sigs \cup Altered : Wallet!Submit(r, q, s)
        PROVE  shown' = shown
    BY Zenon, <2>5 DEF Wallet!Poll, Wallet!Submit, Wallet!rows
  <2>6. ASSUME NEW q \in Packets,
               \/ Wallet!Execute(q) \/ Wallet!Confirm(q) \/ Wallet!PassHeight(q) \/ Wallet!Prune(q) \/ Wallet!Close(q) \/ Wallet!QuoteExpires(q)
        PROVE  shown' = shown
    BY Zenon, <2>6 DEF Wallet!Execute, Wallet!Confirm, Wallet!PassHeight, Wallet!Prune, Wallet!Close, Wallet!QuoteExpires, Wallet!rows
  <2> QED BY Zenon, <2>1, <2>2, <2>4, <2>5, <2>6 DEF Wallet!Next
<1> QED BY <1>1, WalletInductive, PTL DEF Wallet!Spec, Wallet!SuccessIsKept
=============================================================================
