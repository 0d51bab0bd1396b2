------------------------ MODULE SignerOwnershipProofs ------------------------
(***************************************************************************)
(* For any number of signer processes, any time to live, any margin below  *)
(* a third of it and any clock skew up to the margin: never two valid      *)
(* owners, the valid owner is the row's, and a lost ownership stays lost.  *)
(* Then the same for the signing service the owner runs, by instance.      *)
(***************************************************************************)
EXTENDS SignerOwnership, TLAPS

USE SMTT(30), ZenonT(20)

\* What a grant of the row until `end` is worth now: the row is still that grant's, or its time,
\* less the margin, is over.
Holds(p, e, end) == (owner = p /\ epochs = e /\ end <= expires) \/ now + Margin >= end

\* The clocks: a question is never asked in the future and gives no deadline past a full term.
Clocks ==
  \A p \in Procs : started[p] <= now /\ deadline[p] + Margin <= now + Ttl

\* Every answer on its way is a grant still worth something, or over.
Answers ==
  \A p \in Procs : Pending(p) /\ answer[p].granted => Holds(p, answer[p].epoch, started[p] + Ttl)

\* A valid process holds the row with the margin to spare.
Owners ==
  \A p \in Procs : valid(p) => owner = p /\ epochs = epoch[p] /\ deadline[p] + Margin <= expires

\* Only a closed process has a close on its way.
Closes == \A p \in Procs : "close" \in sent[p] => status[p] = "closed"

\* A process that has not started has asked nothing.
Idle == \A p \in Procs : status[p] = "idle" => sent[p] = {} /\ ~answer[p].granted

IInv == TypeOK /\ Clocks /\ Answers /\ Owners /\ Closes /\ Idle

\* Before any process starts, nothing is held (the empty signer_ownership table).
LEMMA InitInv == Init => IInv
BY OwnershipAssumption
   DEF Init, IInv, TypeOK, Clocks, Answers, Owners, Closes, Idle, valid, Running, Pending, Nothing

\* Every statement and every answer keeps types and epochs (ownership.mjs 14-60).
LEMMA TypeStep == IInv /\ [Next]_vars => TypeOK'
<1> SUFFICES ASSUME IInv, [Next]_vars PROVE TypeOK'
  OBVIOUS
<1> USE OwnershipAssumption DEF IInv, TypeOK
<1>1. ASSUME NEW p \in Procs, Acquire(p) PROVE TypeOK'
  BY <1>1 DEF Acquire, rowVars
<1>2. ASSUME NEW p \in Procs, Renew(p) PROVE TypeOK'
  <2>0. Nothing \in [granted : BOOLEAN, epoch : Nat]
    BY DEF Nothing
  <2>1. answer' \in [Procs -> [granted : BOOLEAN, epoch : Nat]]
    BY <1>2, <2>0 DEF Renew
  <2> QED BY <1>2, <2>1 DEF Renew, rowVars
<1>3. ASSUME NEW p \in Procs, Acquired(p) PROVE TypeOK'
  <2>1. CASE InTime(p)
    <3>1. answer[p].epoch \in Nat /\ answer[p].epoch <= epochs
      BY <1>3, <2>1 DEF Acquired, Answers, Holds, Pending, InTime, Clocks
    <3>2. started[p] + Ttl - Margin \in Nat
      OBVIOUS
    <3> QED BY <1>3, <2>1, <3>1, <3>2 DEF Acquired, Accept, rowVars
  <2>2. CASE ~InTime(p)
    BY <1>3, <2>2 DEF Acquired, Stop, rowVars
  <2> QED BY <2>1, <2>2
<1>4. ASSUME NEW p \in Procs, Renewed(p) PROVE TypeOK'
  <2>1. CASE now < deadline[p] /\ answer[p].epoch = epoch[p] /\ InTime(p)
    <3>2. started[p] + Ttl - Margin \in Nat
      OBVIOUS
    <3>3. deadline' \in [Procs -> Nat]
      BY <1>4, <2>1, <3>2 DEF Renewed, Accept
    <3>4. epoch' = [epoch EXCEPT ![p] = epoch[p]]
      BY <1>4, <2>1 DEF Renewed, Accept
    <3>5. epoch' = epoch
      BY <3>4
    <3> QED BY <1>4, <2>1, <3>3, <3>5 DEF Renewed, Accept, rowVars
  <2>2. CASE ~(now < deadline[p] /\ answer[p].epoch = epoch[p] /\ InTime(p))
    BY <1>4, <2>2 DEF Renewed, Stop, rowVars
  <2> QED BY <2>1, <2>2
<1>5. ASSUME NEW p \in Procs, Failed(p) PROVE TypeOK'
  BY <1>5 DEF Failed, Stop, rowVars
<1>6. ASSUME NEW p \in Procs, Close(p) PROVE TypeOK'
  BY <1>6 DEF Close, rowVars
<1>7. ASSUME NEW p \in Procs, RunAcquire(p) PROVE TypeOK'
  <2>1. dbNow + Ttl \in Nat /\ epochs + 1 \in Nat
    BY DEF dbNow
  <2>0. [granted |-> TRUE, epoch |-> epochs + 1] \in [granted : BOOLEAN, epoch : Nat]
    BY <2>1
  <2>2. answer' \in [Procs -> [granted : BOOLEAN, epoch : Nat]]
    BY <1>7, <2>0 DEF RunAcquire
  <2>3. owner' \in Procs \cup {None} /\ epochs' \in Nat /\ expires' \in Nat
    BY <1>7, <2>1 DEF RunAcquire, rowVars
  <2>4. epochs <= epochs'
    BY <1>7 DEF RunAcquire, rowVars
  <2>5. \A q \in Procs : epoch'[q] <= epochs'
    BY <1>7, <2>3, <2>4 DEF RunAcquire
  <2>6. sent' \in [Procs -> SUBSET {"acquire", "renew", "close"}]
    BY <1>7 DEF RunAcquire, Ran
  <2> QED BY <1>7, <2>2, <2>3, <2>5, <2>6 DEF RunAcquire
<1>8. ASSUME NEW p \in Procs, RunRenew(p) PROVE TypeOK'
  <2>1. dbNow + Ttl \in Nat
    BY DEF dbNow
  <2>0. [granted |-> TRUE, epoch |-> epochs] \in [granted : BOOLEAN, epoch : Nat]
    OBVIOUS
  <2>2. answer' \in [Procs -> [granted : BOOLEAN, epoch : Nat]]
    BY <1>8, <2>0 DEF RunRenew
  <2> QED BY <1>8, <2>1, <2>2 DEF RunRenew, Ran, rowVars
<1>9. ASSUME NEW p \in Procs, RunClose(p) PROVE TypeOK'
  BY <1>9 DEF RunClose, Ran, rowVars
<1>10. CASE Tick
  BY <1>10 DEF Tick, rowVars, procVars
<1>11. CASE Adjust
  BY <1>11 DEF Adjust, rowVars, procVars
<1>12. CASE UNCHANGED vars
  BY <1>12 DEF vars, rowVars, procVars
<1> QED
  BY <1>1, <1>2, <1>3, <1>4, <1>5, <1>6, <1>7, <1>8, <1>9, <1>10, <1>11, <1>12 DEF Next

\* Questions and deadlines stay behind the clock (accept, ownership.mjs 14-19).
LEMMA ClocksStep == IInv /\ [Next]_vars => Clocks'
<1> SUFFICES ASSUME IInv, [Next]_vars PROVE Clocks'
  OBVIOUS
<1> USE OwnershipAssumption DEF IInv, TypeOK, Clocks
<1>1. ASSUME NEW p \in Procs, Acquire(p) \/ Renew(p) PROVE Clocks'
  BY <1>1 DEF Acquire, Renew, rowVars
<1>2. ASSUME NEW p \in Procs, Acquired(p) \/ Renewed(p) PROVE Clocks'
  BY <1>2 DEF Acquired, Renewed, Accept, Stop, rowVars
<1>3. ASSUME NEW p \in Procs,
             Failed(p) \/ Close(p) \/ RunAcquire(p) \/ RunRenew(p) \/ RunClose(p)
      PROVE Clocks'
  BY <1>3 DEF Failed, Close, RunAcquire, RunRenew, RunClose, Stop
<1>4. CASE Tick
  BY <1>4 DEF Tick, rowVars, procVars
<1>5. CASE Adjust \/ UNCHANGED vars
  BY <1>5 DEF Adjust, vars, rowVars, procVars
<1> QED
  BY <1>1, <1>2, <1>3, <1>4, <1>5 DEF Next

\* A close is sent by a process that has stopped for good (ownership.mjs 54-60).
LEMMA ClosesStep == IInv /\ [Next]_vars => Closes'
<1> SUFFICES ASSUME IInv, [Next]_vars, NEW q \in Procs, "close" \in sent'[q]
             PROVE status'[q] = "closed"
  BY DEF Closes
<1> USE DEF IInv, TypeOK, Closes
<1>1. ASSUME NEW p \in Procs, Acquire(p) \/ Renew(p) PROVE status'[q] = "closed"
  BY <1>1 DEF Acquire, Renew
<1>2. ASSUME NEW p \in Procs, Acquired(p) \/ Renewed(p) \/ Failed(p) PROVE status'[q] = "closed"
  BY <1>2 DEF Acquired, Renewed, Failed, Accept, Stop, Pending
<1>3. ASSUME NEW p \in Procs, Close(p) PROVE status'[q] = "closed"
  BY <1>3 DEF Close
<1>4. ASSUME NEW p \in Procs, RunAcquire(p) \/ RunRenew(p) \/ RunClose(p) PROVE status'[q] = "closed"
  BY <1>4 DEF RunAcquire, RunRenew, RunClose, Ran
<1>5. CASE Tick \/ Adjust \/ UNCHANGED vars
  BY <1>5 DEF Tick, Adjust, vars, procVars
<1> QED
  BY <1>1, <1>2, <1>3, <1>4, <1>5 DEF Next

\* Statements run only for processes that sent them.
LEMMA IdleStep == IInv /\ [Next]_vars => Idle'
<1> SUFFICES ASSUME IInv, [Next]_vars, NEW q \in Procs, status'[q] = "idle"
             PROVE sent'[q] = {} /\ ~answer'[q].granted
  BY DEF Idle
<1> DEFINE Goal == sent'[q] = {} /\ ~answer'[q].granted
<1> USE DEF IInv, TypeOK, Idle
<1>1. ASSUME NEW p \in Procs, Acquire(p) \/ Renew(p) PROVE Goal
  BY <1>1 DEF Acquire, Renew
<1>2. ASSUME NEW p \in Procs, Acquired(p) \/ Renewed(p) \/ Failed(p) \/ Close(p) PROVE Goal
  BY <1>2 DEF Acquired, Renewed, Failed, Close, Accept, Stop
<1>3. ASSUME NEW p \in Procs, RunAcquire(p) \/ RunRenew(p) \/ RunClose(p) PROVE Goal
  BY <1>3 DEF RunAcquire, RunRenew, RunClose, Ran
<1>4. CASE Tick \/ Adjust \/ UNCHANGED vars
  BY <1>4 DEF Tick, Adjust, vars, procVars
<1> QED
  BY <1>1, <1>2, <1>3, <1>4 DEF Next

\* A grant on its way is the row's until its time is over: another process takes the row only when
\* its end is past in database time, and that is ahead by no more than the margin.
LEMMA AnswersStep == IInv /\ [Next]_vars => Answers'
<1> SUFFICES ASSUME IInv, [Next]_vars, NEW q \in Procs, Pending(q)', answer'[q].granted
             PROVE Holds(q, answer[q].epoch, started[q] + Ttl)'
  BY DEF Answers
<1> DEFINE Goal == Holds(q, answer[q].epoch, started[q] + Ttl)'
<1> USE OwnershipAssumption DEF IInv, TypeOK
<1>1. ASSUME NEW p \in Procs, Acquire(p) PROVE Goal
  <2>1. CASE p = q
    BY <1>1, <2>1 DEF Acquire, Idle
  <2>2. CASE p # q
    BY <1>1, <2>2 DEF Acquire, Answers, Holds, Pending, rowVars
  <2> QED BY <2>1, <2>2
<1>2. ASSUME NEW p \in Procs, Renew(p) PROVE Goal
  BY <1>2 DEF Renew, Answers, Holds, Pending, Nothing, rowVars
<1>3. ASSUME NEW p \in Procs, Acquired(p) \/ Renewed(p) \/ Failed(p) PROVE Goal
  BY <1>3 DEF Acquired, Renewed, Failed, Accept, Stop, Answers, Holds, Pending, rowVars
<1>4. ASSUME NEW p \in Procs, Close(p) PROVE Goal
  BY <1>4 DEF Close, Answers, Holds, Pending, rowVars
<1>5. ASSUME NEW p \in Procs, RunAcquire(p) PROVE Goal
  <2>1. CASE p = q
    BY <1>5, <2>1 DEF RunAcquire, Answers, Holds, Pending, Clocks, dbNow, rowVars
  <2>2. CASE p # q
    BY <1>5, <2>2 DEF RunAcquire, Answers, Holds, Pending, dbNow, rowVars
  <2> QED BY <2>1, <2>2
<1>6. ASSUME NEW p \in Procs, RunRenew(p) PROVE Goal
  <2>1. CASE p = q
    BY <1>6, <2>1 DEF RunRenew, Answers, Holds, Pending, Clocks, dbNow, rowVars
  <2>2. CASE p # q
    BY <1>6, <2>2 DEF RunRenew, Answers, Holds, Pending, dbNow, rowVars
  <2> QED BY <2>1, <2>2
<1>7. ASSUME NEW p \in Procs, RunClose(p) PROVE Goal
  <2>1. p # q
    BY <1>7 DEF RunClose, Closes, Pending
  <2> QED BY <1>7, <2>1 DEF RunClose, Answers, Holds, Pending, rowVars
<1>8. CASE Tick \/ Adjust \/ UNCHANGED vars
  BY <1>8 DEF Tick, Adjust, vars, rowVars, procVars, Answers, Holds, Pending
<1> QED
  BY <1>1, <1>2, <1>3, <1>4, <1>5, <1>6, <1>7, <1>8 DEF Next

\* No step takes the row from a valid process (ownership.mjs 23-29, 38-45, 57-58).
LEMMA OwnersStep == IInv /\ [Next]_vars => Owners'
<1> SUFFICES ASSUME IInv, [Next]_vars, NEW q \in Procs, valid(q)'
             PROVE (owner = q /\ epochs = epoch[q] /\ deadline[q] + Margin <= expires)'
  BY DEF Owners
<1> DEFINE Goal == (owner = q /\ epochs = epoch[q] /\ deadline[q] + Margin <= expires)'
<1> USE OwnershipAssumption DEF IInv, TypeOK
<1>1. ASSUME NEW p \in Procs, Acquire(p) \/ Renew(p) \/ Failed(p) \/ Close(p) PROVE Goal
  BY <1>1 DEF Acquire, Renew, Failed, Stop, Close, Owners, valid, Running, rowVars
<1>2. ASSUME NEW p \in Procs, Acquired(p) PROVE Goal
  <2>1. CASE p = q
    BY <1>2, <2>1 DEF Acquired, Accept, Stop, InTime, Answers, Holds, Pending, valid, Running, rowVars
  <2>2. CASE p # q
    BY <1>2, <2>2 DEF Acquired, Accept, Stop, Owners, valid, Running, rowVars
  <2> QED BY <2>1, <2>2
<1>3. ASSUME NEW p \in Procs, Renewed(p) PROVE Goal
  <2>1. CASE p = q
    BY <1>3, <2>1 DEF Renewed, Accept, Stop, InTime, Answers, Holds, Pending, valid, Running, rowVars
  <2>2. CASE p # q
    BY <1>3, <2>2 DEF Renewed, Accept, Stop, Owners, valid, Running, rowVars
  <2> QED BY <2>1, <2>2
<1>4. ASSUME NEW p \in Procs, RunAcquire(p) PROVE Goal
  BY <1>4 DEF RunAcquire, Owners, valid, Running, dbNow, rowVars
<1>5. ASSUME NEW p \in Procs, RunRenew(p) PROVE Goal
  BY <1>5 DEF RunRenew, Owners, Clocks, valid, Running, dbNow, rowVars
<1>6. ASSUME NEW p \in Procs, RunClose(p) PROVE Goal
  BY <1>6 DEF RunClose, Owners, Closes, valid, Running, rowVars
<1>7. CASE Tick \/ Adjust \/ UNCHANGED vars
  BY <1>7 DEF Tick, Adjust, vars, rowVars, procVars, Owners, valid, Running
<1> QED
  BY <1>1, <1>2, <1>3, <1>4, <1>5, <1>6, <1>7 DEF Next

\* The inductive invariant holds throughout.
THEOREM OwnershipInvariant == Spec => []IInv
<1>1. IInv /\ [Next]_vars => IInv'
  BY TypeStep, ClocksStep, AnswersStep, OwnersStep, ClosesStep, IdleStep DEF IInv
<1> QED
  BY InitInv, <1>1, PTL DEF Spec

\* Never two processes that may sign (OneValidOwner), for any processes, times and delays.
THEOREM OneOwnerAlways == Spec => []OneValidOwner
<1>1. IInv => OneValidOwner
  BY DEF IInv, Owners, OneValidOwner
<1> QED
  BY OwnershipInvariant, <1>1, PTL

\* The process that may sign is the one the row names (HolderOwnsRow).
THEOREM HolderOwnsRowAlways == Spec => []HolderOwnsRow
<1>1. IInv => HolderOwnsRow
  BY DEF IInv, Owners, HolderOwnsRow
<1> QED
  BY OwnershipInvariant, <1>1, PTL

\* A process past its deadline is never valid again (LostIsTerminal).
THEOREM LostStaysLost == Spec => LostIsTerminal
<1> DEFINE Kept == \A p \in Procs : Running(p) /\ now >= deadline[p] => ~(Running(p) /\ now < deadline[p])'
<1>1. IInv /\ [Next]_vars => [Kept]_vars
  <2> SUFFICES ASSUME IInv, Next, NEW q \in Procs, Running(q), now >= deadline[q]
               PROVE ~(Running(q) /\ now < deadline[q])'
    OBVIOUS
  <2> USE DEF IInv, TypeOK, Running
  <2>1. ASSUME NEW p \in Procs, Acquire(p) \/ Renew(p) \/ Failed(p) \/ Close(p)
        PROVE ~(Running(q) /\ now < deadline[q])'
    BY <2>1 DEF Acquire, Renew, Failed, Stop, Close
  <2>2. ASSUME NEW p \in Procs, Acquired(p) \/ Renewed(p)
        PROVE ~(Running(q) /\ now < deadline[q])'
    BY <2>2 DEF Acquired, Renewed, Accept, Stop
  <2>3. ASSUME NEW p \in Procs, RunAcquire(p) \/ RunRenew(p) \/ RunClose(p)
        PROVE ~(Running(q) /\ now < deadline[q])'
    BY <2>3 DEF RunAcquire, RunRenew, RunClose
  <2>4. CASE Tick \/ Adjust
    BY <2>4 DEF Tick, Adjust, procVars
  <2> QED
    BY <2>1, <2>2, <2>3, <2>4 DEF Next
<1> QED
  BY OwnershipInvariant, <1>1, PTL DEF Spec, LostIsTerminal

-----------------------------------------------------------------------------
(* The signing service, for any requests, leases, limits and number of      *)
(* faults: what was signed was signed under its lease, what was returned is *)
(* recorded, and a signature carries the newest token this signer has seen. *)

CONSTANTS Ops, Callers, MaxTime, Hour, KeepFor, MaxToken, MaxHourly, MaxPerMinute, MaxFaults
VARIABLES time, grant, lease, leasedTo, hold, shadow, disk, mem, stamps, up, call, signed, returned, faults

Service == INSTANCE SignerService

\* The bounds of the instance: any clock horizon, any number of fencing tokens, any windows.
ServiceConstants ==
  MaxTime \in Nat /\ MaxToken \in Nat \ {0} /\ Hour \in Nat /\ KeepFor \in Nat

\* The larger of two marks is one of them and below neither (createFenceRegistry.record).
LEMMA LargerOfTwo ==
  ASSUME NEW a \in Nat, NEW b \in Nat
  PROVE  Service!Max({a, b}) \in {a, b} /\ Service!Max({a, b}) >= a /\ Service!Max({a, b}) >= b
<1>1. \E x \in {a, b} : \A y \in {a, b} : x >= y
  OBVIOUS
<1>2. PICK m : m = Service!Max({a, b})
  OBVIOUS
<1>3. m \in {a, b} /\ \A y \in {a, b} : m >= y
  BY <1>1, <1>2 DEF Service!Max
<1> QED BY <1>2, <1>3

\* A request under way has an operation, a token and a place, and the signer is up.
LEMMA Asks ==
  ASSUME Service!TypeOK, NEW c \in Callers, call[c].at # "none"
  PROVE  /\ call[c] \in Service!Asked /\ call[c].op \in Ops /\ call[c].token \in 1 .. MaxToken
         /\ call[c].until \in Nat /\ call[c].at \in Service!Places /\ up
<1>1. call[c] \in {Service!NoCall} \cup Service!Asked /\ call[c] # Service!NoCall
  BY DEF Service!TypeOK, Service!NoCall
<1>2. up
  BY Zenon, <1>1 DEF Service!TypeOK
<1> QED BY <1>1, <1>2 DEF Service!Asked

\* A request that goes on keeps its operation, its token and the end of its lease.
LEMMA CallMoves ==
  ASSUME Service!TypeOK, ServiceConstants, NEW c \in Callers, call[c].at # "none", NEW s \in Service!Places, Service!Moves(c, s)
  PROVE  /\ call' \in [Callers -> {Service!NoCall} \cup Service!Asked]
         /\ \A d \in Callers \ {c} : call'[d] = call[d]
         /\ call'[c].at = s /\ call'[c].op = call[c].op /\ call'[c].token = call[c].token
         /\ call'[c].until = call[c].until
<1>1. call[c] \in Service!Asked /\ time \in Nat
  BY Asks DEF Service!TypeOK, ServiceConstants
<1> DEFINE n == [call[c] EXCEPT !.at = s, !.t = IF @ = 0 /\ s = "charged" THEN time ELSE @]
<1>2. n \in Service!Asked /\ n.at = s /\ n.op = call[c].op /\ n.token = call[c].token /\ n.until = call[c].until
  BY <1>1 DEF Service!Asked
<1>3. call' = [call EXCEPT ![c] = n]
  BY DEF Service!Moves
<1> HIDE DEF n
<1>4. call'[c] = n /\ \A d \in Callers \ {c} : call'[d] = call[d]
  BY Zenon, <1>3 DEF Service!TypeOK
<1>5. call' \in [Callers -> {Service!NoCall} \cup Service!Asked]
  BY Zenon, <1>2, <1>3 DEF Service!TypeOK
<1> QED BY Zenon, <1>2, <1>4, <1>5

\* A request that is answered is gone, and the others are as they were.
LEMMA CallEnds ==
  ASSUME Service!TypeOK, NEW c \in Callers, call' = [call EXCEPT ![c] = Service!NoCall]
  PROVE  /\ call' \in [Callers -> {Service!NoCall} \cup Service!Asked]
         /\ \A d \in Callers \ {c} : call'[d] = call[d]
         /\ call'[c] = Service!NoCall /\ call'[c].at = "none"
<1>1. /\ call' \in [Callers -> {Service!NoCall} \cup Service!Asked] /\ call'[c] = Service!NoCall
      /\ \A d \in Callers \ {c} : call'[d] = call[d]
  BY Zenon DEF Service!TypeOK
<1> QED BY <1>1 DEF Service!NoCall

\* The journal with new approvals and a new ledger.
Entered(m, s, l) == [m EXCEPT !.seen = s, !.ledger = l]

\* Charging and approving leave the fencing mark alone (createSpendLedger, createOperationRegistry).
LEMMA JournalEntered ==
  ASSUME NEW m \in Service!Journals, NEW s \in [Ops -> Nat], NEW l \in [0 .. MaxTime -> Nat]
  PROVE  Entered(m, s, l) \in Service!Journals /\ Entered(m, s, l).fence = m.fence
  BY DEF Service!Journals, Entered

\* Updates of a journal that keep its mark.
LEMMA JournalKeeps ==
  ASSUME NEW m \in Service!Journals
  PROVE  /\ \A s \in [Ops -> Nat] : [m EXCEPT !.seen = s] \in Service!Journals /\ [m EXCEPT !.seen = s].fence = m.fence
         /\ [m EXCEPT !.file = TRUE] \in Service!Journals /\ [m EXCEPT !.file = TRUE].fence = m.fence
         /\ \A f \in Nat : [m EXCEPT !.fence = f] \in Service!Journals /\ [m EXCEPT !.fence = f].fence = f
         /\ m.seen \in [Ops -> Nat] /\ m.ledger \in [0 .. MaxTime -> Nat] /\ m.fence \in Nat
  BY DEF Service!Journals

\* The mark in memory and the mark on disk are tokens or zero.
LEMMA Marks == ASSUME Service!TypeOK PROVE mem \in Service!Journals /\ mem.fence \in Nat /\ disk.fence \in Nat
  BY Zenon, JournalKeeps DEF Service!TypeOK

\* Sweeping the approvals and charging the ledger keep their types.
LEMMA LedgerTypes ==
  ASSUME ServiceConstants, time \in 0 .. MaxTime
  PROVE  /\ \A s \in [Ops -> Nat] : Service!sweep(s) \in [Ops -> Nat]
         /\ \A l \in [0 .. MaxTime -> Nat] : Service!recent(l) \in [0 .. MaxTime -> Nat] /\ Service!charged(l) \in [0 .. MaxTime -> Nat]
<1>1. ASSUME NEW s \in [Ops -> Nat] PROVE Service!sweep(s) \in [Ops -> Nat]
  BY <1>1 DEF Service!sweep, Service!Never, ServiceConstants
<1>2. ASSUME NEW l \in [0 .. MaxTime -> Nat] PROVE Service!recent(l) \in [0 .. MaxTime -> Nat]
  BY <1>2 DEF Service!recent
<1>3. ASSUME NEW l \in [0 .. MaxTime -> Nat] PROVE Service!charged(l) \in [0 .. MaxTime -> Nat]
  <2>1. PICK k \in [0 .. MaxTime -> Nat] : k = Service!recent(l)
    BY <1>2
  <2> QED BY <2>1 DEF Service!charged
<1> QED BY Zenon, <1>1, <1>2, <1>3

\* A step that ends or leaves the calls alone, and only touches marks upwards.
Steady == UNCHANGED <<time, lease, leasedTo, up, signed, returned>>

\* A request that is refused, or whose answer is on its way, knows nothing any more.
LEMMA EndStep ==
  ASSUME Service!ServiceInv, NEW c \in Callers, call' = [call EXCEPT ![c] = Service!NoCall], Steady, UNCHANGED <<shadow, disk>>,
         mem' \in Service!Journals, mem'.fence = mem.fence
  PROVE  Service!ServiceInv'
<1>1. Service!TypeOK /\ Service!Fences /\ Service!Leases /\ Service!Records
  BY Zenon DEF Service!ServiceInv
<1>2. /\ call' \in [Callers -> {Service!NoCall} \cup Service!Asked]
      /\ \A d \in Callers \ {c} : call'[d] = call[d]
      /\ call'[c] = Service!NoCall /\ call'[c].at = "none"
  BY Zenon, <1>1, CallEnds
<1>3. Service!TypeOK'
  BY Zenon, <1>1, <1>2 DEF Service!TypeOK, Steady
<1>4. \A d \in Callers : call'[d].at # "none" => call'[d] = call[d]
  BY Zenon, <1>2
<1>5. Service!Fences'
  BY <1>1, <1>4 DEF Service!Fences, Steady, Service!Boundary
<1>6. Service!Leases'
  BY <1>1, <1>4 DEF Service!Leases, Steady, Service!Boundary, Service!SignedWhileLeased
<1>7. Service!Records'
  BY <1>1, <1>4 DEF Service!Records, Steady, Service!Places, Service!Boundary, Service!ReturnedIsRecorded
<1> QED BY Zenon, <1>3, <1>5, <1>6, <1>7 DEF Service!ServiceInv

\* A request comes in (signer-service.mjs, the rate looked at first).
LEMMA ReceiveStep ==
  ASSUME ServiceConstants, Service!ServiceInv, NEW c \in Callers, NEW o \in Ops, NEW k \in 1 .. MaxToken, Service!Receive(c, o, k)
  PROVE  Service!ServiceInv'
<1>1. Service!TypeOK /\ Service!Fences /\ Service!Leases /\ Service!Records
  BY Zenon DEF Service!ServiceInv
<1> DEFINE n == [at |-> "load", op |-> o, token |-> k, until |-> 0, t |-> 0]
<1>2. n \in Service!Asked /\ n.at = "load"
  BY DEF Service!Asked, Service!Places
<1>3. call' = [call EXCEPT ![c] = n] /\ up /\ Steady /\ UNCHANGED <<shadow, disk, mem>>
  BY Zenon DEF Service!Receive, Steady, Service!dbVars, Service!signerVars
<1> HIDE DEF n
<1>4. /\ call' \in [Callers -> {Service!NoCall} \cup Service!Asked] /\ call'[c] = n
      /\ \A d \in Callers \ {c} : call'[d] = call[d]
  BY Zenon, <1>1, <1>2, <1>3 DEF Service!TypeOK
<1>5. Service!TypeOK'
  BY Zenon, <1>1, <1>3, <1>4 DEF Service!TypeOK, Steady
<1>6. \A d \in Callers : call'[d] = call[d] \/ call'[d].at = "load"
  BY Zenon, <1>2, <1>4
<1>7. Service!Fences'
  BY <1>1, <1>3, <1>6 DEF Service!Fences, Steady, Service!Boundary
<1>8. Service!Leases'
  BY <1>1, <1>3, <1>6 DEF Service!Leases, Steady, Service!Boundary, Service!SignedWhileLeased
<1>9. Service!Records'
  BY <1>1, <1>3, <1>6 DEF Service!Records, Steady, Service!Places, Service!Boundary, Service!ReturnedIsRecorded
<1> QED BY Zenon, <1>5, <1>7, <1>8, <1>9 DEF Service!ServiceInv

\* The grant is read: approvals are swept, the marks stay.
LEMMA LoadStep ==
  ASSUME ServiceConstants, Service!ServiceInv, NEW c \in Callers, Service!loadCapabilities(c)
  PROVE  Service!ServiceInv'
<1>1. Service!TypeOK /\ Service!Fences /\ Service!Leases /\ Service!Records
  BY Zenon DEF Service!ServiceInv
<1>2. mem \in Service!Journals /\ time \in 0 .. MaxTime /\ mem' = [mem EXCEPT !.seen = Service!sweep(mem.seen)]
  BY Zenon, <1>1 DEF Service!TypeOK, Service!loadCapabilities
<1>3. mem' \in Service!Journals /\ mem'.fence = mem.fence
  <2>1. Service!sweep(mem.seen) \in [Ops -> Nat]
    BY Zenon, <1>2, JournalKeeps, LedgerTypes
  <2> QED BY Zenon, <1>2, <2>1, JournalKeeps
<1>4. CASE Service!Refused(c)
  <2>1. call' = [call EXCEPT ![c] = Service!NoCall] /\ Steady /\ UNCHANGED <<shadow, disk>>
    BY Zenon, <1>4 DEF Service!Refused, Steady, Service!dbVars
  <2> QED BY Zenon, <1>3, <2>1, EndStep
<1>5. CASE Service!Moves(c, "reserve") /\ UNCHANGED <<time, Service!dbVars, disk, stamps, up, signed, returned, faults>>
  <2>1. Steady /\ UNCHANGED <<shadow, disk>>
    BY Zenon, <1>5 DEF Steady, Service!dbVars
  <2>2. "reserve" \in Service!Places /\ call[c].at = "load" /\ call[c].at # "none"
    BY DEF Service!Places, Service!loadCapabilities, Service!At
  <2>3. /\ call' \in [Callers -> {Service!NoCall} \cup Service!Asked]
        /\ \A d \in Callers \ {c} : call'[d] = call[d]
        /\ call'[c].at = "reserve"
    BY Zenon, <1>1, <1>5, <2>2, CallMoves
  <2>4. Service!TypeOK'
    BY Zenon, <1>1, <1>3, <2>1, <2>2, <2>3, Asks DEF Service!TypeOK, Steady
  <2>5. \A d \in Callers : call'[d] = call[d] \/ call'[d].at = "reserve"
    BY Zenon, <2>3
  <2>6. Service!Fences'
    BY <1>1, <1>3, <2>1, <2>5 DEF Service!Fences, Steady, Service!Boundary
  <2>7. Service!Leases'
    BY <1>1, <2>1, <2>5 DEF Service!Leases, Steady, Service!Boundary, Service!SignedWhileLeased
  <2>8. Service!Records'
    BY <1>1, <2>1, <2>5 DEF Service!Records, Steady, Service!Places, Service!Boundary, Service!ReturnedIsRecorded
  <2> QED BY Zenon, <2>4, <2>6, <2>7, <2>8 DEF Service!ServiceInv
<1> QED BY Zenon, <1>4, <1>5 DEF Service!loadCapabilities

\* The hold: from here on the request has a packet (operating-budget.mjs reserve).
LEMMA ReserveStep ==
  ASSUME ServiceConstants, Service!ServiceInv, NEW c \in Callers, Service!reserve(c)
  PROVE  Service!ServiceInv'
<1>1. Service!TypeOK /\ Service!Fences /\ Service!Leases /\ Service!Records
  BY Zenon DEF Service!ServiceInv
<1>2. mem' = mem /\ mem \in Service!Journals
  BY Zenon, <1>1 DEF Service!TypeOK, Service!reserve
<1>3. CASE Service!Refused(c)
  <2>1. call' = [call EXCEPT ![c] = Service!NoCall] /\ Steady /\ UNCHANGED <<shadow, disk>> /\ mem'.fence = mem.fence
    BY Zenon, <1>2, <1>3 DEF Service!Refused, Steady, Service!dbVars
  <2> QED BY Zenon, <1>2, <2>1, EndStep
<1>4. CASE ~Service!Refused(c)
  <2>1. PICK o \in Ops : o = call[c].op
    BY Zenon, <1>1, Asks DEF Service!reserve, Service!At
  <2>2. /\ shadow' = [shadow EXCEPT ![o] =
                       IF @.status = "none" THEN [status |-> "prepared", at |-> time, born |-> time] ELSE @]
        /\ Service!Moves(c, "authorize") /\ Steady /\ UNCHANGED disk
    BY Zenon, <1>4, <2>1 DEF Service!reserve, Steady
  <2>3. "authorize" \in Service!Places /\ call[c].at # "none" /\ time \in Nat /\ shadow \in [Ops -> Service!Packets]
    BY <1>1 DEF Service!Places, Service!reserve, Service!At, Service!TypeOK
  <2>4. /\ call' \in [Callers -> {Service!NoCall} \cup Service!Asked]
        /\ \A d \in Callers \ {c} : call'[d] = call[d]
        /\ call'[c].at = "authorize" /\ call'[c].op = o
    BY Zenon, <1>1, <2>1, <2>2, <2>3, CallMoves
  <2>5. /\ shadow' \in [Ops -> Service!Packets] /\ shadow'[o].status # "none"
        /\ \A p \in Ops : shadow[p].status # "none" => shadow'[p] = shadow[p]
    BY <2>2, <2>3 DEF Service!Packets
  <2>6. Service!TypeOK'
    BY Zenon, <1>1, <1>2, <2>2, <2>3, <2>4, <2>5, Asks DEF Service!TypeOK, Steady
  <2>7. \A d \in Callers : call'[d] = call[d] \/ (call'[d].at = "authorize" /\ call'[d].op = o)
    BY Zenon, <2>4
  <2>8. Service!Fences'
    BY <1>1, <1>2, <2>2, <2>7 DEF Service!Fences, Steady, Service!Boundary
  <2>9. Service!Leases'
    BY <1>1, <2>2, <2>7 DEF Service!Leases, Steady, Service!Boundary, Service!SignedWhileLeased
  <2>10. Service!Records'
    <3>1. ASSUME NEW d \in Callers, call'[d].at \in Service!Places \ {"load", "reserve"}
          PROVE  shadow'[call'[d].op].status # "none"
      <4>1. CASE call'[d] = call[d]
        <5>1. shadow[call[d].op].status # "none"
          BY Zenon, <1>1, <3>1, <4>1 DEF Service!Records
        <5>2. call[d].op \in Ops
          BY <1>1, <3>1, <4>1, Asks DEF Service!Places, Service!Boundary
        <5> QED BY Zenon, <2>5, <4>1, <5>1, <5>2
      <4>2. CASE call'[d].op = o
        BY Zenon, <2>5, <4>2
      <4> QED BY Zenon, <2>7, <4>1, <4>2
    <3>2. Service!ReturnedIsRecorded'
      BY <1>1, <2>2, <2>5 DEF Service!Records, Service!ReturnedIsRecorded, Steady, Service!TypeOK
    <3> QED BY Zenon, <3>1, <3>2 DEF Service!Records
  <2> QED BY Zenon, <2>6, <2>8, <2>9, <2>10 DEF Service!ServiceInv
<1> QED BY Zenon, <1>3, <1>4

\* The lease is read: the end the request gets is one the database gave its token
\* (signer-service.mjs 103-118).
LEMMA AuthorizeStep ==
  ASSUME ServiceConstants, Service!ServiceInv, NEW c \in Callers, Service!authorizeLease(c)
  PROVE  Service!ServiceInv'
<1>1. Service!TypeOK /\ Service!Fences /\ Service!Leases /\ Service!Records
  BY Zenon DEF Service!ServiceInv
<1>2. mem' = mem /\ mem \in Service!Journals
  BY Zenon, <1>1 DEF Service!TypeOK, Service!authorizeLease
<1>3. CASE Service!Refused(c)
  <2>1. call' = [call EXCEPT ![c] = Service!NoCall] /\ Steady /\ UNCHANGED <<shadow, disk>> /\ mem'.fence = mem.fence
    BY Zenon, <1>2, <1>3 DEF Service!Refused, Steady, Service!dbVars
  <2> QED BY Zenon, <1>2, <2>1, EndStep
<1>4. CASE ~Service!Refused(c)
  <2> DEFINE n == [call[c] EXCEPT !.at = "sign", !.until = lease.until]
  <2>1. /\ call' = [call EXCEPT ![c] = n] /\ lease.token = call[c].token
        /\ Steady /\ UNCHANGED <<shadow, disk>>
    BY Zenon, <1>4 DEF Service!authorizeLease, Steady, Service!dbVars
  <2>2. call[c] \in Service!Asked /\ call[c].at = "authorize" /\ lease.until \in Nat /\ "sign" \in Service!Places
    BY <1>1, Asks DEF Service!authorizeLease, Service!At, Service!TypeOK, Service!Places
  <2>3. /\ n \in Service!Asked /\ n.at = "sign" /\ n.op = call[c].op
        /\ n.token = lease.token /\ n.until = lease.until
    BY <2>1, <2>2 DEF Service!Asked
  <2> HIDE DEF n
  <2>4. /\ call' \in [Callers -> {Service!NoCall} \cup Service!Asked] /\ call'[c] = n
        /\ \A d \in Callers \ {c} : call'[d] = call[d]
    BY Zenon, <1>1, <2>1, <2>3 DEF Service!TypeOK
  <2>5. Service!TypeOK'
    <3>1. up
      BY Zenon DEF Service!authorizeLease, Service!At
    <3> QED BY Zenon, <1>1, <1>2, <2>1, <2>4, <3>1 DEF Service!TypeOK, Steady
  <2>6. \A d \in Callers : call'[d] = call[d] \/ (d = c /\ call'[d] = n)
    BY Zenon, <2>4
  <2>7. Service!Fences'
    BY <1>1, <1>2, <2>1, <2>3, <2>6 DEF Service!Fences, Steady, Service!Boundary
  <2>8. Service!Leases'
    BY <1>1, <2>1, <2>3, <2>6 DEF Service!Leases, Steady, Service!Boundary, Service!SignedWhileLeased
  <2>9. Service!Records'
    BY <1>1, <2>1, <2>2, <2>3, <2>6 DEF Service!Records, Steady, Service!Places, Service!Boundary,
         Service!ReturnedIsRecorded
  <2> QED BY Zenon, <2>5, <2>7, <2>8, <2>9 DEF Service!ServiceInv
<1> QED BY Zenon, <1>3, <1>4

\* Nobody else is inside the boundary.
Alone(c) == \A d \in Callers \ {c} : call[d].at \notin Service!Boundary

\* A step of the boundary: the journal may be written, its mark rises to the request's at most.
LEMMA AdvanceStep ==
  ASSUME ServiceConstants, Service!ServiceInv, NEW c \in Callers, call[c].at \in {"sign", "charged", "approved"},
         Alone(c), NEW s \in Service!Boundary, Service!Moves(c, s), Steady, UNCHANGED shadow,
         mem' \in Service!Journals, disk' \in Service!Journals, disk'.fence \in {disk.fence, mem'.fence},
         mem.fence <= mem'.fence, mem'.fence <= call[c].token,
         s = "fenced" => mem'.fence = call[c].token /\ disk'.fence = mem'.fence
  PROVE  Service!ServiceInv'
<1>1. Service!TypeOK /\ Service!Fences /\ Service!Leases /\ Service!Records
  BY Zenon DEF Service!ServiceInv
<1>2. s \in Service!Places /\ call[c].at # "none"
  BY DEF Service!Places
<1>3. /\ call' \in [Callers -> {Service!NoCall} \cup Service!Asked]
      /\ \A d \in Callers \ {c} : call'[d] = call[d]
      /\ call'[c].at = s /\ call'[c].op = call[c].op /\ call'[c].token = call[c].token
      /\ call'[c].until = call[c].until
  BY Zenon, <1>1, <1>2, CallMoves
<1>4. up
  BY Zenon, <1>1, <1>2, Asks
<1>5. Service!TypeOK'
  BY Zenon, <1>1, <1>3, <1>4 DEF Service!TypeOK, Steady
<1>6. Service!Fences'
  <2>1. \A d \in Callers : call'[d].at \in Service!Boundary => d = c
    BY Zenon, <1>3 DEF Alone
  <2>2. \A x \in signed : x[2] <= disk.fence /\ x[2] <= mem.fence
    BY Zenon, <1>1, <1>4 DEF Service!Fences
  <2>3. \A x \in signed : x[2] <= disk'.fence /\ x[2] <= mem'.fence
    <3>1. mem.fence \in Nat /\ disk.fence \in Nat /\ mem'.fence \in Nat /\ disk'.fence \in Nat
      BY Zenon, <1>1, <1>5, JournalKeeps DEF Service!TypeOK
    <3>2. \A x \in signed : x[2] \in Nat
      BY <1>1 DEF Service!TypeOK
    <3> QED BY <2>2, <3>1, <3>2
  <2>4. call'[c].at \in Service!Boundary => mem'.fence <= call'[c].token
    BY Zenon, <1>3
  <2>5. call'[c].at = "fenced" => mem'.fence = call'[c].token /\ disk'.fence = mem'.fence
    BY Zenon, <1>3
  <2>6. "fenced" \in Service!Boundary /\ signed' = signed
    BY DEF Service!Boundary, Steady
  <2> QED BY Zenon, <2>1, <2>3, <2>4, <2>5, <2>6 DEF Service!Fences
<1>7. Service!Leases'
  <2>1. ASSUME NEW d \in Callers, call'[d].at \in {"sign"} \cup Service!Boundary
        PROVE  call'[d].until <= leasedTo[call'[d].token]
    <3>1. call[c].at \in {"sign"} \cup Service!Boundary
      BY DEF Service!Boundary
    <3> QED BY Zenon, <1>1, <1>3, <2>1, <3>1 DEF Service!Leases
  <2> QED BY Zenon, <1>1, <2>1 DEF Service!Leases, Steady, Service!SignedWhileLeased
<1>8. Service!Records'
  <2>1. ASSUME NEW d \in Callers, call'[d].at \in Service!Places \ {"load", "reserve"}
        PROVE  shadow[call'[d].op].status # "none"
    <3>1. call[c].at \in Service!Places \ {"load", "reserve"}
      BY DEF Service!Places, Service!Boundary
    <3> QED BY Zenon, <1>1, <1>3, <2>1, <3>1 DEF Service!Records
  <2> QED BY Zenon, <1>1, <2>1 DEF Service!Records, Steady, Service!ReturnedIsRecorded
<1> QED BY Zenon, <1>5, <1>6, <1>7, <1>8 DEF Service!ServiceInv

\* A disk write that failed: the request ends, and memory may be ahead of the disk.
LEMMA FaultStep ==
  ASSUME Service!ServiceInv, NEW c \in Callers, call' = [call EXCEPT ![c] = Service!NoCall], Alone(c), Steady,
         UNCHANGED <<shadow, disk>>, mem' \in Service!Journals, mem.fence <= mem'.fence
  PROVE  Service!ServiceInv'
<1>1. Service!TypeOK /\ Service!Fences /\ Service!Leases /\ Service!Records
  BY Zenon DEF Service!ServiceInv
<1>2. /\ call' \in [Callers -> {Service!NoCall} \cup Service!Asked]
      /\ \A d \in Callers \ {c} : call'[d] = call[d]
      /\ call'[c] = Service!NoCall /\ call'[c].at = "none"
  BY Zenon, <1>1, CallEnds
<1>3. Service!TypeOK'
  BY Zenon, <1>1, <1>2 DEF Service!TypeOK, Steady
<1>4. \A d \in Callers : call'[d].at # "none" => d # c /\ call'[d] = call[d]
  BY Zenon, <1>2
<1>5. Service!Fences'
  <2>1. \A d \in Callers : call'[d].at \notin Service!Boundary
    BY <1>4 DEF Alone, Service!Boundary
  <2>2. mem.fence \in Nat /\ mem'.fence \in Nat
    BY Zenon, <1>1, Marks, JournalKeeps
  <2>5. \A x \in signed : x[2] \in Nat
    BY <1>1 DEF Service!TypeOK
  <2>3. \A x \in signed' : x[2] <= disk'.fence /\ (up' => x[2] <= mem'.fence)
    BY <1>1, <2>2, <2>5 DEF Service!Fences, Steady
  <2>4. \A d \in Callers : call'[d].at # "fenced"
    BY <2>1 DEF Service!Boundary
  <2> QED BY Zenon, <2>1, <2>3, <2>4 DEF Service!Fences
<1>6. Service!Leases'
  BY <1>1, <1>4 DEF Service!Leases, Steady, Service!Boundary, Service!SignedWhileLeased
<1>7. Service!Records'
  BY <1>1, <1>4 DEF Service!Records, Steady, Service!Places, Service!Boundary, Service!ReturnedIsRecorded
<1> QED BY Zenon, <1>3, <1>5, <1>6, <1>7 DEF Service!ServiceInv

\* One write of the journal, done or failed.
LEMMA PersistStep ==
  ASSUME ServiceConstants, Service!ServiceInv, NEW c \in Callers, call[c].at \in {"sign", "charged", "approved"},
         Alone(c), NEW s \in Service!Boundary, NEW m \in Service!Journals, Service!Persist(c, m, s),
         mem.fence <= m.fence, m.fence <= call[c].token, s = "fenced" => m.fence = call[c].token
  PROVE  Service!ServiceInv'
<1>1. mem' = m /\ Steady /\ UNCHANGED shadow
  BY Zenon DEF Service!Persist, Steady, Service!dbVars
<1>2. CASE disk' = [m EXCEPT !.file = TRUE] /\ Service!Moves(c, s)
  <2>1. disk' \in Service!Journals /\ disk'.fence = mem'.fence
    BY Zenon, <1>1, <1>2, JournalKeeps
  <2> QED BY Zenon, <1>1, <1>2, <2>1, AdvanceStep
<1>3. CASE call' = [call EXCEPT ![c] = Service!NoCall] /\ UNCHANGED disk
  BY Zenon, <1>1, <1>3, FaultStep
<1> QED BY Zenon, <1>2, <1>3 DEF Service!Persist

\* The charge: admitted only with a token not below the mark, and alone in the boundary.
LEMMA ChargeStep ==
  ASSUME ServiceConstants, Service!ServiceInv, NEW c \in Callers, Service!charge(c)
  PROVE  Service!ServiceInv'
<1>1. Service!TypeOK /\ Service!Fences /\ Service!Leases /\ Service!Records
  BY Zenon DEF Service!ServiceInv
<1>2. call[c].at = "sign" /\ up /\ Alone(c)
  BY Zenon DEF Service!charge, Service!At, Service!Quiet, Alone, Service!Boundary
<1>3. PICK s \in [Ops -> Nat] : s = Service!sweep(mem.seen)
  BY Zenon, <1>1, JournalKeeps, LedgerTypes DEF Service!TypeOK
<1>4. PICK l \in [0 .. MaxTime -> Nat], k \in [0 .. MaxTime -> Nat] : l = Service!recent(mem.ledger) /\ k = Service!charged(mem.ledger)
  BY Zenon, <1>1, JournalKeeps, LedgerTypes DEF Service!TypeOK
<1>5. mem \in Service!Journals /\ mem.fence \in Nat /\ call[c].token \in Nat
  <2>1. call[c].at # "none"
    BY <1>2
  <2>2. call[c].token \in 1 .. MaxToken
    BY Zenon, <1>1, <2>1, Asks
  <2> QED BY <1>1, <2>2, Marks
<1>6. ASSUME Service!Refused(c), mem' \in Service!Journals, mem'.fence = mem.fence PROVE Service!ServiceInv'
  <2>1. call' = [call EXCEPT ![c] = Service!NoCall] /\ Steady /\ UNCHANGED <<shadow, disk>>
    BY Zenon, <1>6 DEF Service!Refused, Steady, Service!dbVars
  <2> QED BY Zenon, <1>6, <2>1, EndStep
<1>7. CASE ~Service!Admitted(c) /\ UNCHANGED mem /\ Service!Refused(c)
  BY Zenon, <1>5, <1>6, <1>7
<1>8. CASE mem' = Entered(mem, s, l) /\ Service!Refused(c)
  <2>1. mem' \in Service!Journals /\ mem'.fence = mem.fence
    BY Zenon, <1>4, <1>5, <1>8, JournalEntered
  <2> QED BY Zenon, <1>6, <1>8, <2>1
<1>9. CASE Service!Admitted(c) /\ Service!Persist(c, Entered(mem, s, k), "charged")
  <2>1. PICK m : m = Entered(mem, s, k)
    OBVIOUS
  <2>2. m \in Service!Journals /\ m.fence = mem.fence
    BY Zenon, <1>5, <2>1, JournalEntered
  <2>3. Service!Persist(c, m, "charged")
    BY Zenon, <1>4, <1>9, <2>1
  <2>4. mem.fence <= m.fence /\ m.fence <= call[c].token /\ "charged" \in Service!Boundary /\ "charged" # "fenced"
    BY <1>5, <1>9, <2>2 DEF Service!Admitted, Service!stale, Service!Boundary
  <2> QED BY Zenon, <1>2, <2>2, <2>3, <2>4, PersistStep
<1>10. CASE /\ Service!Admitted(c) /\ mem' = [mem EXCEPT !.seen = s] /\ Service!Moves(c, "approved")
            /\ UNCHANGED <<time, Service!dbVars, disk, stamps, up, signed, returned, faults>>
  <2>1. mem' \in Service!Journals /\ mem'.fence = mem.fence
    BY Zenon, <1>5, <1>10, JournalKeeps
  <2>2. Steady /\ UNCHANGED shadow /\ disk' = disk /\ disk' \in Service!Journals
    BY Zenon, <1>1, <1>10 DEF Steady, Service!dbVars, Service!TypeOK
  <2>3. mem.fence <= mem'.fence /\ mem'.fence <= call[c].token /\ "approved" \in Service!Boundary /\ "approved" # "fenced"
    BY <1>5, <1>10, <2>1 DEF Service!Admitted, Service!stale, Service!Boundary
  <2> QED BY Zenon, <1>2, <1>10, <2>1, <2>2, <2>3, AdvanceStep
<1>11. \/ ~Service!Admitted(c) /\ UNCHANGED mem /\ Service!Refused(c)
       \/ mem' = Entered(mem, s, l) /\ Service!Refused(c)
       \/ Service!Admitted(c) /\ Service!Persist(c, Entered(mem, s, k), "charged")
       \/ /\ Service!Admitted(c) /\ mem' = [mem EXCEPT !.seen = s] /\ Service!Moves(c, "approved")
          /\ UNCHANGED <<time, Service!dbVars, disk, stamps, up, signed, returned, faults>>
  BY Zenon, <1>3, <1>4 DEF Service!charge, Entered
<1> QED BY Zenon, <1>7, <1>8, <1>9, <1>10, <1>11

\* The approval is journaled; the mark stays.
LEMMA ApproveStep ==
  ASSUME ServiceConstants, Service!ServiceInv, NEW c \in Callers, Service!approve(c)
  PROVE  Service!ServiceInv'
<1>1. Service!TypeOK /\ Service!Fences /\ Service!Leases /\ Service!Records
  BY Zenon DEF Service!ServiceInv
<1>2. call[c].at = "charged" /\ "charged" \in Service!Boundary /\ "approved" \in Service!Boundary /\ call[c].at # "none"
  BY DEF Service!approve, Service!At, Service!Boundary
<1>3. Alone(c) /\ mem.fence <= call[c].token
  BY Zenon, <1>1, <1>2 DEF Service!Fences, Alone
<1>4. mem \in Service!Journals /\ call[c].op \in Ops /\ call[c].t \in Nat /\ mem.fence \in Nat
  BY <1>1, <1>2, Asks, JournalKeeps DEF Service!TypeOK, Service!Asked
<1>5. PICK s : s = [mem.seen EXCEPT ![call[c].op] = call[c].t]
  OBVIOUS
<1>6. s \in [Ops -> Nat]
  BY <1>4, <1>5 DEF Service!Journals
<1>7. PICK m : m = [mem EXCEPT !.seen = s]
  OBVIOUS
<1>8. m \in Service!Journals /\ m.fence = mem.fence
  BY Zenon, <1>4, <1>6, <1>7, JournalKeeps
<1>9. Service!Persist(c, m, "approved")
  BY Zenon, <1>5, <1>7 DEF Service!approve
<1>10. mem.fence <= m.fence /\ m.fence <= call[c].token /\ "approved" # "fenced"
  BY <1>3, <1>4, <1>8
<1> QED BY Zenon, <1>2, <1>3, <1>8, <1>9, <1>10, PersistStep

\* The mark rises to the request's token and is on disk before anything is signed.
LEMMA RecordMarkStep ==
  ASSUME ServiceConstants, Service!ServiceInv, NEW c \in Callers, Service!record(c)
  PROVE  Service!ServiceInv'
<1>1. Service!TypeOK /\ Service!Fences /\ Service!Leases /\ Service!Records
  BY Zenon DEF Service!ServiceInv
<1>2. call[c].at = "approved" /\ "fenced" \in Service!Boundary /\ "approved" \in Service!Boundary /\ call[c].at # "none"
  BY DEF Service!record, Service!At, Service!Boundary
<1>3. Alone(c) /\ mem.fence <= call[c].token
  BY Zenon, <1>1, <1>2 DEF Service!Fences, Alone
<1>4. mem \in Service!Journals /\ mem.fence \in Nat /\ call[c].token \in Nat
  <2>1. call[c].token \in 1 .. MaxToken
    BY Zenon, <1>1, <1>2, Asks
  <2> QED BY <1>1, <2>1, Marks
<1>5. Service!Max({mem.fence, call[c].token}) = call[c].token
  BY <1>3, <1>4, LargerOfTwo
<1>6. PICK m : m = [mem EXCEPT !.fence = call[c].token]
  OBVIOUS
<1>7. m \in Service!Journals /\ m.fence = call[c].token
  BY Zenon, <1>4, <1>6, JournalKeeps
<1>8. Service!Persist(c, m, "fenced")
  BY Zenon, <1>5, <1>6 DEF Service!record
<1>9. mem.fence <= m.fence /\ m.fence <= call[c].token
  BY <1>3, <1>4, <1>7
<1> QED BY Zenon, <1>2, <1>3, <1>7, <1>8, <1>9, PersistStep

\* A signature is made for the newest mark, inside the lease.
LEMMA SignStep ==
  ASSUME ServiceConstants, Service!ServiceInv, NEW c \in Callers, Service!sign(c)
  PROVE  Service!ServiceInv' /\ Service!FencedSigning
<1>1. Service!TypeOK /\ Service!Fences /\ Service!Leases /\ Service!Records
  BY Zenon DEF Service!ServiceInv
<1>2. call[c].at = "fenced" /\ up /\ mem' = mem /\ mem \in Service!Journals
  BY Zenon, <1>1 DEF Service!sign, Service!At, Service!TypeOK
<1>3. CASE Service!Refused(c)
  <2>1. /\ call' = [call EXCEPT ![c] = Service!NoCall] /\ Steady /\ UNCHANGED <<shadow, disk>>
        /\ mem' \in Service!Journals /\ mem'.fence = mem.fence
    BY Zenon, <1>2, <1>3 DEF Service!Refused, Steady, Service!dbVars
  <2>2. Service!ServiceInv'
    BY Zenon, <2>1, EndStep
  <2>3. Service!FencedSigning
    BY Zenon, <2>1 DEF Service!FencedSigning, Steady
  <2> QED BY Zenon, <2>2, <2>3
<1>4. CASE ~Service!Refused(c)
  <2>1. /\ time < call[c].until /\ signed' = signed \cup {<<call[c].op, call[c].token, time>>}
        /\ Service!Moves(c, "record") /\ UNCHANGED <<time, lease, leasedTo, shadow, disk, up, returned>>
    BY Zenon, <1>4 DEF Service!sign, Service!dbVars
  <2>2. "record" \in Service!Places /\ call[c].at # "none" /\ "fenced" \in Service!Boundary /\ "record" \notin Service!Boundary
    BY <1>2 DEF Service!Places, Service!Boundary
  <2>3. /\ call' \in [Callers -> {Service!NoCall} \cup Service!Asked]
        /\ \A d \in Callers \ {c} : call'[d] = call[d]
        /\ call'[c].at = "record" /\ call'[c].op = call[c].op
    BY Zenon, <1>1, <2>1, <2>2, CallMoves
  <2>4. PICK x : x = <<call[c].op, call[c].token, time>>
    OBVIOUS
  <2>5. /\ x \in Ops \X (1 .. MaxToken) \X Nat /\ x[2] = call[c].token /\ x[3] = time
        /\ call[c].until \in Nat /\ call[c].token \in 1 .. MaxToken
    BY <1>1, <2>2, <2>4, Asks DEF Service!TypeOK
  <2>6. Service!TypeOK'
    BY Zenon, <1>1, <1>2, <2>1, <2>3, <2>4, <2>5 DEF Service!TypeOK
  <2>7. mem.fence = call[c].token /\ disk.fence = mem.fence /\ mem.fence \in Nat /\ x[2] <= mem.fence
    BY <1>1, <1>2, <2>5 DEF Service!Fences
  <2>8. Service!Fences'
    <3>1. \A d \in Callers : call'[d].at \in Service!Boundary => call'[d] = call[d] /\ call[d].at \in Service!Boundary
      BY Zenon, <2>2, <2>3
    <3>2. \A d \in Callers : call'[d].at = "fenced" => call'[d] = call[d] /\ call[d].at = "fenced"
      BY Zenon, <2>2, <3>1
    <3>3. \A y \in signed' : y[2] <= disk.fence /\ y[2] <= mem.fence
      BY Zenon, <1>1, <1>2, <2>1, <2>4, <2>7 DEF Service!Fences
    <3> QED BY Zenon, <1>1, <1>2, <2>1, <3>1, <3>2, <3>3 DEF Service!Fences
  <2>9. Service!Leases'
    <3>1. time < leasedTo[call[c].token]
      <4>1. call[c].until <= leasedTo[call[c].token]
        BY Zenon, <1>1, <1>2, <2>2 DEF Service!Leases
      <4> QED BY <1>1, <2>1, <2>5, <4>1 DEF Service!TypeOK
    <3>2. x[3] < leasedTo[x[2]]
      BY Zenon, <2>5, <3>1
    <3>3. \A d \in Callers : call'[d].at \in {"sign"} \cup Service!Boundary => call'[d] = call[d]
      BY <2>2, <2>3
    <3>4. Service!SignedWhileLeased'
      BY Zenon, <1>1, <2>1, <2>4, <3>2 DEF Service!Leases, Service!SignedWhileLeased
    <3> QED BY Zenon, <1>1, <2>1, <3>3, <3>4 DEF Service!Leases
  <2>10. Service!Records'
    <3>1. call[c].at \in Service!Places \ {"load", "reserve"}
      BY <1>2 DEF Service!Places, Service!Boundary
    <3>2. \A d \in Callers : call'[d].at \in Service!Places \ {"load", "reserve"} => shadow[call'[d].op].status # "none"
      BY Zenon, <1>1, <2>3, <3>1 DEF Service!Records
    <3> QED BY Zenon, <1>1, <2>1, <3>2 DEF Service!Records, Service!ReturnedIsRecorded
  <2>11. Service!FencedSigning
    <3>1. \A y \in signed : y[2] <= x[2]
      BY Zenon, <1>1, <1>2, <2>5, <2>7 DEF Service!Fences
    <3> QED BY Zenon, <2>1, <2>4, <3>1 DEF Service!FencedSigning
  <2> QED BY Zenon, <2>6, <2>8, <2>9, <2>10, <2>11 DEF Service!ServiceInv
<1> QED BY Zenon, <1>3, <1>4

\* A packet's status only goes forward: it is never unmade, and a signature on record stays.
Forward ==
  /\ shadow' \in [Ops -> Service!Packets]
  /\ \A o \in Ops : /\ shadow[o].status # "none" => shadow'[o].status # "none"
                    /\ shadow[o].status \in {"signed", "final"} => shadow'[o].status \in {"signed", "final"}

\* While packets only go forward, requests keep their packet and what was returned stays recorded.
LEMMA RecordsKept ==
  ASSUME Service!TypeOK, Service!Records, Forward, returned' \subseteq Ops,
         \A d \in Callers : call'[d] = call[d] \/ call'[d].at = "none",
         \A o \in returned' : o \in returned \/ shadow'[o].status \in {"signed", "final"}
  PROVE  Service!Records'
<1>1. ASSUME NEW d \in Callers, call'[d].at \in Service!Places \ {"load", "reserve"}
      PROVE  shadow'[call'[d].op].status # "none"
  <2>1. call'[d] = call[d] /\ call[d].at # "none"
    BY <1>1 DEF Service!Places, Service!Boundary
  <2>2. call[d].op \in Ops
    BY Zenon, <2>1, Asks
  <2>3. shadow[call[d].op].status # "none"
    BY Zenon, <1>1, <2>1 DEF Service!Records
  <2> QED BY Zenon, <2>1, <2>2, <2>3 DEF Forward
<1>2. Service!ReturnedIsRecorded'
  BY Zenon DEF Service!Records, Service!ReturnedIsRecorded, Forward
<1> QED BY Zenon, <1>1, <1>2 DEF Service!Records

\* The signature is recorded, then returned (signer-service.mjs recordSignature).
LEMMA RecordSignatureStep ==
  ASSUME ServiceConstants, Service!ServiceInv, NEW c \in Callers, Service!recordSignature(c)
  PROVE  Service!ServiceInv'
<1>1. Service!TypeOK /\ Service!Fences /\ Service!Leases /\ Service!Records
  BY Zenon DEF Service!ServiceInv
<1>2. /\ call' = [call EXCEPT ![c] = Service!NoCall] /\ UNCHANGED <<time, lease, leasedTo, disk, mem, up, signed>>
      /\ call[c].at = "record" /\ call[c].at # "none"
  BY DEF Service!recordSignature, Service!At, Service!signerVars
<1>3. /\ call' \in [Callers -> {Service!NoCall} \cup Service!Asked]
      /\ \A d \in Callers \ {c} : call'[d] = call[d]
      /\ call'[c] = Service!NoCall /\ call'[c].at = "none"
  BY Zenon, <1>1, <1>2, CallEnds
<1>4. PICK o \in Ops : o = call[c].op
  BY Zenon, <1>1, <1>2, Asks
<1>5. shadow[o].status # "none" /\ shadow[o] \in Service!Packets /\ time \in Nat
  BY <1>1, <1>2, <1>4 DEF Service!Records, Service!Places, Service!TypeOK
<1>6. /\ \/ shadow' = shadow /\ returned' = returned
         \/ /\ shadow' = [shadow EXCEPT ![o] = IF @.status = "prepared" THEN [@ EXCEPT !.status = "signed", !.at = time] ELSE @]
            /\ shadow[o].status # "expired" /\ returned' \in {returned, returned \cup {o}}
  BY Zenon, <1>4 DEF Service!recordSignature
<1>7. /\ Forward /\ returned' \subseteq Ops
      /\ \A p \in returned' : p \in returned \/ shadow'[p].status \in {"signed", "final"}
  <2>1. CASE shadow' = shadow /\ returned' = returned
    BY Zenon, <1>1, <2>1 DEF Forward, Service!TypeOK
  <2>2. CASE /\ shadow' = [shadow EXCEPT ![o] = IF @.status = "prepared" THEN [@ EXCEPT !.status = "signed", !.at = time] ELSE @]
             /\ shadow[o].status # "expired" /\ returned' \in {returned, returned \cup {o}}
    <3>1. PICK q : q = IF shadow[o].status = "prepared" THEN [shadow[o] EXCEPT !.status = "signed", !.at = time]
                       ELSE shadow[o]
      OBVIOUS
    <3>2. q \in Service!Packets /\ q.status \in {"signed", "final"}
      BY <1>5, <2>2, <3>1 DEF Service!Packets
    <3>3. shadow' = [shadow EXCEPT ![o] = q]
      BY <2>2, <3>1
    <3>4. shadow' \in [Ops -> Service!Packets] /\ shadow'[o] = q /\ \A p \in Ops \ {o} : shadow'[p] = shadow[p]
      BY Zenon, <1>1, <3>2, <3>3 DEF Service!TypeOK
    <3>5. Forward
      BY <3>2, <3>4 DEF Forward
    <3> QED BY Zenon, <1>1, <2>2, <3>2, <3>4, <3>5 DEF Service!TypeOK
  <2> QED BY Zenon, <1>6, <2>1, <2>2
<1>8. \A d \in Callers : call'[d] = call[d] \/ call'[d].at = "none"
  BY Zenon, <1>3
<1>9. Service!Records'
  BY Zenon, <1>1, <1>7, <1>8, RecordsKept
<1>10. Service!TypeOK'
  BY Zenon, <1>1, <1>2, <1>3, <1>7 DEF Service!TypeOK, Forward
<1>11. Service!Fences'
  BY <1>1, <1>2, <1>8 DEF Service!Fences, Service!Boundary
<1>12. Service!Leases'
  BY <1>1, <1>2, <1>8 DEF Service!Leases, Service!Boundary, Service!SignedWhileLeased
<1> QED BY Zenon, <1>9, <1>10, <1>11, <1>12 DEF Service!ServiceInv

\* A process without a journal has no mark.
LEMMA BlankJournal == ServiceConstants => Service!Blank \in Service!Journals /\ Service!Blank.fence = 0
  BY DEF Service!Blank, Service!Journals, Service!Never, ServiceConstants

\* A crash loses memory and requests; the mark on disk covers every signature made.
LEMMA CrashStep ==
  ASSUME ServiceConstants, Service!ServiceInv, Service!Crash
  PROVE  Service!ServiceInv'
<1>1. Service!TypeOK /\ Service!Fences /\ Service!Leases /\ Service!Records
  BY Zenon DEF Service!ServiceInv
<1>2. /\ up' = FALSE /\ mem' = Service!Blank /\ call' = [c \in Callers |-> Service!NoCall]
      /\ UNCHANGED <<time, lease, leasedTo, shadow, disk, signed, returned>>
  BY Zenon DEF Service!Crash, Service!dbVars
<1>3. \A c \in Callers : call'[c] = Service!NoCall /\ call'[c].at = "none"
  BY <1>2 DEF Service!NoCall
<1>4. Service!TypeOK'
  BY Zenon, <1>1, <1>2, <1>3, BlankJournal DEF Service!TypeOK
<1>5. Service!Fences'
  BY <1>1, <1>2, <1>3 DEF Service!Fences, Service!Boundary
<1>6. Service!Leases'
  BY <1>1, <1>2, <1>3 DEF Service!Leases, Service!Boundary, Service!SignedWhileLeased
<1>7. Service!Records'
  BY <1>1, <1>2, <1>3 DEF Service!Records, Service!Places, Service!Boundary, Service!ReturnedIsRecorded
<1> QED BY Zenon, <1>4, <1>5, <1>6, <1>7 DEF Service!ServiceInv

\* A restart takes the mark from disk (assertJournalCoverage).
LEMMA RestartStep ==
  ASSUME Service!ServiceInv, Service!Restart
  PROVE  Service!ServiceInv'
<1>1. Service!TypeOK /\ Service!Fences /\ Service!Leases /\ Service!Records
  BY Zenon DEF Service!ServiceInv
<1>2. ~up /\ up' = TRUE /\ mem' = disk /\ UNCHANGED <<time, lease, leasedTo, shadow, disk, call, signed, returned>>
  BY Zenon DEF Service!Restart, Service!dbVars
<1>3. \A c \in Callers : call[c] = Service!NoCall /\ call[c].at = "none"
  BY <1>1, <1>2 DEF Service!TypeOK, Service!NoCall
<1>4. Service!TypeOK'
  BY Zenon, <1>1, <1>2 DEF Service!TypeOK
<1>5. Service!Fences'
  BY <1>1, <1>2, <1>3 DEF Service!Fences, Service!Boundary
<1>6. Service!Leases' /\ Service!Records'
  BY Zenon, <1>1, <1>2 DEF Service!Leases, Service!Records, Service!SignedWhileLeased, Service!ReturnedIsRecorded
<1> QED BY Zenon, <1>4, <1>5, <1>6 DEF Service!ServiceInv

\* A lease renewed, completed or given anew never takes back an end it gave.
LEMMA LeaseStep ==
  ASSUME ServiceConstants, Service!ServiceInv, Service!Lease
  PROVE  Service!ServiceInv'
<1>1. Service!TypeOK /\ Service!Fences /\ Service!Leases /\ Service!Records
  BY Zenon DEF Service!ServiceInv
<1>2. UNCHANGED <<time, shadow, disk, mem, up, call, signed, returned>>
  BY Zenon DEF Service!Lease, Service!signerVars
<1>3. lease' \in [token : 1 .. MaxToken, until : Nat]
  BY <1>1 DEF Service!Lease, Service!TypeOK, ServiceConstants
<1>4. PICK k \in 1 .. MaxToken, e \in Nat : k = lease'.token /\ e = lease'.until
  BY <1>3
<1>5. leasedTo' = [leasedTo EXCEPT ![k] = Service!Max({leasedTo[k], e})] /\ leasedTo[k] \in Nat
  BY <1>1, <1>4 DEF Service!Lease, Service!TypeOK
<1>6. PICK n \in Nat : n = Service!Max({leasedTo[k], e}) /\ n >= leasedTo[k] /\ n >= e
  BY <1>5, LargerOfTwo
<1>7. /\ leasedTo' \in [1 .. MaxToken -> Nat] /\ leasedTo'[k] >= e
      /\ \A j \in 1 .. MaxToken : leasedTo'[j] >= leasedTo[j]
  <2>1. leasedTo' = [leasedTo EXCEPT ![k] = n] /\ leasedTo \in [1 .. MaxToken -> Nat]
    BY Zenon, <1>1, <1>5, <1>6 DEF Service!TypeOK
  <2>2. /\ leasedTo' \in [1 .. MaxToken -> Nat] /\ leasedTo'[k] = n
        /\ \A j \in 1 .. MaxToken : j # k => leasedTo'[j] = leasedTo[j]
    BY Zenon, <2>1
  <2> QED BY <1>6, <2>1, <2>2
<1>8. Service!TypeOK'
  BY Zenon, <1>1, <1>2, <1>3, <1>7 DEF Service!TypeOK
<1>9. Service!Leases'
  <2>1. lease'.until <= leasedTo'[lease'.token]
    BY <1>4, <1>7
  <2>2. ASSUME NEW c \in Callers, call[c].at \in {"sign"} \cup Service!Boundary
        PROVE  call[c].until <= leasedTo'[call[c].token]
    <3>1. call[c].until <= leasedTo[call[c].token] /\ call[c].at # "none"
      BY <1>1, <2>2 DEF Service!Leases, Service!Boundary
    <3>2. call[c].token \in 1 .. MaxToken /\ call[c].until \in Nat
      BY Zenon, <1>1, <3>1, Asks
    <3> QED BY <1>1, <1>7, <3>1, <3>2 DEF Service!TypeOK
  <2>3. ASSUME NEW x \in signed PROVE x[3] < leasedTo'[x[2]]
    <3>1. x[3] < leasedTo[x[2]] /\ x[2] \in 1 .. MaxToken /\ x[3] \in Nat
      BY <1>1, <2>3 DEF Service!Leases, Service!SignedWhileLeased, Service!TypeOK
    <3> QED BY <1>1, <1>7, <3>1 DEF Service!TypeOK
  <2> QED BY Zenon, <1>2, <2>1, <2>2, <2>3 DEF Service!Leases, Service!SignedWhileLeased
<1>10. Service!Fences' /\ Service!Records'
  BY Zenon, <1>1, <1>2 DEF Service!Fences, Service!Records, Service!ReturnedIsRecorded
<1> QED BY Zenon, <1>8, <1>9, <1>10 DEF Service!ServiceInv

\* Reconciliation settles a signed packet or expires an unsigned one; never one returned.
LEMMA OutcomeStep ==
  ASSUME Service!ServiceInv, NEW o \in Ops, Service!outcome(o), MaxTime \in Nat
  PROVE  Service!ServiceInv'
<1>1. Service!TypeOK /\ Service!Fences /\ Service!Leases /\ Service!Records
  BY Zenon DEF Service!ServiceInv
<1>2. UNCHANGED <<time, lease, leasedTo, disk, mem, up, call, signed, returned>>
  BY Zenon DEF Service!outcome, Service!signerVars
<1>3. shadow[o] \in Service!Packets /\ time \in Nat
  BY <1>1 DEF Service!TypeOK
<1>4. PICK q \in {"expired", "final"} :
        /\ shadow' = [shadow EXCEPT ![o] = [[shadow[o] EXCEPT !.status = q] EXCEPT !.at = time]]
        /\ shadow[o].status = IF q = "final" THEN "signed" ELSE "prepared"
  BY <1>1, <1>3 DEF Service!outcome, Service!TypeOK
<1>5. [[shadow[o] EXCEPT !.status = q] EXCEPT !.at = time] \in Service!Packets
      /\ [[shadow[o] EXCEPT !.status = q] EXCEPT !.at = time].status = q
  BY <1>3 DEF Service!Packets
<1>6. Forward
  BY <1>1, <1>4, <1>5 DEF Forward, Service!TypeOK
<1>7. Service!Records'
  <2>1. returned' \subseteq Ops /\ (\A d \in Callers : call'[d] = call[d]) /\ \A p \in returned' : p \in returned
    BY Zenon, <1>1, <1>2 DEF Service!TypeOK
  <2> QED BY Zenon, <1>1, <1>6, <2>1, RecordsKept
<1>8. Service!TypeOK'
  BY Zenon, <1>1, <1>2, <1>6 DEF Service!TypeOK, Forward
<1>9. Service!Fences' /\ Service!Leases'
  BY Zenon, <1>1, <1>2 DEF Service!Fences, Service!Leases, Service!SignedWhileLeased
<1> QED BY Zenon, <1>7, <1>8, <1>9 DEF Service!ServiceInv

\* Time passes.
LEMMA TickStep ==
  ASSUME ServiceConstants, Service!ServiceInv, Service!Tick
  PROVE  Service!ServiceInv'
<1>1. Service!TypeOK /\ Service!Fences /\ Service!Leases /\ Service!Records
  BY Zenon DEF Service!ServiceInv
<1>2. UNCHANGED <<lease, leasedTo, shadow, disk, mem, up, call, signed, returned>>
  BY Zenon DEF Service!Tick, Service!dbVars
<1>3. time' \in 0 .. MaxTime
  BY <1>1 DEF Service!Tick, Service!TypeOK, ServiceConstants
<1> QED BY Zenon, <1>1, <1>2, <1>3 DEF Service!ServiceInv, Service!TypeOK, Service!Fences, Service!Leases,
     Service!Records, Service!SignedWhileLeased,
                                       Service!ReturnedIsRecorded

\* Every step keeps the invariant, and only sign adds a signature.
LEMMA ServiceStep ==
  ASSUME ServiceConstants, Service!ServiceInv, [Service!Next]_(Service!vars)
  PROVE  Service!ServiceInv' /\ Service!FencedSigning
<1>1. CASE UNCHANGED Service!vars
  BY Zenon, <1>1 DEF Service!vars, Service!dbVars, Service!signerVars, Service!ServiceInv, Service!TypeOK,
       Service!Fences, Service!Leases, Service!Records,
                     Service!SignedWhileLeased, Service!ReturnedIsRecorded, Service!FencedSigning
<1>2. ASSUME signed' = signed PROVE Service!FencedSigning
  BY Zenon, <1>2 DEF Service!FencedSigning
<1>3. ASSUME NEW c \in Callers, NEW o \in Ops, NEW k \in 1 .. MaxToken, Service!Receive(c, o, k)
      PROVE  Service!ServiceInv' /\ Service!FencedSigning
  <2>1. signed' = signed
    BY Zenon, <1>3 DEF Service!Receive
  <2> QED BY Zenon, <1>2, <1>3, <2>1, ReceiveStep
<1>4. ASSUME NEW c \in Callers, Service!loadCapabilities(c) \/ Service!reserve(c) \/ Service!authorizeLease(c)
      PROVE  Service!ServiceInv' /\ Service!FencedSigning
  <2>1. signed' = signed
    BY Zenon, <1>4 DEF Service!loadCapabilities, Service!reserve, Service!authorizeLease, Service!Refused
  <2> QED BY Zenon, <1>2, <1>4, <2>1, LoadStep, ReserveStep, AuthorizeStep
<1>5. ASSUME NEW c \in Callers, Service!charge(c) \/ Service!approve(c) \/ Service!record(c) \/ Service!recordSignature(c)
      PROVE  Service!ServiceInv' /\ Service!FencedSigning
  <2>1. signed' = signed
    BY Zenon, <1>5 DEF Service!charge, Service!approve, Service!record, Service!recordSignature,
         Service!Persist, Service!Refused
  <2> QED BY Zenon, <1>2, <1>5, <2>1, ChargeStep, ApproveStep, RecordMarkStep, RecordSignatureStep
<1>6. ASSUME NEW c \in Callers, Service!sign(c) PROVE Service!ServiceInv' /\ Service!FencedSigning
  BY Zenon, <1>6, SignStep
<1>7. ASSUME NEW o \in Ops, Service!outcome(o) PROVE Service!ServiceInv' /\ Service!FencedSigning
  <2>1. signed' = signed
    BY Zenon, <1>7 DEF Service!outcome
  <2> QED BY Zenon, <1>2, <1>7, <2>1, OutcomeStep DEF ServiceConstants
<1>8. CASE Service!Crash \/ Service!Restart \/ Service!Tick \/ Service!Lease
  <2>1. signed' = signed
    BY Zenon, <1>8 DEF Service!Crash, Service!Restart, Service!Tick, Service!Lease
  <2> QED BY Zenon, <1>2, <1>8, <2>1, CrashStep, RestartStep, TickStep, LeaseStep
<1>9. CASE Service!Revoke
  BY Zenon, <1>2, <1>9 DEF Service!Revoke, Service!signerVars, Service!ServiceInv, Service!TypeOK,
       Service!Fences, Service!Leases, Service!Records,
                     Service!SignedWhileLeased, Service!ReturnedIsRecorded
<1> QED BY Zenon, <1>1, <1>3, <1>4, <1>5, <1>6, <1>7, <1>8, <1>9 DEF Service!Next

\* Through crashes, disk errors and lost answers: one request at a time in the signing boundary,
\* both marks at or above every signature's token, every lease end the database's own, every
\* returned signature on record (signer-service.mjs 103-143).
THEOREM ServiceInductive ==
  ASSUME ServiceConstants
  PROVE  Service!Spec => []Service!ServiceInv
<1>1. Service!Init => Service!ServiceInv
  <2> SUFFICES ASSUME Service!Init PROVE Service!ServiceInv
    OBVIOUS
  <2>1. \A c \in Callers : call[c] = Service!NoCall /\ call[c].at = "none"
    BY DEF Service!Init, Service!NoCall
  <2>2. Service!TypeOK
    BY BlankJournal DEF Service!Init, Service!TypeOK, ServiceConstants, Service!Packets
  <2>3. Service!Fences
    BY <2>1 DEF Service!Init, Service!Fences, Service!Boundary
  <2>4. Service!Leases
    BY <2>1 DEF Service!Init, Service!Leases, Service!Boundary, Service!SignedWhileLeased, ServiceConstants
  <2>5. Service!Records
    BY <2>1 DEF Service!Init, Service!Records, Service!Places, Service!Boundary, Service!ReturnedIsRecorded
  <2> QED BY Zenon, <2>2, <2>3, <2>4, <2>5 DEF Service!ServiceInv
<1>2. Service!ServiceInv /\ [Service!Next]_(Service!vars) => Service!ServiceInv'
  BY Zenon, ServiceStep
<1> QED BY <1>1, <1>2, PTL DEF Service!Spec

\* Nothing is signed after the last end the database gave its lease, whatever stalled in between
\* (signer-service.mjs 140-143), and a signature given to a caller is on record and never expired
\* as unsigned (operating-budget.mjs 60-62).
THEOREM NothingSignedLate ==
  ASSUME ServiceConstants
  PROVE  Service!Spec => [](Service!SignedWhileLeased /\ Service!ReturnedIsRecorded)
<1>1. Service!ServiceInv => Service!SignedWhileLeased /\ Service!ReturnedIsRecorded
  BY Zenon DEF Service!ServiceInv, Service!Leases, Service!Records
<1> QED BY <1>1, ServiceInductive, PTL

\* A signature is made only for a token at or above every token signed before it, by this process
\* or by the one that crashed before it (signer-service.mjs 112-116, fences.record and persist).
THEOREM SigningAlwaysFenced ==
  ASSUME ServiceConstants
  PROVE  Service!Spec => [][Service!FencedSigning]_(Service!vars)
<1>1. Service!ServiceInv /\ [Service!Next]_(Service!vars) => [Service!FencedSigning]_(Service!vars)
  BY Zenon, ServiceStep
<1> QED BY <1>1, ServiceInductive, PTL DEF Service!Spec
=============================================================================
