--------------------------- MODULE SignerOwnership ---------------------------
(***************************************************************************)
(* Ownership of the one signing key by one process (signer/ownership.mjs): *)
(* a database row names the owner, an epoch and an end in database time; a *)
(* process works with a deadline of its own monotonic clock, taken from    *)
(* the moment it asked, less a margin.  Queries run some time after they   *)
(* are sent, even when the process gave up on them, and are answered some  *)
(* time after they ran.  The database clock may be ahead by up to MaxSkew  *)
(* and may move either way within that.  Every process start has an owner  *)
(* name of its own, so a restarted signer is another member of Procs.      *)
(***************************************************************************)
EXTENDS Integers, TLC

CONSTANTS Procs, None, Ttl, Margin, MaxSkew,
          MaxNow       \* bounds the clock

ASSUME OwnershipAssumption ==
  /\ None \notin Procs
  /\ Ttl \in Nat /\ Margin \in Nat /\ MaxSkew \in Nat /\ MaxNow \in Nat
  /\ 3 * Margin < Ttl /\ MaxSkew <= Margin

VARIABLES
  now, skew,
  owner, epochs, expires,      \* the row of signer_ownership
  status,                      \* of each process
  epoch, deadline,             \* what a process believes it holds
  started, sent,               \* when it asked, and its queries not yet run
  answer                       \* the answer on its way: None, or what was granted

rowVars == <<owner, epochs, expires>>
procVars == <<status, epoch, deadline, started, sent, answer>>
vars == <<now, skew, rowVars, procVars>>

Nothing == [granted |-> FALSE, epoch |-> 0]
Pending(p) == status[p] \in {"acquiring", "renewing"}

Init ==
  /\ now = 0 /\ skew \in 0 .. MaxSkew
  /\ owner = None /\ epochs = 0 /\ expires = 0
  /\ status = [p \in Procs |-> "idle"]
  /\ epoch = [p \in Procs |-> 0] /\ deadline = [p \in Procs |-> 0]
  /\ started = [p \in Procs |-> 0] /\ sent = [p \in Procs |-> {}]
  /\ answer = [p \in Procs |-> Nothing]

dbNow == now + skew

Running(p) == status[p] \in {"running", "renewing"}

\* Only inside its own deadline does a process sign.
valid(p) == Running(p) /\ now < deadline[p]

-----------------------------------------------------------------------------
(* A process.                                                              *)

\* acquireSignerOwnership sends its one statement.
Acquire(p) ==
  /\ status[p] = "idle"
  /\ status' = [status EXCEPT ![p] = "acquiring"]
  /\ started' = [started EXCEPT ![p] = now]
  /\ sent' = [sent EXCEPT ![p] = {"acquire"}]
  /\ UNCHANGED <<now, skew, rowVars, epoch, deadline, answer>>

\* renew: only a process that is still valid asks, one question at a time.
Renew(p) ==
  /\ status[p] = "running"
  /\ IF now < deadline[p]
     THEN /\ status' = [status EXCEPT ![p] = "renewing"]
          /\ started' = [started EXCEPT ![p] = now]
          /\ sent' = [sent EXCEPT ![p] = @ \cup {"renew"}]
          /\ answer' = [answer EXCEPT ![p] = Nothing]
     ELSE /\ status' = [status EXCEPT ![p] = "stopped"]
          /\ UNCHANGED <<started, sent, answer>>
  /\ UNCHANGED <<now, skew, rowVars, epoch, deadline>>

\* The answer must come with more than the margin left of what was granted.
InTime(p) == Ttl - (now - started[p]) > Margin

Accept(p) ==
  /\ status' = [status EXCEPT ![p] = "running"]
  /\ epoch' = [epoch EXCEPT ![p] = answer[p].epoch]
  /\ deadline' = [deadline EXCEPT ![p] = started[p] + Ttl - Margin]

Stop(p) ==
  /\ status' = [status EXCEPT ![p] = "stopped"]
  /\ UNCHANGED <<epoch, deadline>>

Acquired(p) ==
  /\ status[p] = "acquiring" /\ answer[p].granted
  /\ IF InTime(p) THEN Accept(p) ELSE Stop(p)
  /\ UNCHANGED <<now, skew, rowVars, started, sent, answer>>

\* MUTANT: a late acknowledgement restores an owner that had already run out.
RenewedLate(p) ==
  /\ status[p] = "renewing" /\ answer[p].granted
  /\ IF answer[p].epoch = epoch[p] /\ InTime(p) THEN Accept(p) ELSE Stop(p)
  /\ UNCHANGED <<now, skew, rowVars, started, sent, answer>>

\* An acknowledgement after the old deadline cannot restore ownership.
Renewed(p) ==
  /\ status[p] = "renewing" /\ answer[p].granted
  /\ IF now < deadline[p] /\ answer[p].epoch = epoch[p] /\ InTime(p) THEN Accept(p) ELSE Stop(p)
  /\ UNCHANGED <<now, skew, rowVars, started, sent, answer>>

\* No row, a failed or lost query, a call of stop: for good.  The query may run later.
Failed(p) ==
  /\ Pending(p) \/ status[p] = "running"
  /\ Stop(p)
  /\ UNCHANGED <<now, skew, rowVars, started, sent, answer>>

\* close, which a process that once held the key may send after it stopped.
Close(p) ==
  /\ status[p] \in {"running", "stopped"} /\ epoch[p] # 0
  /\ status' = [status EXCEPT ![p] = "closed"]
  /\ sent' = [sent EXCEPT ![p] = @ \cup {"close"}]
  /\ UNCHANGED <<now, skew, rowVars, epoch, deadline, started, answer>>

-----------------------------------------------------------------------------
(* The database runs a statement.                                          *)

Ran(p, q) == sent' = [sent EXCEPT ![p] = @ \ {q}]

\* MUTANT: a row is taken over without looking at its end.
RunAcquireAny(p) ==
  /\ "acquire" \in sent[p] /\ Ran(p, "acquire")
  /\ owner' = p /\ epochs' = epochs + 1 /\ expires' = dbNow + Ttl
  /\ answer' = [answer EXCEPT ![p] = [granted |-> TRUE, epoch |-> epochs + 1]]
  /\ UNCHANGED <<now, skew, status, epoch, deadline, started>>

\* The row is inserted, or taken over when free or over.
RunAcquire(p) ==
  /\ "acquire" \in sent[p] /\ Ran(p, "acquire")
  /\ IF owner = None \/ expires <= dbNow
     THEN /\ owner' = p /\ epochs' = epochs + 1 /\ expires' = dbNow + Ttl
          /\ answer' = [answer EXCEPT ![p] = [granted |-> TRUE, epoch |-> epochs + 1]]
     ELSE UNCHANGED <<rowVars, answer>>
  /\ UNCHANGED <<now, skew, status, epoch, deadline, started>>

RunRenew(p) ==
  /\ "renew" \in sent[p] /\ Ran(p, "renew")
  /\ IF owner = p /\ epochs = epoch[p] /\ expires > dbNow
     THEN /\ expires' = dbNow + Ttl
          /\ answer' = [answer EXCEPT ![p] = [granted |-> TRUE, epoch |-> epochs]]
          /\ UNCHANGED <<owner, epochs>>
     ELSE UNCHANGED <<rowVars, answer>>
  /\ UNCHANGED <<now, skew, status, epoch, deadline, started>>

\* A stale close never releases a replacement; the epoch stays.
RunClose(p) ==
  /\ "close" \in sent[p] /\ Ran(p, "close")
  /\ IF owner = p /\ epochs = epoch[p]
     THEN owner' = None /\ expires' = 0 /\ UNCHANGED epochs
     ELSE UNCHANGED rowVars
  /\ UNCHANGED <<now, skew, status, epoch, deadline, started, answer>>

-----------------------------------------------------------------------------

Tick == now < MaxNow /\ now' = now + 1 /\ UNCHANGED <<skew, rowVars, procVars>>

\* The database clock is set.
Adjust == skew' \in 0 .. MaxSkew /\ UNCHANGED <<now, rowVars, procVars>>

Next ==
  \/ \E p \in Procs :
       \/ Acquire(p) \/ Renew(p) \/ Acquired(p) \/ Renewed(p) \/ Failed(p) \/ Close(p)
       \/ RunAcquire(p) \/ RunRenew(p) \/ RunClose(p)
  \/ Tick \/ Adjust

Spec == Init /\ [][Next]_vars

-----------------------------------------------------------------------------
(* Properties.                                                             *)

\* Every variable keeps its type, and no process knows an epoch the row has not reached.
TypeOK ==
  /\ now \in Nat /\ skew \in 0 .. MaxSkew
  /\ owner \in Procs \cup {None} /\ epochs \in Nat /\ expires \in Nat
  /\ status \in [Procs -> {"idle", "acquiring", "running", "renewing", "stopped", "closed"}]
  /\ \A p \in Procs : epoch[p] <= epochs
  /\ epoch \in [Procs -> Nat] /\ deadline \in [Procs -> Nat] /\ started \in [Procs -> Nat]
  /\ sent \in [Procs -> SUBSET {"acquire", "renew", "close"}]
  /\ answer \in [Procs -> [granted : BOOLEAN, epoch : Nat]]

\* Never do two processes both believe they own the key: whatever is delayed, lost or run late,
\* and wherever the database clock is within its skew (ownership.mjs 1-3, valid).
OneValidOwner == \A p, q \in Procs : valid(p) /\ valid(q) => p = q

\* A process that may sign is the one the row names, under the row's epoch: no stale close and no
\* late statement of another process takes the row from under it (ownership.mjs 23-29, 57-58).
HolderOwnsRow == \A p \in Procs : valid(p) => owner = p /\ epochs = epoch[p]

\* Losing ownership is terminal: a process past its deadline is never valid again, whatever answer
\* still arrives (ownership.mjs 2-3, 42-44).
LostIsTerminal ==
  [][\A p \in Procs : Running(p) /\ now >= deadline[p] => ~(Running(p) /\ now < deadline[p])']_vars
=============================================================================
