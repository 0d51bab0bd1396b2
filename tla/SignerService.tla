---------------------------- MODULE SignerService ----------------------------
(***************************************************************************)
(* The version-3 policy signer: one signing request goes through the       *)
(* campaign's grant, the operating budget's hold and shadow packet, the    *)
(* job's lease, and a synchronous boundary that charges the hourly ledger, *)
(* approves the operation, raises the fencing mark and writes all three to *)
(* disk before it signs (signer-service.mjs, signer/capabilities.mjs,      *)
(* signer-policy.mjs, registry/lease-authority.mjs).  The signature is     *)
(* recorded before it is returned (signer/operating-budget.mjs), and a     *)
(* restart is admitted only when disk and database cover each other        *)
(* (signer/journal-coverage.mjs).                                          *)
(*                                                                         *)
(* One job key of one campaign; an operation is one attempt's exact        *)
(* message and costs one unit.  Time is in ticks: a lease lasts less than  *)
(* one, the spending window is Hour, an approval is kept for KeepFor.      *)
(***************************************************************************)
EXTENDS Naturals, FiniteSets, FiniteSetsExt, TLC

CONSTANTS
  Ops, Callers,
  MaxTime, Hour, KeepFor, MaxToken,
  MaxHourly, MaxPerMinute,
  MaxFaults      \* crashes, disk errors and lost database answers

VARIABLES
  time,
  grant,          \* the campaign's latest grant is live
  lease,          \* the job row: fencing token and when its lease ends
  leasedTo,       \* history: the latest end each token's lease was ever given
  hold,           \* operations with an operating hold
  shadow,         \* the budget's packet of each operation, with its last update
  disk, mem,      \* the journal on the signer's volume and in its memory
  stamps,         \* signatures of the current minute
  up, call,
  signed,         \* every signature made: operation, token, time
  returned,       \* operations whose signature a caller got
  faults

signerVars == <<disk, mem, stamps, up>>
dbVars == <<grant, lease, leasedTo, hold, shadow>>
vars == <<time, dbVars, signerVars, call, signed, returned, faults>>

Never == MaxTime + 1
NoCall == [at |-> "none"]
Blank == [file |-> FALSE, ledger |-> [t \in 0 .. MaxTime |-> 0], seen |-> [o \in Ops |-> Never], fence |-> 0]

Init ==
  /\ time = 0 /\ grant = TRUE /\ lease = [token |-> 1, until |-> 1]
  /\ leasedTo = [k \in 1 .. MaxToken |-> IF k = 1 THEN 1 ELSE 0]
  /\ hold = {} /\ shadow = [o \in Ops |-> [status |-> "none", at |-> 0, born |-> 0]]
  /\ disk = Blank /\ mem = Blank /\ stamps = 0 /\ up = TRUE
  /\ call = [c \in Callers |-> NoCall]
  /\ signed = {} /\ returned = {} /\ faults = 0

Fault == faults < MaxFaults /\ faults' = faults + 1

-----------------------------------------------------------------------------
(* The signer's memory: spend ledger, operation registry, fences.          *)

\* createSpendLedger: entries older than the window are dropped, the rest bounds the charge.
recent(l) == [t \in 0 .. MaxTime |-> IF time - t > Hour /\ t <= time THEN 0 ELSE l[t]]
spent(l) == MapThenSumSet(LAMBDA t : recent(l)[t], 0 .. MaxTime)
charged(l) == [recent(l) EXCEPT ![time] = @ + 1]

\* createOperationRegistry: an approval is forgotten after its time.
sweep(s) == [o \in Ops |-> IF s[o] # Never /\ time - s[o] > KeepFor THEN Never ELSE s[o]]

\* createFenceRegistry
stale(token) == token < mem.fence

-----------------------------------------------------------------------------
(* One request.                                                            *)

At(c, s) == up /\ call[c].at = s
\* Nobody runs between the statements of the synchronous boundary.
Quiet == \A c \in Callers : call[c].at \notin {"charged", "approved", "fenced"}
\* The boundary keeps the one clock reading it started with.
Moves(c, s) ==
  call' = [call EXCEPT ![c].at = s, ![c].t = IF @ = 0 /\ s = "charged" THEN time ELSE @]
Refused(c) == call' = [call EXCEPT ![c] = NoCall]
               /\ UNCHANGED <<time, dbVars, disk, stamps, up, signed, returned, faults>>

\* A worker asks; at ingress the rate is looked at first.
Receive(c, o, token) ==
  /\ up /\ Quiet /\ call[c] = NoCall /\ stamps < MaxPerMinute /\ token <= lease.token
  /\ call' = [call EXCEPT ![c] = [at |-> "load", op |-> o, token |-> token, until |-> 0, t |-> 0]]
  /\ UNCHANGED <<time, dbVars, signerVars, signed, returned, faults>>

\* The latest grant is loaded and the request evaluated against it.
loadCapabilities(c) ==
  /\ At(c, "load") /\ Quiet
  /\ mem' = [mem EXCEPT !.seen = sweep(@)]
  /\ \/ (~grant \/ stale(call[c].token)) /\ Refused(c)
     \/ /\ grant /\ ~stale(call[c].token) /\ Moves(c, "reserve")
        /\ UNCHANGED <<time, dbVars, disk, stamps, up, signed, returned, faults>>

\* A packet's blockhash does not outlive the tick it was made in; it may end within it.
Lives(o) == time = shadow[o].born

\* The budget keeps its own copy of the packet and holds the cost.
reserve(c) ==
  LET o == call[c].op IN
  /\ At(c, "reserve") /\ Quiet /\ UNCHANGED mem
  /\ \/ Refused(c)       \* packet not current, template refused, no budget, timeout
     \/ /\ shadow[o].status \in {"prepared", "signed", "final"} => Lives(o)
        /\ shadow[o].status # "expired"
        /\ shadow' = [shadow EXCEPT ![o] =
                        IF @.status = "none" THEN [status |-> "prepared", at |-> time, born |-> time] ELSE @]
        /\ hold' = hold \cup {o} /\ Moves(c, "authorize")
        /\ UNCHANGED <<time, grant, lease, leasedTo, disk, stamps, up, signed, returned, faults>>

\* Grant, job lease and database time in one statement.
authorizeLease(c) ==
  /\ At(c, "authorize") /\ Quiet /\ UNCHANGED mem
  /\ IF grant /\ lease.token = call[c].token /\ time < lease.until
     THEN /\ call' = [call EXCEPT ![c] = [@ EXCEPT !.at = "sign", !.until = lease.until]]
          /\ UNCHANGED <<time, dbVars, disk, stamps, up, signed, returned, faults>>
     ELSE Refused(c)

\* One write of the whole journal: it may fail, with memory already changed.
Persist(c, m, next) ==
  /\ mem' = m
  /\ \/ disk' = [m EXCEPT !.file = TRUE] /\ Moves(c, next) /\ UNCHANGED faults
     \/ Fault /\ call' = [call EXCEPT ![c] = NoCall] /\ UNCHANGED disk
  /\ UNCHANGED <<time, dbVars, stamps, up, signed, returned>>

\* MUTANT: the fencing mark is not looked at again after the lease was read.
AdmittedUnfenced(c) == time < call[c].until /\ stamps < MaxPerMinute

Admitted(c) == time < call[c].until /\ ~stale(call[c].token) /\ stamps < MaxPerMinute

\* The boundary: an approved operation is not charged twice, a new one is charged first.
charge(c) ==
  LET o == call[c].op
      s == sweep(mem.seen)
  IN /\ At(c, "sign") /\ Quiet
     /\ \/ ~Admitted(c) /\ UNCHANGED mem /\ Refused(c)
        \/ /\ Admitted(c) /\ s[o] = Never /\ spent(mem.ledger) >= MaxHourly
           /\ mem' = [mem EXCEPT !.seen = s, !.ledger = recent(@)] /\ Refused(c)
        \/ /\ Admitted(c) /\ s[o] = Never /\ spent(mem.ledger) < MaxHourly
           /\ Persist(c, [mem EXCEPT !.seen = s, !.ledger = charged(@)], "charged")
        \/ /\ Admitted(c) /\ s[o] # Never
           /\ mem' = [mem EXCEPT !.seen = s] /\ Moves(c, "approved")
           /\ UNCHANGED <<time, dbVars, disk, stamps, up, signed, returned, faults>>

approve(c) ==
  At(c, "charged") /\ Persist(c, [mem EXCEPT !.seen[call[c].op] = call[c].t], "approved")

\* The mark rises, and the whole journal is flushed again whatever an earlier write did.
record(c) ==
  At(c, "approved") /\ Persist(c, [mem EXCEPT !.fence = Max({@, call[c].token})], "fenced")

\* Still inside the lease after the disk writes, or no signature.
sign(c) ==
  /\ At(c, "fenced") /\ UNCHANGED mem
  /\ IF time < call[c].until
     THEN /\ stamps' = stamps + 1 /\ signed' = signed \cup {<<call[c].op, call[c].token, time>>}
          /\ Moves(c, "record") /\ UNCHANGED <<time, dbVars, disk, up, returned, faults>>
     ELSE Refused(c)

\* recordSignature persists before anything is answered; a lost answer may have persisted.
recordSignature(c) ==
  LET o == call[c].op
      stored == shadow' = [shadow EXCEPT ![o] = IF @.status = "prepared" THEN [@ EXCEPT !.status = "signed", !.at = time] ELSE @]
  IN /\ At(c, "record") /\ Quiet /\ call' = [call EXCEPT ![c] = NoCall]
     /\ \/ shadow[o].status = "expired" /\ UNCHANGED <<shadow, returned, faults>>
        \/ shadow[o].status # "expired" /\ stored /\ returned' = returned \cup {o} /\ UNCHANGED faults
        \/ shadow[o].status # "expired" /\ stored /\ Fault /\ UNCHANGED returned
     /\ UNCHANGED <<time, grant, lease, leasedTo, hold, signerVars, signed>>

-----------------------------------------------------------------------------
(* Crash and restart.                                                      *)

Crash ==
  /\ Fault /\ up /\ up' = FALSE /\ mem' = Blank /\ stamps' = 0 /\ call' = [c \in Callers |-> NoCall]
  /\ UNCHANGED <<time, dbVars, disk, signed, returned>>

\* assertJournalCoverage
ApprovalsHeld(d) == \A o \in Ops : d.seen[o] # Never => o \in hold
ApprovalsCharged(d) ==
  \A t \in 0 .. MaxTime : time - t <= Hour => d.ledger[t] >= Cardinality({o \in Ops : d.seen[o] = t})
FencesIssued(d) == d.fence <= lease.token
SignaturesApproved(d) ==
  \A o \in Ops : shadow[o].status \in {"signed", "final"} /\ time - shadow[o].at <= Hour => d.seen[o] # Never
NotEmptied(d) == ~d.file => \A o \in Ops : shadow[o].status \notin {"signed", "final"}
assertJournalCoverage(d) ==
  ApprovalsHeld(d) /\ ApprovalsCharged(d) /\ FencesIssued(d) /\ SignaturesApproved(d) /\ NotEmptied(d)

Restart ==
  /\ ~up /\ assertJournalCoverage(disk) /\ up' = TRUE /\ mem' = disk
  /\ UNCHANGED <<time, dbVars, disk, stamps, call, signed, returned, faults>>

-----------------------------------------------------------------------------
(* The rest of the world: time, leases, the operator, the accounting.      *)

\* The bounded write of a signature ends within its tick.
Tick ==
  /\ \A c \in Callers : call[c].at # "record"
  /\ time < MaxTime /\ time' = time + 1 /\ stamps' = 0
  /\ UNCHANGED <<dbVars, disk, mem, up, call, signed, returned, faults>>

\* The runner heartbeats a lease, or a new one is given once it ended.
Lease ==
  /\ \/ time < lease.until /\ lease' = [lease EXCEPT !.until = time + 1]
     \/ time >= lease.until /\ lease.token < MaxToken
        /\ lease' = [token |-> lease.token + 1, until |-> time + 1]
     \/ time < lease.until /\ lease' = [lease EXCEPT !.until = time]     \* completed
  /\ leasedTo' = [leasedTo EXCEPT ![lease'.token] = Max({@, lease'.until})]
  /\ UNCHANGED <<time, grant, hold, shadow, signerVars, call, signed, returned, faults>>

Revoke ==
  /\ grant /\ grant' = FALSE
  /\ UNCHANGED <<time, lease, leasedTo, hold, shadow, signerVars, call, signed, returned, faults>>

\* Reconciliation: an unsigned packet past its blockhash expires, a signed one is settled.
outcome(o) ==
  /\ \/ /\ shadow[o].status = "prepared"
        /\ shadow' = [shadow EXCEPT ![o].status = "expired", ![o].at = time]
     \/ /\ shadow[o].status = "signed"
        /\ shadow' = [shadow EXCEPT ![o].status = "final", ![o].at = time]
  /\ UNCHANGED <<time, grant, lease, leasedTo, hold, signerVars, call, signed, returned, faults>>

Next ==
  \/ \E c \in Callers :
       \/ \E o \in Ops, token \in 1 .. MaxToken : Receive(c, o, token)
       \/ loadCapabilities(c) \/ reserve(c) \/ authorizeLease(c)
       \/ charge(c) \/ approve(c) \/ record(c) \/ sign(c) \/ recordSignature(c)
  \/ \E o \in Ops : outcome(o)
  \/ Crash \/ Restart \/ Tick \/ Lease \/ Revoke

Spec == Init /\ [][Next]_vars

-----------------------------------------------------------------------------

\* What the operator can lose by signatures of any hour stays within the hourly limit, across
\* crashes, disk errors and retries of refused requests (signer-service.mjs 129-133).
SpendBounded ==
  \A t \in 0 .. MaxTime :
    Cardinality({o \in Ops : \E x \in signed : x[1] = o /\ x[3] <= t /\ t - x[3] <= Hour}) <= MaxHourly

\* No signature for an older lease follows one for a newer lease of the same job
\* (signer-service.mjs 103-118).
FencedSigning == \A x \in signed' \ signed : \A y \in signed : y[2] <= x[2]

\* However long the lookups and the disk took, nothing is signed for a lease after the last
\* moment the database ever gave that lease (signer-service.mjs 112-116, 140-143).
SignedWhileLeased == \A x \in signed : x[3] < leasedTo[x[2]]

\* A caller never gets a signature the accounting does not have: an operation that expired
\* unsigned was never returned (operating-budget.mjs 60-62, signer-service.mjs 84-86).
ReturnedIsRecorded == \A o \in returned : shadow[o].status \in {"signed", "final"}

-----------------------------------------------------------------------------
(* The inductive invariant.                                                *)
Boundary == {"charged", "approved", "fenced"}
Places == {"load", "reserve", "authorize", "sign", "record"} \cup Boundary
Asked == [at : Places, op : Ops, token : 1 .. MaxToken, until : Nat, t : Nat]
Journals == [file : BOOLEAN, ledger : [0 .. MaxTime -> Nat], seen : [Ops -> Nat], fence : Nat]
Packets == [status : {"none", "prepared", "signed", "final", "expired"}, at : Nat, born : Nat]

\* Every variable keeps its type; a signer that is down has no request.
TypeOK ==
  /\ time \in 0 .. MaxTime /\ lease \in [token : 1 .. MaxToken, until : Nat]
  /\ leasedTo \in [1 .. MaxToken -> Nat] /\ shadow \in [Ops -> Packets]
  /\ disk \in Journals /\ mem \in Journals /\ up \in BOOLEAN
  /\ call \in [Callers -> {NoCall} \cup Asked]
  /\ signed \subseteq Ops \X (1 .. MaxToken) \X Nat /\ returned \subseteq Ops
  /\ ~up => \A c \in Callers : call[c] = NoCall

\* One request at a time is between its charge and its signature; it is not older than the
\* mark, and at the signature the mark is its own.  Both marks cover every signature made.
Fences ==
  /\ \A c, d \in Callers : call[c].at \in Boundary /\ call[d].at \in Boundary => c = d
  /\ \A c \in Callers : call[c].at \in Boundary => mem.fence <= call[c].token
  /\ \A c \in Callers : call[c].at = "fenced" => mem.fence = call[c].token /\ disk.fence = mem.fence
  /\ \A x \in signed : x[2] <= disk.fence /\ (up => x[2] <= mem.fence)

\* The end a request was authorized until is one the database gave its lease.
Leases ==
  /\ lease.until <= leasedTo[lease.token]
  /\ \A c \in Callers : call[c].at \in {"sign"} \cup Boundary => call[c].until <= leasedTo[call[c].token]
  /\ SignedWhileLeased

\* A request past its reservation has a packet, and what was returned is recorded.
Records ==
  /\ \A c \in Callers :
       call[c].at \in Places \ {"load", "reserve"} => shadow[call[c].op].status # "none"
  /\ ReturnedIsRecorded

ServiceInv == TypeOK /\ Fences /\ Leases /\ Records
=============================================================================
