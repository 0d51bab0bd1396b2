----------------------------- MODULE MintLeases -----------------------------
(***************************************************************************)
(* Mint leases (localnet/mints/leases.mjs): the registry's PostgreSQL row   *)
(* per mint, kept beside the reservation in the inventory's own database    *)
(* (MintInventory).  The two are written one after the other, by calls that *)
(* interleave and may stop anywhere; a call's reads and writes are steps.   *)
(* A launch signs only after its message digest is on the lease.            *)
(***************************************************************************)
EXTENDS Integers, FiniteSets, FiniteSetsExt

CONSTANTS Bindings, Messages, AssetIntents, PlanIntents, Scopes, MaxMints, MaxTickets,
          MaxRetry, MaxLaunches, MaxAttempts, Fallback,
          Reservers,    \* calls of `reserve` in flight
          Reconcilers,  \* calls of `reconcile` in flight
          MaxLeases     \* bound: lease ids

ASSUME LeaseBounds ==
  /\ MaxMints \in Nat /\ MaxTickets \in Nat /\ MaxRetry \in Nat /\ MaxLaunches \in Nat
  /\ MaxLeases \in Nat

VARIABLES status, intentHash, coverage, feeNft, sigs, holding, receipts, tickets,
          row,      \* mint_leases, one row per mint
          leaseIds, \* lease ids made
          landed,   \* mints that exist on chain
          res,      \* the reserve calls
          rec       \* the reconcile calls

Inv == INSTANCE MintInventory
inventory == <<status, intentHash, coverage, feeNft, sigs, holding, receipts, tickets>>
vars == <<inventory, row, leaseIds, landed, res, rec>>

Mints == 1..MaxMints
NoRow == [state |-> "none", id |-> 0, binding |-> "none", ref |-> 0, digest |-> FALSE]
Idle == [pc |-> "idle"]

Init ==
  /\ Inv!Init
  /\ row = [m \in Mints |-> NoRow]
  /\ leaseIds = 0
  /\ landed = {}
  /\ res = [r \in Reservers |-> Idle]
  /\ rec = [k \in Reconcilers |-> Idle]

ByBinding(b) == {m \in Mints : row[m].state # "none" /\ row[m].binding = b}
Import == Inv!ImportPrivateKeyFile /\ UNCHANGED <<row, leaseIds, landed, res, rec>>

(* assertMintTransition and the compare-and-set of `transition`: the row is *)
(* found by the lease id the caller read, in the state it read.             *)
Allowed == [reserved |-> {"signed-pending", "releasing", "quarantined"},
            releasing |-> {"released", "signed-pending", "quarantined"}]

Current(m, id, from) == row[m].id = id /\ row[m].state = from
Transition(m, id, from, to) ==
  /\ from \in DOMAIN Allowed => to \in Allowed[from]
  /\ row' = IF Current(m, id, from) THEN [row EXCEPT ![m].state = to] ELSE row

(* reserve: no lease of this binding yet; take a reservation, or the one it *)
(* already has, from the inventory.                                         *)
ReserveInventory(r, b) ==
  /\ res[r].pc = "idle" /\ ByBinding(b) = {}
  /\ \/ Inv!Reserve(b, "plain")
     \/ Inv!Held(b) /\ status[holding[b].mint] # "quarantined" /\ UNCHANGED inventory
  /\ res' = [res EXCEPT ![r] = [pc |-> "byMint", b |-> b, ticket |-> holding'[b]]]
  /\ UNCHANGED <<row, leaseIds, landed, rec>>

(* reserve: the mint's row decides between insert, rebind and a conflict *)
ReserveRead(r) ==
  /\ res[r].pc = "byMint"
  /\ LET old == row[res[r].ticket.mint] IN
       res' = [res EXCEPT ![r] =
         IF old.state = "none" \/ (old.state = "released" /\ old.binding # res[r].b)
           THEN [pc |-> "write", b |-> @.b, ticket |-> @.ticket, old |-> old.id]
           ELSE Idle]
  /\ UNCHANGED <<inventory, row, leaseIds, landed, rec>>

(* reserve: insert under both unique keys, or rebind the released row that  *)
(* was read; the row gets a new lease id either way.                        *)
WritableAnyState(m, b, old) == ByBinding(b) = {}
Writable(m, b, old) ==
  /\ row[m].id = old
  /\ row[m].state \in {"none", "released"}
  /\ ByBinding(b) = {}
ReserveWrite(r) ==
  /\ res[r].pc = "write"
  /\ leaseIds < MaxLeases
  /\ LET c == res[r]  m == c.ticket.mint IN
       IF Writable(m, c.b, c.old)
         THEN /\ row' = [row EXCEPT ![m] = [state |-> "reserved", id |-> leaseIds + 1,
                           binding |-> c.b, ref |-> c.ticket.id, digest |-> FALSE]]
              /\ leaseIds' = leaseIds + 1
         ELSE UNCHANGED <<row, leaseIds>>
  /\ res' = [res EXCEPT ![r] = Idle]
  /\ UNCHANGED <<inventory, landed, rec>>

(* recordSigningIntent: the digest is on the lease before any signature *)
RecordSigningIntent(m) ==
  /\ row[m].state = "reserved"
  /\ row' = [row EXCEPT ![m].state = "signed-pending", ![m].digest = TRUE]
  /\ UNCHANGED <<inventory, leaseIds, landed, res, rec>>

(* The asset signer of the inventory, for a lease that names its message;   *)
(* a signed packet may land at any later time.                              *)
Sign(m, i, x) ==
  /\ row[m].state = "signed-pending" /\ row[m].digest
  /\ holding[row[m].binding].id = row[m].ref
  /\ Inv!AssetMintSigner(row[m].binding, i, x, 0, x)
  /\ UNCHANGED <<row, leaseIds, landed, res, rec>>
Land(m) ==
  /\ sigs[m] # {} /\ m \notin landed
  /\ landed' = landed \cup {m}
  /\ UNCHANGED <<inventory, row, leaseIds, res, rec>>

(* A funding-first plan keeps a fee-NFT key beside a leased mint. *)
BindCampaign(m, c) ==
  /\ row[m].state \in {"reserved", "signed-pending"}
  /\ Inv!ReserveFundingFirstKeys(row[m].binding, c)
  /\ UNCHANGED <<row, leaseIds, landed, res, rec>>

(* markConsumed, after the launch was confirmed *)
MarkConsumed(m) ==
  /\ m \in landed /\ row[m].state = "signed-pending"
  /\ row' = [row EXCEPT ![m].state = "consumed"]
  /\ UNCHANGED <<inventory, leaseIds, landed, res, rec>>

Quarantine(m) ==
  /\ row[m].state \in {"reserved", "releasing", "signed-pending"}
  /\ row' = [row EXCEPT ![m].state = "quarantined"]
  /\ UNCHANGED <<inventory, leaseIds, landed, res, rec>>

(* reconcile: the lease, and whether the mint exists on chain *)
ReconcileRead(k, m) ==
  /\ rec[k].pc = "idle"
  /\ row[m].state \in {"reserved", "releasing", "signed-pending"}
  /\ rec' = [rec EXCEPT ![k] = [pc |-> "decide", m |-> m, lease |-> row[m], exists |-> m \in landed]]
  /\ UNCHANGED <<inventory, row, leaseIds, landed, res>>

(* reconcile: what the chain decides; else claim the release before the     *)
(* inventory is asked.                                                      *)
ReconcileDecide(k) ==
  /\ rec[k].pc = "decide"
  /\ LET c == rec[k]  l == c.lease IN
     \/ /\ l.state = "signed-pending"
        /\ IF c.exists THEN Transition(c.m, l.id, l.state, "consumed") ELSE UNCHANGED row
        /\ rec' = [rec EXCEPT ![k] = Idle]
     \/ /\ l.state # "signed-pending" /\ c.exists
        /\ Transition(c.m, l.id, l.state, "quarantined")
        /\ rec' = [rec EXCEPT ![k] = Idle]
     \/ /\ l.state = "reserved" /\ ~c.exists
        /\ Transition(c.m, l.id, "reserved", "releasing")
        /\ rec' = [rec EXCEPT ![k] = IF Current(c.m, l.id, "reserved")
                                      THEN [c EXCEPT !.pc = "release"] ELSE Idle]
     \/ /\ l.state = "releasing" /\ ~c.exists
        /\ rec' = [rec EXCEPT ![k].pc = "release"]
        /\ UNCHANGED row
  /\ UNCHANGED <<inventory, leaseIds, landed, res>>

(* reconcile: releaseUnsignedReservation with the reservation of the lease; *)
(* the receipt of an earlier release answers a repeated one.                *)
Receipt(l) == \E q \in receipts : q.ticket.id = l.ref /\ q.binding = l.binding
Answer(l) ==
  IF Receipt(l) THEN "released"
  ELSE IF holding[l.binding].id # l.ref THEN "absent"
  ELSE LET m == holding[l.binding].mint IN
    IF feeNft[m] # "unset" THEN "funding-first"
    ELSE IF sigs[m] # {} \/ status[m] = "signed" THEN "signed"
    ELSE IF status[m] = "quarantined" THEN "quarantined"
    ELSE "released"
ReconcileRelease(k) ==
  /\ rec[k].pc = "release"
  /\ LET l == rec[k].lease IN
       /\ IF Answer(l) = "released" /\ ~Receipt(l)
            THEN Inv!ReleaseUnsignedReservation(l.binding, l.ref)
            ELSE UNCHANGED inventory
       /\ rec' = [rec EXCEPT ![k].pc = Answer(l)]
  /\ UNCHANGED <<row, leaseIds, landed, res>>

(* reconcile: the outcome is written to the lease, if it is still this one *)
ReconcileWrite(k) ==
  /\ rec[k].pc \in {"released", "signed", "quarantined", "funding-first", "absent"}
  /\ LET c == rec[k] IN
       CASE c.pc = "released" -> Transition(c.m, c.lease.id, "releasing", "released")
         [] c.pc = "signed" -> Transition(c.m, c.lease.id, "releasing", "signed-pending")
         [] c.pc = "quarantined" -> Transition(c.m, c.lease.id, "releasing", "quarantined")
         [] OTHER -> UNCHANGED row
  /\ rec' = [rec EXCEPT ![k] = Idle]
  /\ UNCHANGED <<inventory, leaseIds, landed, res>>

(* A call stops between two steps: a crash, a lost connection. *)
Stop ==
  /\ \/ \E r \in Reservers : res[r].pc # "idle" /\ res' = [res EXCEPT ![r] = Idle] /\ UNCHANGED rec
     \/ \E k \in Reconcilers : rec[k].pc # "idle" /\ rec' = [rec EXCEPT ![k] = Idle] /\ UNCHANGED res
  /\ UNCHANGED <<inventory, row, leaseIds, landed>>

Reconcile(k) ==
  \/ \E m \in Mints : ReconcileRead(k, m)
  \/ ReconcileDecide(k) \/ ReconcileRelease(k) \/ ReconcileWrite(k)
Next ==
  \/ Import
  \/ \E r \in Reservers : (\E b \in Bindings : ReserveInventory(r, b)) \/ ReserveRead(r) \/ ReserveWrite(r)
  \/ \E m \in Mints : RecordSigningIntent(m) \/ Land(m) \/ MarkConsumed(m) \/ Quarantine(m)
  \/ \E m \in Mints, i \in AssetIntents, x \in Messages : Sign(m, i, x)
  \/ \E m \in Mints, c \in Scopes : BindCampaign(m, c)
  \/ \E k \in Reconcilers : Reconcile(k)
  \/ Stop

Spec == Init /\ [][Next]_vars
-----------------------------------------------------------------------------
(* Rows and calls hold what their code writes into them. *)
Leases == [state: {"reserved", "releasing", "signed-pending", "consumed", "quarantined", "released"},
           id: 1..MaxLeases, binding: Bindings, ref: 1..MaxTickets, digest: BOOLEAN]
ReserveCalls ==
  {Idle} \cup [pc: {"byMint"}, b: Bindings, ticket: Inv!Tickets]
         \cup [pc: {"write"}, b: Bindings, ticket: Inv!Tickets, old: 0..MaxLeases]
ReconcileCalls ==
  {Idle} \cup [pc: {"decide", "release", "released", "signed", "quarantined", "funding-first", "absent"},
               m: Mints, lease: Leases, exists: BOOLEAN]
TypeOK ==
  /\ Inv!TypeOK
  /\ row \in [Mints -> Leases \cup {NoRow}]
  /\ leaseIds \in 0..MaxLeases /\ landed \subseteq Mints
  /\ res \in [Reservers -> ReserveCalls] /\ rec \in [Reconcilers -> ReconcileCalls]

(* A mint that signed is on the lease of the binding that holds its         *)
(* reservation, past the point where reconcile may release it, whatever     *)
(* calls were overtaken or cut off between the two stores.                  *)
SignedIsLeased ==
  \A m \in Mints : sigs[m] # {} =>
    /\ row[m].state \in {"signed-pending", "consumed", "quarantined"}
    /\ holding[row[m].binding] = [id |-> row[m].ref, mint |-> m]

(* A lease marked released has its receipt; a row still being released may  *)
(* already be in stock but belongs to nobody else.                          *)
ReleasedIsProven ==
  \A m \in Mints : row[m].state = "released" =>
    \E q \in receipts : q.ticket = [id |-> row[m].ref, mint |-> m] /\ q.binding = row[m].binding

(* The inductive invariant.  Every reservation id was handed out once, for  *)
(* one mint and one binding, wherever a store or a call in flight keeps it. *)
Claim(t, b) ==
  \/ holding[b] = t
  \/ [ticket |-> t, binding |-> b] \in receipts
  \/ \E r \in Reservers : res[r].pc # "idle" /\ res[r].ticket = t /\ res[r].b = b
  \/ row[t.mint].state # "none" /\ row[t.mint].ref = t.id /\ row[t.mint].binding = b
  \/ \E k \in Reconcilers :
       /\ rec[k].pc # "idle" /\ rec[k].m = t.mint
       /\ rec[k].lease.ref = t.id /\ rec[k].lease.binding = b
OneTicket ==
  \A t \in Inv!Tickets, b \in Bindings : Claim(t, b) =>
    /\ t.id <= tickets
    /\ \A u \in Inv!Tickets, c \in Bindings : Claim(u, c) /\ u.id = t.id => u = t /\ c = b

(* A reserved mint has one holder; a used one keeps its lease.              *)
Used(m) == status[m] \in {"signed", "quarantined"}
Leased ==
  /\ \A b \in Bindings : Inv!Held(b) => status[holding[b].mint] \in {"reserved", "signed", "quarantined"}
  /\ \A b, c \in Bindings : Inv!Held(b) /\ holding[b].mint = holding[c].mint => b = c
  /\ \A m \in Mints :
       /\ sigs[m] # {} => Used(m)
       /\ m \in landed => sigs[m] # {}
       /\ Used(m) => /\ row[m].state \in {"signed-pending", "consumed", "quarantined"}
                     /\ holding[row[m].binding] = [id |-> row[m].ref, mint |-> m]

(* One row per binding, and what a reconcile call read stays true of a row  *)
(* that still has its lease id.                                             *)
CallsTrue ==
  /\ \A m, n \in Mints :
       row[m].state # "none" /\ row[n].state # "none" /\ row[m].binding = row[n].binding => m = n
  /\ \A m \in Mints : row[m].id <= leaseIds
  /\ \A k \in Reconcilers : rec[k].pc # "idle" =>
       LET c == rec[k] IN
         /\ c.lease.id <= leaseIds /\ c.lease.state \in {"reserved", "releasing", "signed-pending"}
         /\ row[c.m].id = c.lease.id =>
              row[c.m].ref = c.lease.ref /\ row[c.m].binding = c.lease.binding
         /\ c.exists => c.m \in landed
         /\ c.pc \in {"signed", "quarantined"} => Used(c.m)
         /\ c.pc = "released" => Receipt(c.lease)
LeaseInv == TypeOK /\ OneTicket /\ Leased /\ CallsTrue /\ ReleasedIsProven

(* The two stores together implement the life of a mint: a row that allows  *)
(* signing holds it, a signature spends it, and anything else is stock.     *)
place ==
  [m \in Mints |->
     IF sigs[m] # {} THEN <<"spent", row[m].binding>>
     ELSE IF row[m].state \in {"reserved", "signed-pending", "quarantined"}
       THEN <<"held", row[m].binding>> ELSE <<"stock">>]
Life == INSTANCE MintLife
LifeSpec == Life!Spec
=============================================================================
