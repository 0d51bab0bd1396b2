-------------------------- MODULE MintLeasesProofs --------------------------
(***************************************************************************)
(* Mint leases implement the life of a mint, for any number of mints,      *)
(* launches and calls in flight: the induction for LeaseInv, what a step   *)
(* can do to a row under it, and the simulation of MintLife, step by step. *)
(***************************************************************************)
EXTENDS MintLeases, WellFoundedInduction, TLAPS

\* Time limits of the provers for every leaf.
USE SMTT(30), ZenonT(20)

-----------------------------------------------------------------------------
(* Types, and the inventory's actions as the leases use them.              *)

\* The fields of rows, tickets and calls.
LEMMA Typed ==
  ASSUME TypeOK
  PROVE  /\ Inv!Mints = Mints
         /\ \A m \in Mints : row[m] \in Leases \/ row[m] = NoRow
         /\ \A m \in Mints : row[m].state # "none" => row[m] \in Leases
         /\ \A l \in Leases : /\ l.state # "none" /\ l.id \in 1 .. MaxLeases
                              /\ l.binding \in Bindings /\ l.ref \in 1 .. MaxTickets
         /\ \A t \in Inv!Tickets : /\ t.mint \in Mints /\ t.id \in 1 .. MaxTickets
                                  /\ t = [id |-> t.id, mint |-> t.mint]
         /\ \A i \in 1 .. MaxTickets, m \in Mints : [id |-> i, mint |-> m] \in Inv!Tickets
         /\ Inv!NoTicket \notin Inv!Tickets
         /\ \A b \in Bindings : holding[b] \in Inv!Tickets \/ holding[b] = Inv!NoTicket
         /\ \A r \in Reservers : res[r].pc # "idle" =>
              res[r].b \in Bindings /\ res[r].ticket \in Inv!Tickets
         /\ \A k \in Reconcilers : rec[k].pc # "idle" => rec[k].m \in Mints /\ rec[k].lease \in Leases
<1>1. Inv!Mints = Mints
  BY Zenon DEF Inv!Mints, Mints
<1>2. /\ \A m \in Mints : row[m] \in Leases \/ row[m] = NoRow
      /\ \A b \in Bindings : holding[b] \in Inv!Tickets \/ holding[b] = Inv!NoTicket
  BY Zenon DEF TypeOK, Inv!TypeOK
<1>3. \A m \in Mints : row[m].state # "none" => row[m] \in Leases
  BY <1>2 DEF NoRow
<1>4. \A l \in Leases : /\ l.state # "none" /\ l.id \in 1 .. MaxLeases
                        /\ l.binding \in Bindings /\ l.ref \in 1 .. MaxTickets
  BY DEF Leases
<1>5. \A t \in Inv!Tickets : /\ t.mint \in Mints /\ t.id \in 1 .. MaxTickets
                            /\ t = [id |-> t.id, mint |-> t.mint]
  BY <1>1 DEF Inv!Tickets
<1>6. \A i \in 1 .. MaxTickets, m \in Mints : [id |-> i, mint |-> m] \in Inv!Tickets
  BY <1>1 DEF Inv!Tickets
<1>7. Inv!NoTicket \notin Inv!Tickets
  BY <1>5, LeaseBounds DEF Inv!NoTicket
<1>8. \A r \in Reservers : res[r].pc # "idle" => res[r].b \in Bindings /\ res[r].ticket \in Inv!Tickets
  <2> SUFFICES ASSUME NEW r \in Reservers, res[r].pc # "idle"
               PROVE  res[r].b \in Bindings /\ res[r].ticket \in Inv!Tickets
    OBVIOUS
  <2>1. res[r] \in ReserveCalls
    BY Zenon DEF TypeOK
  <2> QED BY <2>1 DEF ReserveCalls, Idle
<1>9. \A k \in Reconcilers : rec[k].pc # "idle" => rec[k].m \in Mints /\ rec[k].lease \in Leases
  <2> SUFFICES ASSUME NEW k \in Reconcilers, rec[k].pc # "idle"
               PROVE  rec[k].m \in Mints /\ rec[k].lease \in Leases
    OBVIOUS
  <2>1. rec[k] \in ReconcileCalls
    BY Zenon DEF TypeOK
  <2> QED BY <2>1 DEF ReconcileCalls, Idle
<1> QED BY Zenon, <1>1, <1>2, <1>3, <1>4, <1>5, <1>6, <1>7, <1>8, <1>9

\* The smallest member of a set of numbers is one of its members.
LEMMA LeastMember == ASSUME NEW S \in SUBSET Nat, S # {} PROVE Inv!Min(S) \in S
<1> DEFINE R == OpToRel(<, Nat)
<1>1. IsWellFoundedOn(R, Nat)
  BY Zenon, NatLessThanWellFounded
<1>2. \A y \in Nat, x \in Nat : y < x => <<y, x>> \in R
  BY DEF OpToRel
<1> HIDE DEF R
<1>3. \E x \in S : \A y \in S : ~(<<y, x>> \in R)
  BY Zenon, <1>1, WFMin
<1>p. PICK x \in S : \A y \in S : ~(<<y, x>> \in R)
  BY Zenon, <1>3
<1>4. \A y \in S : x <= y
  <2> TAKE y \in S
  <2>1. x \in Nat /\ y \in Nat
    BY Zenon
  <2>2. ~(y < x)
    BY Zenon, <1>2, <1>p, <2>1
  <2> QED BY <2>1, <2>2
<1> QED BY Zenon, <1>4 DEF Inv!Min

\* reserve takes a mint out of the stock under a new reservation id.
LEMMA ReserveFacts ==
  ASSUME TypeOK, NEW b \in Bindings, Inv!Reserve(b, "plain")
  PROVE  /\ ~Inv!Held(b) /\ tickets < MaxTickets /\ tickets' = tickets + 1
         /\ UNCHANGED <<intentHash, coverage, feeNft, sigs, receipts>>
         /\ \E m \in Mints :
              /\ status[m] \in {"unset", "available"}
              /\ status' = [status EXCEPT ![m] = "reserved"]
              /\ holding' = [holding EXCEPT ![b] = [id |-> tickets + 1, mint |-> m]]
<1> DEFINE C == Inv!Choice("plain")
           S == IF C # {} THEN C
                ELSE IF Fallback /\ "plain" # "covered" /\ Inv!Fresh # {} THEN {Inv!Min(Inv!Fresh)}
                ELSE {}
<1>1. PICK m \in S : /\ status' = [status EXCEPT ![m] = "reserved"]
                     /\ holding' = [holding EXCEPT ![b] = [id |-> tickets + 1, mint |-> m]]
  BY Zenon DEF Inv!Reserve
<1>2. /\ Inv!Available \in SUBSET Nat /\ Inv!Fresh \in SUBSET Nat
      /\ Inv!Available \ Inv!Covered \in SUBSET Nat
  BY LeaseBounds DEF Inv!Available, Inv!Fresh, Inv!Mints
<1>3. C = Inv!FirstOf(Inv!Available \ Inv!Covered, Inv!Available)
  BY DEF Inv!Choice
<1>4. \A x \in C : x \in Inv!Available
  BY <1>2, <1>3, LeastMember DEF Inv!FirstOf
<1>5. m \in Inv!Available \cup Inv!Fresh
  <2> HIDE DEF C
  <2>1. CASE C # {}
    BY <1>4, <2>1
  <2>2. CASE C = {}
    BY <1>2, <2>2, LeastMember
  <2> QED BY <2>1, <2>2
<1>6. m \in Mints /\ status[m] \in {"unset", "available"}
  BY <1>5 DEF Inv!Available, Inv!Fresh, Inv!Mints, Mints, Inv!Unset
<1> QED BY Zenon, <1>1, <1>6 DEF Inv!Reserve

\* importPrivateKeyFile adds a mint that was not in the inventory.
LEMMA ImportFacts ==
  ASSUME TypeOK, Import
  PROVE  /\ UNCHANGED <<sigs, holding, receipts, tickets, intentHash, coverage, feeNft,
                        row, leaseIds, landed, res, rec>>
         /\ \E f \in Mints : status[f] = "unset" /\ status' = [status EXCEPT ![f] = "available"]
<1>1. Inv!Fresh \in SUBSET Nat /\ Inv!Fresh # {}
  BY LeaseBounds DEF Import, Inv!ImportPrivateKeyFile, Inv!Fresh, Inv!Mints
<1>2. Inv!Min(Inv!Fresh) \in Inv!Fresh
  BY Zenon, <1>1, LeastMember
<1>3. Inv!Min(Inv!Fresh) \in Mints /\ status[Inv!Min(Inv!Fresh)] = "unset"
  BY Zenon, <1>2 DEF Inv!Fresh, Inv!Unset, Inv!Mints, Mints
<1> QED BY Zenon, <1>3 DEF Import, Inv!ImportPrivateKeyFile

\* The reservation id a row or a call keeps names the mint it is kept for.
LEMMA HeldTicket ==
  ASSUME LeaseInv, NEW m \in Mints, NEW b \in Bindings, NEW i \in 1 .. MaxTickets,
         Claim([id |-> i, mint |-> m], b)
  PROVE  /\ holding[b].id = i => holding[b] = [id |-> i, mint |-> m]
         /\ \A q \in receipts : q.ticket.id = i => q.ticket = [id |-> i, mint |-> m] /\ q.binding = b
<1> DEFINE t == [id |-> i, mint |-> m]
<1>0. TypeOK /\ OneTicket
  BY Zenon DEF LeaseInv
<1>1. t \in Inv!Tickets /\ t.id = i
  BY Zenon, <1>0, Typed
<1>2. \A u \in Inv!Tickets, c \in Bindings : Claim(u, c) /\ u.id = i => u = t /\ c = b
  BY Zenon, <1>0, <1>1 DEF OneTicket
<1>3. ASSUME holding[b].id = i PROVE holding[b] = t
  <2>1. holding[b] \in Inv!Tickets
    <3>1. Inv!NoTicket.id = 0 /\ i # 0
      BY LeaseBounds DEF Inv!NoTicket
    <3> QED BY Zenon, <1>0, <1>3, <3>1, Typed
  <2>2. Claim(holding[b], b)
    BY Zenon DEF Claim
  <2> QED BY Zenon, <1>2, <1>3, <2>1, <2>2
<1>4. ASSUME NEW q \in receipts, q.ticket.id = i PROVE q.ticket = t /\ q.binding = b
  <2>1. q.ticket \in Inv!Tickets /\ q.binding \in Bindings /\ q = [ticket |-> q.ticket, binding |-> q.binding]
    <3>1. q \in [ticket: Inv!Tickets, binding: Bindings]
      BY Zenon, <1>0 DEF TypeOK, Inv!TypeOK
    <3> QED BY <3>1
  <2>2. Claim(q.ticket, q.binding)
    BY Zenon, <2>1 DEF Claim
  <2> QED BY Zenon, <1>2, <1>4, <2>1, <2>2
<1> QED BY Zenon, <1>3, <1>4

\* A row claims the reservation it names, for its mint and its binding.
LEMMA RowClaims ==
  ASSUME NEW m, row[m].state # "none"
  PROVE  Claim([id |-> row[m].ref, mint |-> m], row[m].binding)
<1> DEFINE t == [id |-> row[m].ref, mint |-> m]
<1>1. t.mint = m /\ t.id = row[m].ref
  OBVIOUS
<1> HIDE DEF t
<1>2. Claim(t, row[m].binding)
  BY Zenon, <1>1 DEF Claim
<1> QED BY Zenon, <1>2 DEF t

\* The signature is journaled, or the key fails to open and is quarantined.
Signs(m, i, x) ==
  \/ /\ sigs' = [sigs EXCEPT ![m] = @ \cup
          {[table |-> "mint", generation |-> 0, message |-> x, intent |-> i]}]
     /\ status' = [status EXCEPT ![m] = "signed"]
     /\ intentHash' = [intentHash EXCEPT ![m] = i]
  \/ /\ status' = [status EXCEPT ![m] = "quarantined"]
     /\ UNCHANGED <<intentHash, sigs>>

\* A signer writes for the mint of its own lease: the reservation id on the row
\* names that mint.
LEMMA SignFacts ==
  ASSUME LeaseInv, NEW m \in Mints, NEW i \in AssetIntents, NEW x \in Messages, Sign(m, i, x)
  PROVE  /\ row[m].state = "signed-pending" /\ row[m] \in Leases
         /\ holding[row[m].binding] = [id |-> row[m].ref, mint |-> m]
         /\ UNCHANGED <<coverage, feeNft, holding, receipts, tickets, row, leaseIds, landed, res, rec>>
         /\ Signs(m, i, x)
<1> DEFINE b == row[m].binding
<1>1. row[m].state = "signed-pending" /\ holding[b].id = row[m].ref
  BY DEF Sign
<1>2. row[m] \in Leases
  BY <1>1 DEF LeaseInv, TypeOK, NoRow
<1>3. b \in Bindings /\ row[m].ref \in 1 .. MaxTickets
  BY <1>2 DEF Leases
<1> DEFINE t == [id |-> row[m].ref, mint |-> m]
<1>5. Claim(t, b)
  <2>1. row[m].state # "none"
    BY <1>1
  <2> QED BY Zenon, <2>1, RowClaims
<1>7. holding[b] = t
  <2> HIDE DEF b
  <2> QED BY <1>1, <1>3, <1>5, HeldTicket
<1>8. Inv!SignAndKeep(m, "mint", 0, x, i)
  <2>1. t.mint = m
    OBVIOUS
  <2> QED BY Zenon, <1>7, <2>1 DEF Sign, Inv!AssetMintSigner
<1> QED BY Zenon, <1>1, <1>2, <1>7, <1>8 DEF Sign, Signs, Inv!SignAndKeep

\* A release through reconcile: the reservation goes, its mint is in stock again.
LEMMA ReleaseFacts ==
  ASSUME TypeOK, NEW b \in Bindings, NEW e, Inv!ReleaseUnsignedReservation(b, e)
  PROVE  /\ Inv!Held(b) /\ holding[b] \in Inv!Tickets /\ status[holding[b].mint] = "reserved"
         /\ status' = [status EXCEPT ![holding[b].mint] = "available"]
         /\ receipts' = receipts \cup {[ticket |-> holding[b], binding |-> b]}
         /\ holding' = [holding EXCEPT ![b] = Inv!NoTicket]
         /\ UNCHANGED <<intentHash, coverage, feeNft, sigs, tickets>>
<1>1. holding[b] \in Inv!Tickets
  BY Zenon, Typed DEF Inv!ReleaseUnsignedReservation, Inv!Held
<1> QED BY Zenon, <1>1 DEF Inv!ReleaseUnsignedReservation, Inv!Releasable
-----------------------------------------------------------------------------
(* What a step does to a row, to the inventory and to a call.              *)

States == {"reserved", "releasing", "signed-pending", "consumed", "quarantined", "released"}

\* The lease ended by a release whose receipt the inventory keeps.
Proven(m) ==
  \E q \in receipts : q.ticket = [id |-> row[m].ref, mint |-> m] /\ q.binding = row[m].binding

\* `transition` and the direct state changes: the lease keeps its id, reservation and binding.
Move(m) ==
  /\ leaseIds' = leaseIds /\ row[m] \in Leases /\ row'[m] \in Leases
  /\ row'[m].id = row[m].id /\ row'[m].ref = row[m].ref /\ row'[m].binding = row[m].binding
  /\ \/ row[m].state = "reserved" /\ row'[m].state \in {"signed-pending", "releasing"}
     \/ row[m].state = "signed-pending" /\ row'[m].state = "consumed" /\ m \in landed
     \/ row[m].state \in {"reserved", "releasing", "signed-pending"} /\ row'[m].state = "quarantined"
     \/ row[m].state = "releasing" /\ row'[m].state = "released" /\ Proven(m)

\* The write of `reserve`: a new lease, for the reservation its call took.
Written(m) ==
  /\ leaseIds' = leaseIds + 1 /\ row[m].state \in {"none", "released"}
  /\ row'[m] \in Leases /\ row'[m].state = "reserved" /\ row'[m].id = leaseIds'
  /\ ByBinding(row'[m].binding) = {}
  /\ \E r \in Reservers : /\ res[r].pc # "idle" /\ res[r].b = row'[m].binding
                          /\ res[r].ticket = [id |-> row'[m].ref, mint |-> m]

\* Writing the state of a lease leaves the rest of the table alone.
LEMMA StateWritten ==
  ASSUME TypeOK, NEW m \in Mints, NEW s \in States, row[m] \in Leases,
         row' = [row EXCEPT ![m].state = s]
  PROVE  /\ row' \in [Mints -> Leases \cup {NoRow}]
         /\ row'[m] \in Leases /\ row'[m].state = s
         /\ row'[m].id = row[m].id /\ row'[m].ref = row[m].ref /\ row'[m].binding = row[m].binding
         /\ \A n \in Mints \ {m} : row'[n] = row[n]
<1> DEFINE l == [row[m] EXCEPT !.state = s]
<1>1. row \in [Mints -> Leases \cup {NoRow}]
  BY Zenon DEF TypeOK
<1>2. /\ l \in Leases /\ l.state = s
      /\ l.id = row[m].id /\ l.ref = row[m].ref /\ l.binding = row[m].binding
  BY DEF Leases, States
<1> HIDE DEF l
<1>3. row' = [row EXCEPT ![m] = l]
  BY DEF l
<1>4. row'[m] = l /\ \A n \in Mints \ {m} : row'[n] = row[n]
  BY Zenon, <1>1, <1>3
<1>5. row' \in [Mints -> Leases \cup {NoRow}]
  BY <1>1, <1>2, <1>3
<1> QED BY Zenon, <1>2, <1>4, <1>5

\* The compare-and-set: the row is as it was, or it was the lease the caller read.
LEMMA Transitioned ==
  ASSUME TypeOK, NEW m \in Mints, NEW id, NEW from \in States, NEW to \in States,
         Transition(m, id, from, to)
  PROVE  \/ UNCHANGED row
         \/ /\ row[m] \in Leases /\ row[m].id = id /\ row[m].state = from
            /\ row' \in [Mints -> Leases \cup {NoRow}]
            /\ row'[m] \in Leases /\ row'[m].state = to
            /\ row'[m].id = row[m].id /\ row'[m].ref = row[m].ref /\ row'[m].binding = row[m].binding
            /\ \A n \in Mints \ {m} : row'[n] = row[n]
<1>1. CASE ~Current(m, id, from)
  BY Zenon, <1>1 DEF Transition
<1>2. CASE Current(m, id, from)
  <2>1. row[m].id = id /\ row[m].state = from /\ row' = [row EXCEPT ![m].state = to]
    BY Zenon, <1>2 DEF Transition, Current
  <2>2. from # "none"
    BY DEF States
  <2>3. row[m] \in Leases
    BY Zenon, <2>1, <2>2, Typed
  <2> QED BY Zenon, <2>1, <2>3, StateWritten
<1> QED BY Zenon, <1>1, <1>2

\* What any step does to the rows: nothing, one move, or one new lease.
RowStep(m) ==
  /\ row' \in [Mints -> Leases \cup {NoRow}]
  /\ \A n \in Mints \ {m} : row'[n] = row[n]
  /\ Move(m) \/ Written(m)
  /\ UNCHANGED <<inventory, landed>>

\* reserve writes over a missing or a released row only.
LEMMA WriteStep ==
  ASSUME LeaseInv, NEW r \in Reservers, ReserveWrite(r)
  PROVE  UNCHANGED <<row, leaseIds>> \/ \E m \in Mints : RowStep(m)
<1> DEFINE c == res[r]
           m == c.ticket.mint
           l == [state |-> "reserved", id |-> leaseIds + 1, binding |-> c.b,
                 ref |-> c.ticket.id, digest |-> FALSE]
<1>t. TypeOK
  BY Zenon DEF LeaseInv
<1>0. res[r].pc # "idle" /\ leaseIds < MaxLeases /\ UNCHANGED <<inventory, landed>>
  BY DEF ReserveWrite
<1>1. c.b \in Bindings /\ c.ticket \in Inv!Tickets
  BY Zenon, <1>t, <1>0, Typed
<1>2. m \in Mints /\ c.ticket.id \in 1 .. MaxTickets /\ c.ticket = [id |-> c.ticket.id, mint |-> m]
  BY Zenon, <1>t, <1>1, Typed
<1>3. CASE ~Writable(m, c.b, c.old)
  BY Zenon, <1>3 DEF ReserveWrite
<1>4. CASE Writable(m, c.b, c.old)
  <2>1. row' = [row EXCEPT ![m] = l] /\ leaseIds' = leaseIds + 1
    BY Zenon, <1>4 DEF ReserveWrite
  <2>2. row[m].state \in {"none", "released"} /\ ByBinding(c.b) = {}
    BY Zenon, <1>4 DEF Writable
  <2>3. row \in [Mints -> Leases \cup {NoRow}] /\ leaseIds \in 0 .. MaxLeases
    BY Zenon, <1>t DEF TypeOK
  <2>4. /\ l \in Leases /\ l.state = "reserved" /\ l.id = leaseIds + 1
        /\ l.binding = c.b /\ l.ref = c.ticket.id
    BY <1>0, <1>1, <1>2, <2>3, LeaseBounds DEF Leases
  <2> HIDE DEF l
  <2>5. row'[m] = l /\ \A n \in Mints \ {m} : row'[n] = row[n]
    BY Zenon, <1>2, <2>1, <2>3
  <2>6. row' \in [Mints -> Leases \cup {NoRow}]
    BY Zenon, <2>1, <2>3, <2>4
  <2>7. Written(m)
    BY Zenon, <1>0, <1>2, <2>1, <2>2, <2>4, <2>5 DEF Written
  <2> QED BY Zenon, <1>0, <1>2, <2>5, <2>6, <2>7 DEF RowStep
<1> QED BY Zenon, <1>3, <1>4

\* reconcile writes what the chain or the inventory told it, on the lease it read.
LEMMA ReconcileRow ==
  ASSUME LeaseInv, NEW k \in Reconcilers, Reconcile(k)
  PROVE  UNCHANGED <<row, leaseIds>> \/ \E m \in Mints : RowStep(m)
<1> DEFINE c == rec[k]
           l == c.lease
<1>t. TypeOK /\ Leased /\ CallsTrue
  BY Zenon DEF LeaseInv
<1>c. ASSUME c.pc # "idle"
      PROVE  /\ c.m \in Mints /\ l \in Leases
             /\ l.state \in {"reserved", "releasing", "signed-pending"}
             /\ row[c.m].id = l.id => row[c.m].ref = l.ref /\ row[c.m].binding = l.binding
             /\ c.exists => c.m \in landed
             /\ c.pc \in {"signed", "quarantined"} => Used(c.m)
             /\ c.pc = "released" => Receipt(l)
  BY Zenon, <1>t, <1>c, Typed DEF CallsTrue
<1>s. ASSUME NEW m \in Mints, NEW id, NEW from \in States, NEW to \in States,
             Transition(m, id, from, to), UNCHANGED <<inventory, leaseIds, landed>>,
             row[m].id = id /\ row[m].state = from =>
               \/ from = "reserved" /\ to \in {"signed-pending", "releasing"}
               \/ from = "signed-pending" /\ to = "consumed" /\ m \in landed
               \/ from \in {"reserved", "releasing", "signed-pending"} /\ to = "quarantined"
               \/ from = "releasing" /\ to = "released" /\ Proven(m)
      PROVE  UNCHANGED <<row, leaseIds>> \/ \E n \in Mints : RowStep(n)
  <2>1. CASE UNCHANGED row
    BY Zenon, <1>s, <2>1
  <2>2. CASE ~UNCHANGED row
    <3>1. /\ row[m] \in Leases /\ row[m].id = id /\ row[m].state = from
          /\ row' \in [Mints -> Leases \cup {NoRow}]
          /\ row'[m] \in Leases /\ row'[m].state = to
          /\ row'[m].id = row[m].id /\ row'[m].ref = row[m].ref /\ row'[m].binding = row[m].binding
          /\ \A n \in Mints \ {m} : row'[n] = row[n]
      BY Zenon, <1>t, <1>s, <2>2, Transitioned
    <3>2. Move(m)
      BY Zenon, <1>s, <3>1 DEF Move
    <3> QED BY Zenon, <1>s, <3>1, <3>2 DEF RowStep
  <2> QED BY Zenon, <2>1, <2>2
<1>u. ASSUME NEW m \in Mints, Used(m) \/ m \in landed
      PROVE  row[m].state \in {"signed-pending", "consumed", "quarantined"}
  BY Zenon, <1>t, <1>u DEF Leased
<1>1. ASSUME NEW m \in Mints, ReconcileRead(k, m) PROVE UNCHANGED <<row, leaseIds>>
  BY Zenon, <1>1 DEF ReconcileRead
<1>2. ASSUME ReconcileRelease(k) PROVE UNCHANGED <<row, leaseIds>>
  BY Zenon, <1>2 DEF ReconcileRelease
<1>3. ASSUME ReconcileDecide(k) PROVE UNCHANGED <<row, leaseIds>> \/ \E m \in Mints : RowStep(m)
  <2>0. c.pc # "idle" /\ UNCHANGED <<inventory, leaseIds, landed>>
    BY <1>3 DEF ReconcileDecide
  <2>1. CASE l.state = "signed-pending" /\ c.exists /\ Transition(c.m, l.id, l.state, "consumed")
    BY Zenon, <1>c, <1>s, <2>0, <2>1 DEF States
  <2>2. CASE l.state # "signed-pending" /\ c.exists /\ Transition(c.m, l.id, l.state, "quarantined")
    <3>1. l.state \in {"reserved", "releasing"}
      BY Zenon, <1>c, <2>0, <2>2
    <3>2. row[c.m].state \in {"signed-pending", "consumed", "quarantined"}
      BY Zenon, <1>c, <1>u, <2>0, <2>2
    <3>3. l.state \in States /\ row[c.m].state # l.state
      BY <3>1, <3>2 DEF States
    <3> QED BY Zenon, <1>c, <1>s, <2>0, <2>2, <3>3 DEF States
  <2>3. CASE Transition(c.m, l.id, "reserved", "releasing")
    BY Zenon, <1>c, <1>s, <2>0, <2>3 DEF States
  <2> QED BY Zenon, <1>3, <2>0, <2>1, <2>2, <2>3 DEF ReconcileDecide
<1>4. ASSUME ReconcileWrite(k) PROVE UNCHANGED <<row, leaseIds>> \/ \E m \in Mints : RowStep(m)
  <2>0. c.pc # "idle" /\ UNCHANGED <<inventory, leaseIds, landed>>
    BY <1>4 DEF ReconcileWrite
  <2>u. ASSUME c.pc \in {"signed", "quarantined"} PROVE row[c.m].state # "releasing"
    <3>1. row[c.m].state \in {"signed-pending", "consumed", "quarantined"}
      BY Zenon, <1>c, <1>u, <2>0, <2>u
    <3> QED BY <3>1
  <2>1. CASE c.pc = "released" /\ Transition(c.m, l.id, "releasing", "released")
    <3>1. ASSUME row[c.m].id = l.id, row[c.m].state = "releasing" PROVE Proven(c.m)
      <4>1. PICK q \in receipts : q.ticket.id = l.ref /\ q.binding = l.binding
        BY Zenon, <1>c, <2>0, <2>1 DEF Receipt
      <4>2. row[c.m].ref = l.ref /\ row[c.m].binding = l.binding
        BY Zenon, <1>c, <2>0, <3>1
      <4>3. row[c.m].state # "none"
        BY <3>1
      <4>4. row[c.m].ref \in 1 .. MaxTickets /\ row[c.m].binding \in Bindings
        BY Zenon, <1>t, <1>c, <2>0, <4>3, Typed
      <4>5. Claim([id |-> row[c.m].ref, mint |-> c.m], row[c.m].binding)
        BY Zenon, <4>3, RowClaims
      <4> DEFINE i == row[c.m].ref
                 b == row[c.m].binding
      <4> HIDE DEF i, b, c
      <4>6. q.ticket = [id |-> i, mint |-> c.m] /\ q.binding = b
        <5>1. c.m \in Mints /\ i \in 1 .. MaxTickets /\ b \in Bindings /\ q.ticket.id = i
          BY Zenon, <1>c, <2>0, <4>1, <4>2, <4>4 DEF i, b
        <5>2. Claim([id |-> i, mint |-> c.m], b)
          BY Zenon, <4>5 DEF i, b
        <5> QED BY <5>1, <5>2, HeldTicket
      <4> QED BY Zenon, <4>6 DEF Proven, i, b
    <3> QED BY Zenon, <1>c, <1>s, <2>0, <2>1, <3>1 DEF States
  <2>2. CASE c.pc = "signed" /\ Transition(c.m, l.id, "releasing", "signed-pending")
    BY Zenon, <1>c, <1>s, <2>0, <2>2, <2>u DEF States
  <2>3. CASE c.pc = "quarantined" /\ Transition(c.m, l.id, "releasing", "quarantined")
    BY Zenon, <1>c, <1>s, <2>0, <2>3, <2>u DEF States
  <2> QED BY <1>4, <2>0, <2>1, <2>2, <2>3 DEF ReconcileWrite
<1> QED BY Zenon, <1>1, <1>2, <1>3, <1>4 DEF Reconcile

\* What any step does to the rows: nothing, one move, or one new lease.
LEMMA RowSteps ==
  ASSUME LeaseInv, [Next]_vars
  PROVE  UNCHANGED <<row, leaseIds>> \/ \E m \in Mints : RowStep(m)
<1>t. TypeOK
  BY Zenon DEF LeaseInv
<1>1. ASSUME NEW r \in Reservers, ReserveWrite(r)
      PROVE  UNCHANGED <<row, leaseIds>> \/ \E m \in Mints : RowStep(m)
  BY Zenon, <1>1, WriteStep
<1>2. ASSUME NEW k \in Reconcilers, Reconcile(k)
      PROVE  UNCHANGED <<row, leaseIds>> \/ \E m \in Mints : RowStep(m)
  BY Zenon, <1>2, ReconcileRow
<1>3. ASSUME NEW m \in Mints, RecordSigningIntent(m) PROVE RowStep(m)
  <2> DEFINE l == [row[m] EXCEPT !.state = "signed-pending", !.digest = TRUE]
  <2>1. row[m].state = "reserved" /\ row' = [row EXCEPT ![m] = l]
    BY Zenon, <1>3 DEF RecordSigningIntent
  <2>2. row[m] \in Leases
    <3>1. row[m].state # "none"
      BY <2>1
    <3> QED BY Zenon, <1>t, <3>1, Typed
  <2>3. /\ l \in Leases /\ l.state = "signed-pending"
        /\ l.id = row[m].id /\ l.ref = row[m].ref /\ l.binding = row[m].binding
    BY Zenon, <2>2 DEF Leases
  <2> HIDE DEF l
  <2>4. row \in [Mints -> Leases \cup {NoRow}]
    BY Zenon, <1>t DEF TypeOK
  <2>5. row'[m] = l /\ \A n \in Mints \ {m} : row'[n] = row[n]
    BY Zenon, <2>1, <2>4
  <2>6. row' \in [Mints -> Leases \cup {NoRow}]
    BY <2>1, <2>3, <2>4
  <2> QED BY Zenon, <1>3, <2>1, <2>2, <2>3, <2>5, <2>6 DEF RowStep, Move, RecordSigningIntent
<1>4. ASSUME NEW m \in Mints, MarkConsumed(m) PROVE RowStep(m)
  <2>1. row[m].state = "signed-pending" /\ m \in landed /\ row' = [row EXCEPT ![m].state = "consumed"]
    BY Zenon, <1>4 DEF MarkConsumed
  <2>2. row[m].state # "none" /\ "consumed" \in States
    BY <2>1 DEF States
  <2>3. row[m] \in Leases
    BY Zenon, <1>t, <2>2, Typed
  <2> QED BY Zenon, <1>t, <1>4, <2>1, <2>2, <2>3, StateWritten DEF RowStep, Move, MarkConsumed
<1>5. ASSUME NEW m \in Mints, Quarantine(m) PROVE RowStep(m)
  <2>1. /\ row[m].state \in {"reserved", "releasing", "signed-pending"}
        /\ row' = [row EXCEPT ![m].state = "quarantined"]
    BY Zenon, <1>5 DEF Quarantine
  <2>2. row[m].state # "none" /\ "quarantined" \in States
    BY <2>1 DEF States
  <2>3. row[m] \in Leases
    BY Zenon, <1>t, <2>2, Typed
  <2> QED BY Zenon, <1>t, <1>5, <2>1, <2>2, <2>3, StateWritten DEF RowStep, Move, Quarantine
<1> QED
  BY Zenon, <1>1, <1>2, <1>3, <1>4, <1>5
  DEF Next, vars, Import, ReserveInventory, ReserveRead, Land, Sign, BindCampaign, Stop

\* The four ways a step changes the inventory: a key joins the stock, `reserve`
\* takes one, the lease's signer uses it, or reconcile releases it.
Imported == /\ UNCHANGED <<sigs, holding, receipts, tickets>>
            /\ \E f \in Mints : status[f] = "unset" /\ status' = [status EXCEPT ![f] = "available"]
Taken(b) == /\ ~Inv!Held(b) /\ tickets < MaxTickets /\ tickets' = tickets + 1
            /\ UNCHANGED <<sigs, receipts>>
            /\ \E m \in Mints :
                 /\ status[m] \in {"unset", "available"}
                 /\ status' = [status EXCEPT ![m] = "reserved"]
                 /\ holding' = [holding EXCEPT ![b] = [id |-> tickets + 1, mint |-> m]]
Signed(m) == /\ row[m].state = "signed-pending" /\ row[m] \in Leases
             /\ holding[row[m].binding] = [id |-> row[m].ref, mint |-> m]
             /\ UNCHANGED <<holding, receipts, tickets>>
             /\ \E st \in {"signed", "quarantined"} : status' = [status EXCEPT ![m] = st]
             /\ \A n \in Mints \ {m} : sigs'[n] = sigs[n]
             /\ sigs[m] # {} => sigs'[m] # {}
Freed(b) == /\ Inv!Held(b) /\ holding[b] \in Inv!Tickets /\ status[holding[b].mint] = "reserved"
            /\ status' = [status EXCEPT ![holding[b].mint] = "available"]
            /\ receipts' = receipts \cup {[ticket |-> holding[b], binding |-> b]}
            /\ holding' = [holding EXCEPT ![b] = Inv!NoTicket]
            /\ UNCHANGED <<sigs, tickets>>
InventoryStep ==
  /\ UNCHANGED <<row, leaseIds, landed>>
  /\ \/ Imported
     \/ \E b \in Bindings : Taken(b) \/ Freed(b)
     \/ \E m \in Mints : Signed(m)

\* What any step does to the inventory.
LEMMA InventorySteps ==
  ASSUME LeaseInv, [Next]_vars
  PROVE  UNCHANGED <<status, sigs, holding, receipts, tickets>> \/ InventoryStep
<1>t. TypeOK
  BY Zenon DEF LeaseInv
<1>1. ASSUME Import PROVE InventoryStep
  BY Zenon, <1>t, <1>1, ImportFacts DEF InventoryStep, Imported
<1>2. ASSUME NEW r \in Reservers, NEW b \in Bindings, ReserveInventory(r, b)
      PROVE  UNCHANGED <<status, sigs, holding, receipts, tickets>> \/ InventoryStep
  <2>1. CASE Inv!Reserve(b, "plain")
    BY Zenon, <1>t, <1>2, <2>1, ReserveFacts DEF InventoryStep, Taken, ReserveInventory
  <2>2. CASE UNCHANGED inventory
    BY Zenon, <2>2 DEF inventory
  <2> QED BY Zenon, <1>2, <2>1, <2>2 DEF ReserveInventory
<1>3. ASSUME NEW m \in Mints, NEW i \in AssetIntents, NEW x \in Messages, Sign(m, i, x)
      PROVE  InventoryStep
  <2>1. /\ row[m].state = "signed-pending" /\ row[m] \in Leases
        /\ holding[row[m].binding] = [id |-> row[m].ref, mint |-> m]
        /\ UNCHANGED <<holding, receipts, tickets, row, leaseIds, landed>>
    BY Zenon, <1>3, SignFacts
  <2>0. Signs(m, i, x)
    BY Zenon, <1>3, SignFacts
  <2>2. \E st \in {"signed", "quarantined"} : status' = [status EXCEPT ![m] = st]
    BY Zenon, <2>0 DEF Signs
  <2>3. \A n \in Mints : (n # m => sigs'[n] = sigs[n]) /\ (sigs[n] # {} => sigs'[n] # {})
    <3>1. sigs \in [Mints -> SUBSET Inv!Signatures]
      BY Zenon, <1>t DEF TypeOK, Inv!TypeOK, Inv!Mints, Mints
    <3>2. \E S : sigs' = [sigs EXCEPT ![m] = sigs[m] \cup S]
      <4>1. CASE UNCHANGED sigs
        BY <3>1, <4>1
      <4>2. CASE sigs' = [sigs EXCEPT ![m] = @ \cup
                   {[table |-> "mint", generation |-> 0, message |-> x, intent |-> i]}]
        BY Zenon, <4>2
      <4> QED BY Zenon, <2>0, <4>1, <4>2 DEF Signs
    <3> QED BY <3>1, <3>2
  <2>4. Signed(m)
    BY Zenon, <2>1, <2>2, <2>3 DEF Signed
  <2> QED BY Zenon, <2>1, <2>4 DEF InventoryStep
<1>4. ASSUME NEW k \in Reconcilers, ReconcileRelease(k)
      PROVE  UNCHANGED <<status, sigs, holding, receipts, tickets>> \/ InventoryStep
  <2> DEFINE l == rec[k].lease
  <2>0. UNCHANGED <<row, leaseIds, landed>>
    BY Zenon, <1>4 DEF ReconcileRelease
  <2>1. CASE Inv!ReleaseUnsignedReservation(l.binding, l.ref)
    <3>1. rec[k].pc # "idle"
      BY <1>4 DEF ReconcileRelease
    <3>2. l.binding \in Bindings
      BY Zenon, <1>t, <3>1, Typed
    <3>3. Freed(l.binding)
      BY Zenon, <1>t, <2>1, <3>2, ReleaseFacts DEF Freed
    <3> QED BY Zenon, <2>0, <3>2, <3>3 DEF InventoryStep
  <2>2. CASE UNCHANGED inventory
    BY Zenon, <2>2 DEF inventory
  <2> QED BY Zenon, <1>4, <2>1, <2>2 DEF ReconcileRelease
<1>5. ASSUME NEW m \in Mints, NEW c \in Scopes, BindCampaign(m, c)
      PROVE  UNCHANGED <<status, sigs, holding, receipts, tickets>>
  BY Zenon, <1>5 DEF BindCampaign, Inv!ReserveFundingFirstKeys
<1>6. CASE UNCHANGED inventory
  BY Zenon, <1>6 DEF inventory
<1> QED
  BY Zenon, <1>1, <1>2, <1>3, <1>4, <1>5, <1>6
  DEF Next, vars, ReserveRead, ReserveWrite, RecordSigningIntent, Land, MarkConsumed, Quarantine,
      Reconcile, ReconcileRead, ReconcileDecide, ReconcileWrite, Stop

\* A call of `reserve` goes on with the reservation it took, or has just taken
\* the one its binding now holds.
LEMMA ReserveSteps ==
  ASSUME LeaseInv, [Next]_vars, NEW r \in Reservers, res'[r].pc # "idle"
  PROVE  \/ res[r].pc # "idle" /\ res'[r].b = res[r].b /\ res'[r].ticket = res[r].ticket
         \/ res'[r].b \in Bindings /\ res'[r].ticket = holding'[res'[r].b]
<1>t. res \in [Reservers -> ReserveCalls]
  BY Zenon DEF LeaseInv, TypeOK
<1>i. Idle.pc = "idle"
  BY DEF Idle
<1>1. ASSUME NEW q \in Reservers, NEW b \in Bindings, ReserveInventory(q, b)
      PROVE  res'[r] = res[r] \/ (res'[r].b = b /\ res'[r].ticket = holding'[b])
  <2>1. res' = [res EXCEPT ![q] = [pc |-> "byMint", b |-> b, ticket |-> holding'[b]]]
    BY Zenon, <1>1 DEF ReserveInventory
  <2> QED BY <1>t, <2>1
<1>2. ASSUME NEW q \in Reservers, ReserveRead(q)
      PROVE  \/ res'[r] = res[r] \/ res'[r] = Idle
             \/ res[r].pc # "idle" /\ res'[r].b = res[r].b /\ res'[r].ticket = res[r].ticket
  <2> DEFINE old == row[res[q].ticket.mint]
  <2>1. res[q].pc = "byMint" /\ \E c \in {Idle, [pc |-> "write", b |-> res[q].b, ticket |-> res[q].ticket, old |-> old.id]} :
          res' = [res EXCEPT ![q] = c]
    BY Zenon, <1>2 DEF ReserveRead
  <2> QED BY <1>t, <2>1
<1>3. ASSUME NEW q \in Reservers, res' = [res EXCEPT ![q] = Idle]
      PROVE  res'[r] = res[r] \/ res'[r] = Idle
  BY Zenon, <1>t, <1>3
<1>4. CASE UNCHANGED res
  BY Zenon, <1>4
<1> QED
  BY Zenon, <1>i, <1>1, <1>2, <1>3, <1>4
  DEF Next, vars, Import, ReserveWrite, RecordSigningIntent, Land, MarkConsumed, Quarantine,
      Sign, BindCampaign, Reconcile, ReconcileRead, ReconcileDecide, ReconcileRelease,
      ReconcileWrite, Stop

\* A reconcile call reads an open lease, then only moves on with what it read;
\* the inventory answers it once.
LEMMA ReconcileSteps ==
  ASSUME LeaseInv, [Next]_vars, NEW k \in Reconcilers, rec'[k].pc # "idle"
  PROVE  \/ rec'[k] = rec[k]
         \/ \E m \in Mints :
              /\ row[m].state \in {"reserved", "releasing", "signed-pending"}
              /\ rec'[k] = [pc |-> "decide", m |-> m, lease |-> row[m], exists |-> m \in landed]
              /\ UNCHANGED <<inventory, row, leaseIds, landed>>
         \/ /\ rec[k].pc # "idle"
            /\ rec'[k].m = rec[k].m /\ rec'[k].lease = rec[k].lease /\ rec'[k].exists = rec[k].exists
            /\ rec'[k].pc = "release" \/ (ReconcileRelease(k) /\ rec'[k].pc = Answer(rec[k].lease))
<1>t. rec \in [Reconcilers -> ReconcileCalls]
  BY Zenon DEF LeaseInv, TypeOK
<1>i. Idle.pc = "idle"
  BY DEF Idle
<1>g. ASSUME NEW j \in Reconcilers, rec[j].pc # "idle", NEW p, rec' = [rec EXCEPT ![j].pc = p]
      PROVE  \/ rec'[k] = rec[k]
             \/ /\ j = k /\ rec[k].pc # "idle" /\ rec'[k].pc = p /\ rec'[k].m = rec[k].m
                /\ rec'[k].lease = rec[k].lease /\ rec'[k].exists = rec[k].exists
  <2>1. CASE j # k
    BY <1>t, <1>g, <2>1
  <2>2. CASE j = k
    <3>1. rec[k] \in [pc: {"decide", "release", "released", "signed", "quarantined", "funding-first", "absent"},
                      m: Mints, lease: Leases, exists: BOOLEAN]
      BY <1>t, <1>g, <2>2 DEF ReconcileCalls, Idle
    <3>2. rec'[k] = [rec[k] EXCEPT !.pc = p]
      BY <1>t, <1>g, <2>2
    <3> QED BY <1>g, <2>2, <3>1, <3>2
  <2> QED BY Zenon, <2>1, <2>2
<1>1. ASSUME NEW j \in Reconcilers, NEW m \in Mints, ReconcileRead(j, m)
      PROVE  \/ rec'[k] = rec[k]
             \/ /\ row[m].state \in {"reserved", "releasing", "signed-pending"}
                /\ rec'[k] = [pc |-> "decide", m |-> m, lease |-> row[m], exists |-> m \in landed]
                /\ UNCHANGED <<inventory, row, leaseIds, landed>>
  BY Zenon, <1>t, <1>1 DEF ReconcileRead
<1>2. ASSUME NEW j \in Reconcilers, ReconcileDecide(j)
      PROVE  \/ rec'[k] = rec[k] \/ rec'[k] = Idle
             \/ /\ rec[k].pc # "idle" /\ rec'[k].pc = "release" /\ rec'[k].m = rec[k].m
                /\ rec'[k].lease = rec[k].lease /\ rec'[k].exists = rec[k].exists
  <2>1. rec[j].pc # "idle"
    BY <1>2 DEF ReconcileDecide
  <2>2. rec' = [rec EXCEPT ![j] = Idle] \/ rec' = [rec EXCEPT ![j].pc = "release"]
    BY <1>2 DEF ReconcileDecide
  <2> QED BY Zenon, <1>t, <1>g, <2>1, <2>2
<1>3. ASSUME NEW j \in Reconcilers, ReconcileRelease(j)
      PROVE  \/ rec'[k] = rec[k]
             \/ /\ rec[k].pc # "idle" /\ ReconcileRelease(k) /\ rec'[k].pc = Answer(rec[k].lease)
                /\ rec'[k].m = rec[k].m
                /\ rec'[k].lease = rec[k].lease /\ rec'[k].exists = rec[k].exists
  <2>1. rec[j].pc # "idle" /\ rec' = [rec EXCEPT ![j].pc = Answer(rec[j].lease)]
    BY <1>3 DEF ReconcileRelease
  <2> QED BY Zenon, <1>g, <1>3, <2>1
<1>4. ASSUME NEW j \in Reconcilers, rec' = [rec EXCEPT ![j] = Idle]
      PROVE  rec'[k] = rec[k] \/ rec'[k] = Idle
  BY Zenon, <1>t, <1>4
<1>5. CASE UNCHANGED rec
  BY Zenon, <1>5
<1>6. ASSUME Next PROVE \/ UNCHANGED rec
                        \/ \E j \in Reconcilers : \/ \E m \in Mints : ReconcileRead(j, m)
                                                  \/ ReconcileDecide(j) \/ ReconcileRelease(j)
                                                  \/ rec' = [rec EXCEPT ![j] = Idle]
  BY Zenon, <1>6
  DEF Next, Import, ReserveInventory, ReserveRead, ReserveWrite, RecordSigningIntent, Land,
      MarkConsumed, Quarantine, Sign, BindCampaign, Reconcile, ReconcileWrite, Stop
<1> QED BY Zenon, <1>i, <1>1, <1>2, <1>3, <1>4, <1>5, <1>6 DEF vars
-----------------------------------------------------------------------------
(* The induction.                                                          *)

\* The inventory's tables keep their types.
LEMMA InventoryTypes ==
  ASSUME LeaseInv, [Next]_vars
  PROVE  Inv!TypeOK'
<1> DEFINE St == {Inv!Unset, "available", "reserved", "signed", "quarantined"}
<1>t. TypeOK
  BY Zenon DEF LeaseInv
<1>m. /\ status \in [Mints -> St] /\ intentHash \in [Mints -> Inv!Intents \cup {Inv!Unset}]
      /\ coverage \in [Mints -> 0 .. 2] /\ feeNft \in [Mints -> Scopes \cup {Inv!Unset}]
      /\ sigs \in [Mints -> SUBSET Inv!Signatures]
      /\ holding \in [Bindings -> Inv!Tickets \cup {Inv!NoTicket}]
      /\ receipts \subseteq [ticket: Inv!Tickets, binding: Bindings] /\ tickets \in 0 .. MaxTickets
  BY Zenon, <1>t DEF TypeOK, Inv!TypeOK, Inv!Mints, Mints
<1>g. ASSUME NEW m \in Mints, NEW st \in St PROVE [status EXCEPT ![m] = st] \in [Mints -> St]
  BY Zenon, <1>m
<1>1. status' \in [Mints -> St] /\ tickets' \in 0 .. MaxTickets
  <2> HIDE DEF St
  <2>s. {"available", "reserved", "signed", "quarantined"} \subseteq St
    BY DEF St
  <2>1. CASE UNCHANGED <<status, tickets>>
    BY Zenon, <1>m, <2>1
  <2>2. CASE Imported
    BY Zenon, <1>m, <1>g, <2>s, <2>2 DEF Imported
  <2>3. ASSUME NEW b \in Bindings, Taken(b) PROVE status' \in [Mints -> St] /\ tickets' \in 0 .. MaxTickets
    <3>1. status' \in [Mints -> St]
      <4>1. PICK m \in Mints : status' = [status EXCEPT ![m] = "reserved"]
        BY Zenon, <2>3 DEF Taken
      <4> QED BY Zenon, <1>g, <2>s, <4>1
    <3>2. tickets' = tickets + 1 /\ tickets < MaxTickets /\ tickets \in 0 .. MaxTickets
      BY Zenon, <1>m, <2>3 DEF Taken
    <3> QED BY <3>1, <3>2, LeaseBounds
  <2>4. ASSUME NEW b \in Bindings, Freed(b) PROVE status' \in [Mints -> St] /\ tickets' \in 0 .. MaxTickets
    BY Zenon, <1>t, <1>m, <1>g, <2>s, <2>4, Typed DEF Freed
  <2>5. ASSUME NEW m \in Mints, Signed(m) PROVE status' \in [Mints -> St] /\ tickets' \in 0 .. MaxTickets
    <3>1. PICK st \in {"signed", "quarantined"} : status' = [status EXCEPT ![m] = st]
      BY Zenon, <2>5 DEF Signed
    <3>2. st \in St
      BY Zenon, <2>s
    <3> QED BY Zenon, <1>m, <1>g, <2>5, <3>1, <3>2 DEF Signed
  <2> QED BY Zenon, <2>1, <2>2, <2>3, <2>4, <2>5, InventorySteps DEF InventoryStep
<1>2. /\ holding' \in [Bindings -> Inv!Tickets \cup {Inv!NoTicket}]
      /\ receipts' \subseteq [ticket: Inv!Tickets, binding: Bindings]
  <2>1. CASE UNCHANGED <<holding, receipts>>
    BY Zenon, <1>m, <2>1
  <2>2. ASSUME NEW b \in Bindings, Taken(b)
        PROVE  UNCHANGED receipts /\ \E t \in Inv!Tickets : holding' = [holding EXCEPT ![b] = t]
    <3>1. PICK m \in Mints : holding' = [holding EXCEPT ![b] = [id |-> tickets + 1, mint |-> m]]
      BY Zenon, <2>2 DEF Taken
    <3>2. tickets \in 0 .. MaxTickets /\ tickets < MaxTickets
      BY Zenon, <1>m, <2>2 DEF Taken
    <3>3. tickets + 1 \in 1 .. MaxTickets
      BY <3>2, LeaseBounds
    <3> QED BY Zenon, <1>t, <2>2, <3>1, <3>3, Typed DEF Taken
  <2>3. ASSUME NEW b \in Bindings, Freed(b)
        PROVE  /\ holding' = [holding EXCEPT ![b] = Inv!NoTicket]
               /\ \E q \in [ticket: Inv!Tickets, binding: Bindings] : receipts' = receipts \cup {q}
    BY Zenon, <2>3 DEF Freed
  <2>4. \/ UNCHANGED <<holding, receipts>>
        \/ \E b \in Bindings : Taken(b) \/ Freed(b)
    BY Zenon, InventorySteps DEF InventoryStep, Imported, Signed
  <2>5. ASSUME NEW b \in Bindings, NEW t \in Inv!Tickets \cup {Inv!NoTicket}
        PROVE  [holding EXCEPT ![b] = t] \in [Bindings -> Inv!Tickets \cup {Inv!NoTicket}]
    BY Zenon, <1>m
  <2>6. ASSUME NEW q \in [ticket: Inv!Tickets, binding: Bindings]
        PROVE  receipts \cup {q} \subseteq [ticket: Inv!Tickets, binding: Bindings]
    BY Zenon, <1>m
  <2> QED BY Zenon, <1>m, <2>1, <2>2, <2>3, <2>4, <2>5, <2>6
<1>3. /\ intentHash' \in [Mints -> Inv!Intents \cup {Inv!Unset}]
      /\ sigs' \in [Mints -> SUBSET Inv!Signatures]
      /\ feeNft' \in [Mints -> Scopes \cup {Inv!Unset}]
      /\ coverage' \in [Mints -> 0 .. 2]
  <2>1. CASE UNCHANGED <<intentHash, sigs, feeNft, coverage>>
    BY Zenon, <1>m, <2>1
  <2>2. ASSUME NEW m \in Mints, NEW i \in AssetIntents, NEW x \in Messages, Sign(m, i, x)
        PROVE  /\ intentHash' \in [Mints -> Inv!Intents \cup {Inv!Unset}]
               /\ sigs' \in [Mints -> SUBSET Inv!Signatures]
               /\ UNCHANGED <<feeNft, coverage>>
    <3> DEFINE sg == [table |-> "mint", generation |-> 0, message |-> x, intent |-> i]
    <3>1. i \in Inv!Intents /\ sg \in Inv!Signatures
      BY LeaseBounds DEF Inv!Intents, Inv!Signatures, Inv!Tables, Inv!Generations
    <3> HIDE DEF sg
    <3>2. \/ sigs' = [sigs EXCEPT ![m] = sigs[m] \cup {sg}] /\ intentHash' = [intentHash EXCEPT ![m] = i]
          \/ UNCHANGED <<intentHash, sigs>>
      <4>1. Signs(m, i, x)
        BY Zenon, <2>2, SignFacts
      <4> QED BY Zenon, <4>1 DEF Signs, sg
    <3>3. sigs[m] \cup {sg} \in SUBSET Inv!Signatures
      BY Zenon, <1>m, <3>1
    <3>4. [sigs EXCEPT ![m] = sigs[m] \cup {sg}] \in [Mints -> SUBSET Inv!Signatures]
      BY Zenon, <1>m, <3>3
    <3>5. [intentHash EXCEPT ![m] = i] \in [Mints -> Inv!Intents \cup {Inv!Unset}]
      BY Zenon, <1>m, <3>1
    <3> QED BY Zenon, <1>m, <2>2, <3>2, <3>4, <3>5, SignFacts
  <2>3. ASSUME NEW m \in Mints, NEW c \in Scopes, BindCampaign(m, c)
        PROVE  /\ intentHash' \in [Mints -> Inv!Intents \cup {Inv!Unset}]
               /\ feeNft' \in [Mints -> Scopes \cup {Inv!Unset}]
               /\ UNCHANGED <<sigs, coverage>>
    <3> DEFINE n == holding[row[m].binding].mint
    <3>1. /\ feeNft' = [feeNft EXCEPT ![n] = c] /\ intentHash' = [intentHash EXCEPT ![n] = c]
          /\ UNCHANGED <<sigs, coverage>>
      BY Zenon, <2>3 DEF BindCampaign, Inv!ReserveFundingFirstKeys
    <3> HIDE DEF n
    <3>2. c \in Inv!Intents
      BY Zenon DEF Inv!Intents
    <3> QED BY Zenon, <1>m, <3>1, <3>2
  <2>4. CASE UNCHANGED inventory
    BY Zenon, <2>1, <2>4 DEF inventory
  <2>5. ASSUME Import PROVE UNCHANGED <<intentHash, sigs, feeNft, coverage>>
    BY Zenon, <2>5 DEF Import, Inv!ImportPrivateKeyFile
  <2>6. ASSUME NEW r \in Reservers, NEW b \in Bindings, ReserveInventory(r, b)
        PROVE  UNCHANGED <<intentHash, sigs, feeNft, coverage>>
    BY Zenon, <2>6 DEF ReserveInventory, Inv!Reserve, inventory
  <2>7. ASSUME NEW k \in Reconcilers, ReconcileRelease(k)
        PROVE  UNCHANGED <<intentHash, sigs, feeNft, coverage>>
    BY Zenon, <2>7 DEF ReconcileRelease, Inv!ReleaseUnsignedReservation, inventory
  <2> QED
    BY Zenon, <1>m, <2>1, <2>2, <2>3, <2>4, <2>5, <2>6, <2>7
    DEF Next, vars, ReserveRead, ReserveWrite, RecordSigningIntent, Land, MarkConsumed, Quarantine,
        Reconcile, ReconcileRead, ReconcileDecide, ReconcileWrite, Stop
<1> QED BY Zenon, <1>1, <1>2, <1>3 DEF Inv!TypeOK, Inv!Mints, Mints

\* Types are kept.
LEMMA TypeStep ==
  ASSUME LeaseInv, [Next]_vars
  PROVE  TypeOK'
<1>t. TypeOK
  BY Zenon DEF LeaseInv
<1>m. /\ row \in [Mints -> Leases \cup {NoRow}] /\ leaseIds \in 0 .. MaxLeases /\ landed \subseteq Mints
      /\ res \in [Reservers -> ReserveCalls] /\ rec \in [Reconcilers -> ReconcileCalls]
  BY Zenon, <1>t DEF TypeOK
<1>1. row' \in [Mints -> Leases \cup {NoRow}] /\ leaseIds' \in 0 .. MaxLeases
  <2>1. CASE UNCHANGED <<row, leaseIds>>
    BY Zenon, <1>m, <2>1
  <2>2. ASSUME NEW m \in Mints, RowStep(m)
        PROVE  row' \in [Mints -> Leases \cup {NoRow}] /\ leaseIds' \in 0 .. MaxLeases
    <3>1. row' \in [Mints -> Leases \cup {NoRow}]
      BY Zenon, <2>2 DEF RowStep
    <3>2. CASE Move(m)
      BY Zenon, <1>m, <3>1, <3>2 DEF Move
    <3>3. CASE Written(m)
      <4>1. row'[m].id = leaseIds' /\ row'[m] \in Leases
        BY Zenon, <3>3 DEF Written
      <4>2. leaseIds' \in 1 .. MaxLeases
        BY Zenon, <1>t, <4>1, Typed
      <4>3. leaseIds' \in 0 .. MaxLeases
        BY <4>2, LeaseBounds
      <4> QED BY Zenon, <3>1, <4>3
    <3> QED BY Zenon, <2>2, <3>2, <3>3 DEF RowStep
  <2> QED BY Zenon, <2>1, <2>2, RowSteps
<1>2. landed' \subseteq Mints
  <2>1. UNCHANGED landed \/ \E m \in Mints : landed' = landed \cup {m}
    BY Zenon
    DEF Next, vars, Import, ReserveInventory, ReserveRead, ReserveWrite, RecordSigningIntent, Land,
        MarkConsumed, Quarantine, Sign, BindCampaign, Reconcile, ReconcileRead, ReconcileDecide,
        ReconcileRelease, ReconcileWrite, Stop
  <2> QED BY Zenon, <1>m, <2>1
<1>3. res' \in [Reservers -> ReserveCalls]
  <2>g. ASSUME NEW r \in Reservers, NEW c \in ReserveCalls, res' = [res EXCEPT ![r] = c]
        PROVE  res' \in [Reservers -> ReserveCalls]
    BY Zenon, <1>m, <2>g
  <2>i. Idle \in ReserveCalls
    BY Zenon DEF ReserveCalls
  <2>1. ASSUME NEW r \in Reservers, NEW b \in Bindings, ReserveInventory(r, b)
        PROVE  res' \in [Reservers -> ReserveCalls]
    <3>1. res' = [res EXCEPT ![r] = [pc |-> "byMint", b |-> b, ticket |-> holding'[b]]]
      BY Zenon, <2>1 DEF ReserveInventory
    <3>2. holding'[b] \in Inv!Tickets
      <4>1. CASE Inv!Held(b) /\ UNCHANGED inventory
        BY Zenon, <1>t, <4>1, Typed DEF Inv!Held, inventory
      <4>2. CASE Inv!Reserve(b, "plain")
        <5>1. PICK m \in Mints : holding' = [holding EXCEPT ![b] = [id |-> tickets + 1, mint |-> m]]
          BY Zenon, <1>t, <4>2, ReserveFacts
        <5>2. tickets \in 0 .. MaxTickets /\ tickets < MaxTickets /\ DOMAIN holding = Bindings
          BY Zenon, <1>t, <4>2, ReserveFacts DEF TypeOK, Inv!TypeOK
        <5>3. tickets + 1 \in 1 .. MaxTickets
          BY <5>2, LeaseBounds
        <5>4. holding'[b] = [id |-> tickets + 1, mint |-> m]
          BY Zenon, <5>1, <5>2
        <5> QED BY Zenon, <1>t, <5>3, <5>4, Typed
      <4> QED BY Zenon, <2>1, <4>1, <4>2 DEF ReserveInventory
    <3>3. [pc |-> "byMint", b |-> b, ticket |-> holding'[b]] \in ReserveCalls
      BY <3>2 DEF ReserveCalls
    <3> QED BY Zenon, <2>g, <3>1, <3>3
  <2>2. ASSUME NEW r \in Reservers, ReserveRead(r) PROVE res' \in [Reservers -> ReserveCalls]
    <3> DEFINE old == row[res[r].ticket.mint]
               w == [pc |-> "write", b |-> res[r].b, ticket |-> res[r].ticket, old |-> old.id]
    <3>1. res[r].pc # "idle"
      BY <2>2 DEF ReserveRead
    <3>2. res[r].b \in Bindings /\ res[r].ticket \in Inv!Tickets /\ res[r].ticket.mint \in Mints
      BY Zenon, <1>t, <3>1, Typed
    <3>3. old.id \in 0 .. MaxLeases
      <4>1. old \in Leases \/ old = NoRow
        BY Zenon, <1>t, <3>2, Typed
      <4> HIDE DEF old
      <4> QED BY <4>1, LeaseBounds DEF Leases, NoRow
    <3>4. w \in ReserveCalls
      <4> HIDE DEF old
      <4> QED BY <3>2, <3>3 DEF ReserveCalls
    <3>5. res' = [res EXCEPT ![r] = Idle] \/ res' = [res EXCEPT ![r] = w]
      BY Zenon, <2>2 DEF ReserveRead
    <3> HIDE DEF w
    <3> QED BY Zenon, <2>g, <2>i, <3>4, <3>5
  <2>3. \/ UNCHANGED res
        \/ \E r \in Reservers : \/ \E b \in Bindings : ReserveInventory(r, b)
                               \/ ReserveRead(r) \/ res' = [res EXCEPT ![r] = Idle]
    BY Zenon
    DEF Next, vars, Import, ReserveWrite, RecordSigningIntent, Land, MarkConsumed, Quarantine,
        Sign, BindCampaign, Reconcile, ReconcileRead, ReconcileDecide, ReconcileRelease,
        ReconcileWrite, Stop
  <2> QED BY Zenon, <1>m, <2>g, <2>i, <2>1, <2>2, <2>3
<1>4. rec' \in [Reconcilers -> ReconcileCalls]
  <2> DEFINE Pcs == {"decide", "release", "released", "signed", "quarantined", "funding-first", "absent"}
  <2>g. ASSUME NEW k \in Reconcilers, NEW c \in ReconcileCalls, rec' = [rec EXCEPT ![k] = c]
        PROVE  rec' \in [Reconcilers -> ReconcileCalls]
    BY Zenon, <1>m, <2>g
  <2>i. Idle \in ReconcileCalls
    BY Zenon DEF ReconcileCalls
  <2>p. ASSUME NEW k \in Reconcilers, rec[k].pc # "idle", NEW p \in Pcs, rec' = [rec EXCEPT ![k].pc = p]
        PROVE  rec' \in [Reconcilers -> ReconcileCalls]
    <3> DEFINE c == [rec[k] EXCEPT !.pc = p]
    <3>1. rec[k] \in ReconcileCalls
      BY Zenon, <1>m
    <3>2. c \in ReconcileCalls
      BY <2>p, <3>1 DEF ReconcileCalls, Idle
    <3>3. rec' = [rec EXCEPT ![k] = c]
      BY <2>p
    <3> HIDE DEF c
    <3> QED BY Zenon, <2>g, <3>2, <3>3
  <2>1. ASSUME NEW k \in Reconcilers, NEW m \in Mints, ReconcileRead(k, m)
        PROVE  rec' \in [Reconcilers -> ReconcileCalls]
    <3> DEFINE c == [pc |-> "decide", m |-> m, lease |-> row[m], exists |-> m \in landed]
    <3>1. row[m].state # "none" /\ rec' = [rec EXCEPT ![k] = c]
      BY <2>1 DEF ReconcileRead
    <3>2. row[m] \in Leases
      BY Zenon, <1>t, <3>1, Typed
    <3>3. c \in ReconcileCalls
      BY <3>2 DEF ReconcileCalls
    <3> HIDE DEF c
    <3> QED BY Zenon, <2>g, <3>1, <3>3
  <2>2. ASSUME NEW k \in Reconcilers, ReconcileDecide(k)
        PROVE  rec' \in [Reconcilers -> ReconcileCalls]
    <3>1. rec[k].pc # "idle" /\ "release" \in Pcs
      BY <2>2 DEF ReconcileDecide
    <3>2. rec' = [rec EXCEPT ![k] = Idle] \/ rec' = [rec EXCEPT ![k].pc = "release"]
      BY <2>2 DEF ReconcileDecide
    <3> QED BY Zenon, <2>g, <2>i, <2>p, <3>1, <3>2
  <2>3. ASSUME NEW k \in Reconcilers, ReconcileRelease(k)
        PROVE  rec' \in [Reconcilers -> ReconcileCalls]
    <3>1. rec[k].pc # "idle" /\ rec' = [rec EXCEPT ![k].pc = Answer(rec[k].lease)]
      BY <2>3 DEF ReconcileRelease
    <3>2. Answer(rec[k].lease) \in Pcs
      BY Zenon DEF Answer
    <3> QED BY Zenon, <2>p, <3>1, <3>2
  <2>4. \/ UNCHANGED rec
        \/ \E k \in Reconcilers : \/ \E m \in Mints : ReconcileRead(k, m)
                                 \/ ReconcileDecide(k) \/ ReconcileRelease(k)
                                 \/ rec' = [rec EXCEPT ![k] = Idle]
    BY Zenon
    DEF Next, vars, Import, ReserveInventory, ReserveRead, ReserveWrite, RecordSigningIntent, Land,
        MarkConsumed, Quarantine, Sign, BindCampaign, Reconcile, ReconcileWrite, Stop
  <2> QED BY Zenon, <1>m, <2>g, <2>i, <2>1, <2>2, <2>3, <2>4
<1> QED BY Zenon, <1>1, <1>2, <1>3, <1>4, InventoryTypes DEF TypeOK

\* A reservation id is claimed by whoever already had it, or was just made.
LEMMA ClaimSteps ==
  ASSUME LeaseInv, [Next]_vars, NEW t \in Inv!Tickets, NEW b \in Bindings, Claim(t, b)'
  PROVE  Claim(t, b) \/ (Taken(b) /\ holding'[b] = t)
<1>t. TypeOK /\ TypeOK'
  BY Zenon, TypeStep DEF LeaseInv
<1>d. DOMAIN holding = Bindings /\ Inv!NoTicket # t
  BY Zenon, <1>t, Typed DEF TypeOK, Inv!TypeOK
<1>1. ASSUME holding'[b] = t PROVE Claim(t, b) \/ (Taken(b) /\ holding'[b] = t)
  <2>1. CASE UNCHANGED holding
    BY Zenon, <1>1, <2>1 DEF Claim
  <2>2. ASSUME NEW c \in Bindings, Taken(c) PROVE Claim(t, b) \/ (Taken(b) /\ holding'[b] = t)
    <3>1. CASE c = b
      BY Zenon, <1>1, <2>2, <3>1
    <3>2. CASE c # b
      BY Zenon, <1>d, <1>1, <2>2, <3>2 DEF Taken, Claim
    <3> QED BY Zenon, <3>1, <3>2
  <2>3. ASSUME NEW c \in Bindings, Freed(c) PROVE Claim(t, b)
    BY Zenon, <1>d, <1>1, <2>3 DEF Freed, Claim
  <2> QED BY Zenon, <2>1, <2>2, <2>3, InventorySteps DEF InventoryStep, Imported, Signed
<1>2. ASSUME [ticket |-> t, binding |-> b] \in receipts' PROVE Claim(t, b)
  <2>1. CASE UNCHANGED receipts
    BY Zenon, <1>2, <2>1 DEF Claim
  <2>2. ASSUME NEW c \in Bindings, Freed(c) PROVE Claim(t, b)
    <3>1. CASE [ticket |-> t, binding |-> b] \in receipts
      BY Zenon, <3>1 DEF Claim
    <3>2. CASE [ticket |-> t, binding |-> b] = [ticket |-> holding[c], binding |-> c]
      <4>1. t = holding[c] /\ b = c
        BY <3>2
      <4> QED BY Zenon, <4>1 DEF Claim
    <3> QED BY Zenon, <1>2, <2>2, <3>1, <3>2 DEF Freed
  <2> QED BY Zenon, <2>1, <2>2, InventorySteps DEF InventoryStep, Imported, Taken, Signed
<1>3. ASSUME NEW r \in Reservers, res'[r].pc # "idle", res'[r].ticket = t, res'[r].b = b
      PROVE  Claim(t, b) \/ (Taken(b) /\ holding'[b] = t)
  <2>1. CASE res[r].pc # "idle" /\ res'[r].b = res[r].b /\ res'[r].ticket = res[r].ticket
    BY Zenon, <1>3, <2>1 DEF Claim
  <2>2. CASE res'[r].ticket = holding'[res'[r].b]
    BY Zenon, <1>1, <1>3, <2>2
  <2> QED BY Zenon, <1>3, <2>1, <2>2, ReserveSteps
<1>4. ASSUME row'[t.mint].state # "none", row'[t.mint].ref = t.id, row'[t.mint].binding = b
      PROVE  Claim(t, b)
  <2>m. t.mint \in Mints /\ t = [id |-> t.id, mint |-> t.mint]
    BY Zenon, <1>t, Typed
  <2>1. CASE row'[t.mint] = row[t.mint]
    BY Zenon, <1>4, <2>1 DEF Claim
  <2>2. ASSUME NEW m \in Mints, m = t.mint, Move(m) PROVE Claim(t, b)
    <3>1. row[t.mint].state # "none"
      BY Zenon, <1>t, <2>2, Typed DEF Move
    <3> QED BY Zenon, <1>4, <2>2, <3>1 DEF Move, Claim
  <2>3. ASSUME NEW m \in Mints, m = t.mint, Written(m) PROVE Claim(t, b)
    <3>1. PICK r \in Reservers : /\ res[r].pc # "idle" /\ res[r].b = row'[m].binding
                                 /\ res[r].ticket = [id |-> row'[m].ref, mint |-> m]
      BY Zenon, <2>3 DEF Written
    <3>2. res[r].b = b /\ res[r].ticket = t
      BY Zenon, <1>4, <2>m, <2>3, <3>1
    <3> QED BY Zenon, <3>1, <3>2 DEF Claim
  <2>4. ASSUME NEW m \in Mints, m # t.mint, RowStep(m) PROVE row'[t.mint] = row[t.mint]
    BY Zenon, <2>m, <2>4 DEF RowStep
  <2> QED BY Zenon, <2>1, <2>2, <2>3, <2>4, RowSteps DEF RowStep
<1>5. ASSUME NEW k \in Reconcilers, rec'[k].pc # "idle", rec'[k].m = t.mint,
             rec'[k].lease.ref = t.id, rec'[k].lease.binding = b
      PROVE  Claim(t, b)
  <2>1. CASE /\ rec[k].pc # "idle" /\ rec'[k].m = rec[k].m /\ rec'[k].lease = rec[k].lease
    BY Zenon, <1>5, <2>1 DEF Claim
  <2>2. ASSUME NEW m \in Mints, row[m].state \in {"reserved", "releasing", "signed-pending"},
               rec'[k] = [pc |-> "decide", m |-> m, lease |-> row[m], exists |-> m \in landed]
        PROVE  Claim(t, b)
    <3>1. row[m].state # "none" /\ rec'[k].m = m /\ rec'[k].lease = row[m]
      BY <2>2
    <3> QED BY Zenon, <1>5, <3>1 DEF Claim
  <2>3. CASE rec'[k] = rec[k]
    BY Zenon, <1>5, <2>3 DEF Claim
  <2> QED BY Zenon, <1>5, <2>1, <2>2, <2>3, ReconcileSteps
<1> QED BY Zenon, <1>1, <1>2, <1>3, <1>4, <1>5 DEF Claim

\* Every reservation id stays with one mint and one binding.
LEMMA TicketStep ==
  ASSUME LeaseInv, [Next]_vars
  PROVE  OneTicket'
<1>t. TypeOK /\ OneTicket /\ TypeOK'
  BY Zenon, TypeStep DEF LeaseInv
<1>d. DOMAIN holding = Bindings /\ tickets \in 0 .. MaxTickets /\ tickets' \in 0 .. MaxTickets
  BY Zenon, <1>t DEF TypeOK, Inv!TypeOK
<1>g. tickets <= tickets'
  <2>1. UNCHANGED tickets \/ tickets' = tickets + 1
    BY Zenon, InventorySteps DEF InventoryStep, Imported, Taken, Freed, Signed
  <2> QED BY <1>d, <2>1, LeaseBounds
<1>n. ASSUME NEW t \in Inv!Tickets, NEW b \in Bindings, Taken(b), holding'[b] = t
      PROVE  /\ t.id = tickets + 1 /\ t.id = tickets'
             /\ \A c \in Bindings \ {b} : holding'[c] = holding[c]
  <2>1. PICK m \in Mints : holding' = [holding EXCEPT ![b] = [id |-> tickets + 1, mint |-> m]]
    BY Zenon, <1>n DEF Taken
  <2>2. t = [id |-> tickets + 1, mint |-> m] /\ \A c \in Bindings \ {b} : holding'[c] = holding[c]
    BY Zenon, <1>d, <1>n, <2>1
  <2>3. t.id = tickets + 1
    BY <2>2
  <2> QED BY Zenon, <1>n, <2>2, <2>3 DEF Taken
<1>o. ASSUME NEW t \in Inv!Tickets, NEW b \in Bindings, Claim(t, b) PROVE t.id <= tickets
  BY Zenon, <1>t, <1>o DEF OneTicket
<1>i. \A t \in Inv!Tickets : t.id \in 1 .. MaxTickets
  BY Zenon, <1>t, Typed
<1> SUFFICES ASSUME NEW t \in Inv!Tickets, NEW b \in Bindings, Claim(t, b)'
             PROVE  /\ t.id <= tickets'
                    /\ \A u \in Inv!Tickets, c \in Bindings :
                         Claim(u, c)' /\ u.id = t.id => u = t /\ c = b
  BY Zenon DEF OneTicket, Inv!Tickets, Inv!Mints
<1>1. t.id <= tickets'
  <2>1. CASE Claim(t, b)
    <3>1. t.id <= tickets /\ t.id \in 1 .. MaxTickets
      BY Zenon, <1>o, <1>i, <2>1
    <3> QED BY <1>d, <1>g, <3>1, LeaseBounds
  <2>2. CASE Taken(b) /\ holding'[b] = t
    <3>1. t.id = tickets'
      BY Zenon, <1>n, <2>2
    <3> QED BY <1>d, <3>1, LeaseBounds
  <2> QED BY Zenon, <2>1, <2>2, ClaimSteps
<1>2. ASSUME NEW u \in Inv!Tickets, NEW c \in Bindings, Claim(u, c)', u.id = t.id
      PROVE  u = t /\ c = b
  <2>x. ~(t.id = tickets + 1 /\ t.id <= tickets)
    BY <1>d, LeaseBounds
  <2>1. CASE Claim(t, b) /\ Claim(u, c)
    BY Zenon, <1>t, <1>2, <2>1 DEF OneTicket
  <2>2. CASE Claim(t, b) /\ ~Claim(u, c)
    <3>1. u.id = tickets + 1
      BY Zenon, <1>n, <1>2, <2>2, ClaimSteps
    <3> QED BY Zenon, <1>o, <1>2, <2>x, <2>2, <3>1
  <2>3. CASE ~Claim(t, b)
    <3>1. Taken(b) /\ holding'[b] = t
      BY Zenon, <2>3, ClaimSteps
    <3>2. t.id = tickets + 1 /\ \A e \in Bindings \ {b} : holding'[e] = holding[e]
      BY Zenon, <1>n, <3>1
    <3>3. ~Claim(u, c)
      BY Zenon, <1>o, <1>2, <2>x, <3>2
    <3>4. holding'[c] = u
      BY Zenon, <1>2, <3>3, ClaimSteps
    <3>5. holding[c] # u
      BY Zenon, <3>3 DEF Claim
    <3>6. c = b
      BY Zenon, <3>2, <3>4, <3>5
    <3> QED BY Zenon, <3>1, <3>4, <3>6
  <2> QED BY Zenon, <2>1, <2>2, <2>3
<1> QED BY Zenon, <1>1, <1>2

\* Only a signed mint lands, and what landed stays.
LEMMA LandSteps ==
  ASSUME [Next]_vars
  PROVE  landed \subseteq landed' /\ \A m \in landed' : m \in landed \/ sigs[m] # {}
<1>1. UNCHANGED landed \/ \E m \in Mints : Land(m)
  BY Zenon
  DEF Next, vars, Import, ReserveInventory, ReserveRead, ReserveWrite, RecordSigningIntent,
      MarkConsumed, Quarantine, Sign, BindCampaign, Reconcile, ReconcileRead, ReconcileDecide,
      ReconcileRelease, ReconcileWrite, Stop
<1> QED BY Zenon, <1>1 DEF Land

\* What Leased says of one mint.
LeasedMint(m) ==
  /\ sigs[m] # {} => Used(m)
  /\ m \in landed => sigs[m] # {}
  /\ Used(m) => /\ row[m].state \in {"signed-pending", "consumed", "quarantined"}
                /\ holding[row[m].binding] = [id |-> row[m].ref, mint |-> m]

\* A used mint keeps its lease through every change of a row.
LEMMA LeasedRows ==
  ASSUME LeaseInv, [Next]_vars, UNCHANGED <<status, sigs, holding, receipts, tickets>>
  PROVE  Leased'
<1>t. TypeOK /\ Leased
  BY Zenon DEF LeaseInv
<1>1. ASSUME NEW m \in Mints, Used(m)
      PROVE  /\ row'[m].state \in {"signed-pending", "consumed", "quarantined"}
             /\ row'[m].binding = row[m].binding /\ row'[m].ref = row[m].ref
  <2>0. row[m].state \in {"signed-pending", "consumed", "quarantined"}
    BY Zenon, <1>t, <1>1 DEF Leased
  <2>1. CASE row'[m] = row[m]
    BY Zenon, <2>0, <2>1
  <2>2. CASE Move(m)
    <3>1. row'[m].state \in {"signed-pending", "consumed", "quarantined"}
      BY <2>0, <2>2 DEF Move
    <3> QED BY Zenon, <2>2, <3>1 DEF Move
  <2>3. CASE Written(m)
    BY <2>0, <2>3 DEF Written
  <2>4. ASSUME NEW n \in Mints, n # m, RowStep(n) PROVE row'[m] = row[m]
    BY Zenon, <2>4 DEF RowStep
  <2> QED BY Zenon, <2>1, <2>2, <2>3, <2>4, RowSteps DEF RowStep
<1>2. ASSUME NEW m \in Mints PROVE LeasedMint(m)'
  <2>1. LeasedMint(m)
    BY Zenon, <1>t DEF Leased, LeasedMint
  <2>2. m \in landed' => sigs[m] # {}
    BY Zenon, <2>1, LandSteps DEF LeasedMint
  <2>3. Used(m)' <=> Used(m)
    BY Zenon DEF Used
  <2> QED BY Zenon, <1>1, <2>1, <2>2, <2>3 DEF LeasedMint
<1> QED BY Zenon, <1>t, <1>2 DEF Leased, LeasedMint, Inv!Held

\* A used mint keeps its lease through every change of the inventory.
LEMMA LeasedInventory ==
  ASSUME LeaseInv, [Next]_vars, InventoryStep
  PROVE  Leased'
<1>t. TypeOK /\ TypeOK' /\ Leased
  BY Zenon, TypeStep DEF LeaseInv
<1>m. /\ DOMAIN status = Mints /\ DOMAIN sigs = Mints /\ DOMAIN holding = Bindings
      /\ \A b \in Bindings : Inv!Held(b) => holding[b] \in Inv!Tickets /\ holding[b].mint \in Mints
  <2>1. DOMAIN status = Mints /\ DOMAIN sigs = Mints /\ DOMAIN holding = Bindings
    BY Zenon, <1>t DEF TypeOK, Inv!TypeOK, Inv!Mints, Mints
  <2> QED BY Zenon, <1>t, <2>1, Typed DEF Inv!Held
<1>z. Inv!NoTicket.mint \notin Mints /\ \A i \in 1 .. MaxTickets, m \in Mints : [id |-> i, mint |-> m] # Inv!NoTicket
  BY LeaseBounds DEF Inv!NoTicket, Mints
<1>r. UNCHANGED <<row, leaseIds, landed>>
  BY Zenon DEF InventoryStep
<1>l. \A m \in Mints : LeasedMint(m)
  BY Zenon, <1>t DEF Leased, LeasedMint
<1>a. \A b \in Bindings : Inv!Held(b) => status[holding[b].mint] \in {"reserved", "signed", "quarantined"}
  BY Zenon, <1>t DEF Leased
<1>b. \A b, c \in Bindings : Inv!Held(b) /\ holding[b].mint = holding[c].mint => b = c
  BY Zenon, <1>t DEF Leased
<1> DEFINE Goal == /\ \A b \in Bindings : Inv!Held(b) => status[holding[b].mint] \in {"reserved", "signed", "quarantined"}
                   /\ \A b, c \in Bindings : Inv!Held(b) /\ holding[b].mint = holding[c].mint => b = c
                   /\ \A m \in Mints : LeasedMint(m)
<1>1. ASSUME Imported PROVE Goal'
  <2>1. PICK f \in Mints : status[f] = "unset" /\ status' = [status EXCEPT ![f] = "available"]
    BY Zenon, <1>1 DEF Imported
  <2>2. UNCHANGED <<sigs, holding>>
    BY Zenon, <1>1 DEF Imported
  <2>3. status'[f] = "available" /\ \A m \in Mints \ {f} : status'[m] = status[m]
    BY Zenon, <1>m, <2>1
  <2>4. ASSUME NEW b \in Bindings, Inv!Held(b) PROVE holding[b].mint # f
    <3>1. status[holding[b].mint] \in {"reserved", "signed", "quarantined"}
      BY Zenon, <1>a, <2>4
    <3> QED BY <2>1, <3>1
  <2>5. ~Used(f) /\ ~Used(f)'
    BY <2>1, <2>3 DEF Used
  <2>6. \A m \in Mints : LeasedMint(m)'
    BY Zenon, <1>r, <1>l, <2>2, <2>3, <2>5 DEF LeasedMint, Used
  <2>7. \A b \in Bindings : Inv!Held(b)' => status'[holding'[b].mint] \in {"reserved", "signed", "quarantined"}
    BY Zenon, <1>a, <1>m, <2>2, <2>3, <2>4 DEF Inv!Held
  <2>8. \A b, c \in Bindings : Inv!Held(b)' /\ holding'[b].mint = holding'[c].mint => b = c
    BY Zenon, <1>b, <2>2 DEF Inv!Held
  <2> QED BY Zenon, <2>6, <2>7, <2>8
<1>2. ASSUME NEW d \in Bindings, Taken(d) PROVE Goal'
  <2>1. PICK f \in Mints : /\ status[f] \in {"unset", "available"} /\ status' = [status EXCEPT ![f] = "reserved"]
                           /\ holding' = [holding EXCEPT ![d] = [id |-> tickets + 1, mint |-> f]]
    BY Zenon, <1>2 DEF Taken
  <2>2. ~Inv!Held(d) /\ UNCHANGED sigs
    BY Zenon, <1>2 DEF Taken
  <2>3. status'[f] = "reserved" /\ \A m \in Mints \ {f} : status'[m] = status[m]
    BY Zenon, <1>m, <2>1
  <2>4. holding'[d].mint = f /\ \A b \in Bindings \ {d} : holding'[b] = holding[b]
    <3>1. holding'[d] = [id |-> tickets + 1, mint |-> f] /\ \A b \in Bindings \ {d} : holding'[b] = holding[b]
      BY Zenon, <1>m, <2>1
    <3> QED BY <3>1
  <2>5. ASSUME NEW b \in Bindings PROVE holding[b].mint # f
    <3>1. CASE Inv!Held(b)
      <4>1. status[holding[b].mint] \in {"reserved", "signed", "quarantined"}
        BY Zenon, <1>a, <3>1
      <4> QED BY <2>1, <4>1
    <3>2. CASE ~Inv!Held(b)
      BY Zenon, <1>z, <3>2 DEF Inv!Held
    <3> QED BY Zenon, <3>1, <3>2
  <2>6. ~Used(f) /\ ~Used(f)'
    BY <2>1, <2>3 DEF Used
  <2>7. \A m \in Mints : LeasedMint(m)'
    <3> SUFFICES ASSUME NEW m \in Mints PROVE LeasedMint(m)'
      BY Zenon
    <3>1. CASE m = f
      BY Zenon, <1>r, <1>l, <2>2, <2>6, <3>1 DEF LeasedMint
    <3>2. CASE m # f
      <4>1. Used(m)' <=> Used(m)
        BY Zenon, <2>3, <3>2 DEF Used
      <4>2. ASSUME Used(m) PROVE holding'[row[m].binding] = holding[row[m].binding]
        <5>1. /\ row[m].state \in {"signed-pending", "consumed", "quarantined"}
              /\ holding[row[m].binding] = [id |-> row[m].ref, mint |-> m]
          BY Zenon, <1>l, <4>2 DEF LeasedMint
        <5>2. row[m].state # "none"
          BY <5>1
        <5>3. row[m].binding \in Bindings /\ row[m].ref \in 1 .. MaxTickets
          BY Zenon, <1>t, <5>2, Typed
        <5>4. Inv!Held(row[m].binding)
          BY Zenon, <1>z, <5>1, <5>3 DEF Inv!Held
        <5> QED BY Zenon, <2>2, <2>4, <5>3, <5>4
      <4> QED BY Zenon, <1>r, <1>l, <2>2, <4>1, <4>2 DEF LeasedMint
    <3> QED BY Zenon, <3>1, <3>2
  <2>8. \A b \in Bindings : Inv!Held(b)' => status'[holding'[b].mint] \in {"reserved", "signed", "quarantined"}
    <3> SUFFICES ASSUME NEW b \in Bindings, Inv!Held(b)'
                 PROVE  status'[holding'[b].mint] \in {"reserved", "signed", "quarantined"}
      BY Zenon
    <3>1. CASE b = d
      BY Zenon, <2>3, <2>4, <3>1
    <3>2. CASE b # d
      <4>1. holding'[b] = holding[b] /\ Inv!Held(b)
        BY Zenon, <2>4, <3>2 DEF Inv!Held
      <4> QED BY Zenon, <1>a, <1>m, <2>3, <2>5, <4>1
    <3> QED BY Zenon, <3>1, <3>2
  <2>9. \A b, c \in Bindings : Inv!Held(b)' /\ holding'[b].mint = holding'[c].mint => b = c
    BY Zenon, <1>b, <2>4, <2>5 DEF Inv!Held
  <2> QED BY Zenon, <2>7, <2>8, <2>9
<1>3. ASSUME NEW f \in Mints, Signed(f) PROVE Goal'
  <2>1. PICK st \in {"signed", "quarantined"} : status' = [status EXCEPT ![f] = st]
    BY Zenon, <1>3 DEF Signed
  <2>2. /\ row[f].state = "signed-pending" /\ holding[row[f].binding] = [id |-> row[f].ref, mint |-> f]
        /\ UNCHANGED holding /\ (\A n \in Mints \ {f} : sigs'[n] = sigs[n])
        /\ sigs[f] # {} => sigs'[f] # {}
    BY Zenon, <1>3 DEF Signed
  <2>3. status'[f] = st /\ \A m \in Mints \ {f} : status'[m] = status[m]
    BY Zenon, <1>m, <2>1
  <2>4. Used(f)' /\ status'[f] \in {"reserved", "signed", "quarantined"}
    BY <2>3 DEF Used
  <2>5. LeasedMint(f)'
    BY Zenon, <1>r, <1>l, <2>2, <2>4 DEF LeasedMint
  <2>6. \A m \in Mints \ {f} : LeasedMint(m)'
    BY Zenon, <1>r, <1>l, <2>2, <2>3 DEF LeasedMint, Used
  <2>7. \A b \in Bindings : Inv!Held(b)' => status'[holding'[b].mint] \in {"reserved", "signed", "quarantined"}
    BY Zenon, <1>a, <1>m, <2>2, <2>3, <2>4 DEF Inv!Held
  <2>8. \A b, c \in Bindings : Inv!Held(b)' /\ holding'[b].mint = holding'[c].mint => b = c
    BY Zenon, <1>b, <2>2 DEF Inv!Held
  <2> QED BY Zenon, <2>5, <2>6, <2>7, <2>8
<1>4. ASSUME NEW d \in Bindings, Freed(d) PROVE Goal'
  <2>1. PICK f \in Mints :
        /\ f = holding[d].mint /\ Inv!Held(d) /\ status[f] = "reserved"
        /\ status' = [status EXCEPT ![f] = "available"]
        /\ holding' = [holding EXCEPT ![d] = Inv!NoTicket] /\ UNCHANGED sigs
    BY Zenon, <1>m, <1>4 DEF Freed
  <2>3. status'[f] = "available" /\ \A m \in Mints \ {f} : status'[m] = status[m]
    BY Zenon, <1>m, <2>1
  <2>4. holding'[d] = Inv!NoTicket /\ \A b \in Bindings \ {d} : holding'[b] = holding[b]
    BY Zenon, <1>m, <2>1
  <2>5. ASSUME NEW b \in Bindings, Inv!Held(b)' PROVE b # d /\ Inv!Held(b) /\ holding'[b] = holding[b] /\ holding[b].mint # f
    <3>1. b # d
      BY Zenon, <2>4, <2>5 DEF Inv!Held
    <3>2. Inv!Held(b) /\ holding'[b] = holding[b]
      BY Zenon, <2>4, <2>5, <3>1 DEF Inv!Held
    <3> QED BY Zenon, <1>b, <2>1, <3>1, <3>2
  <2>6. ~Used(f) /\ ~Used(f)'
    BY <2>1, <2>3 DEF Used
  <2>7. \A m \in Mints : LeasedMint(m)'
    <3> SUFFICES ASSUME NEW m \in Mints PROVE LeasedMint(m)'
      BY Zenon
    <3>1. CASE m = f
      BY Zenon, <1>r, <1>l, <2>1, <2>6, <3>1 DEF LeasedMint
    <3>2. CASE m # f
      <4>1. Used(m)' <=> Used(m)
        BY Zenon, <2>3, <3>2 DEF Used
      <4>2. ASSUME Used(m) PROVE holding'[row[m].binding] = holding[row[m].binding]
        <5>1. /\ row[m].state \in {"signed-pending", "consumed", "quarantined"}
              /\ holding[row[m].binding] = [id |-> row[m].ref, mint |-> m]
          BY Zenon, <1>l, <4>2 DEF LeasedMint
        <5>2. row[m].state # "none" /\ holding[row[m].binding].mint = m
          BY <5>1
        <5>3. row[m].binding \in Bindings
          BY Zenon, <1>t, <5>2, Typed
        <5> QED BY Zenon, <2>1, <2>4, <3>2, <5>2, <5>3
      <4> QED BY Zenon, <1>r, <1>l, <2>1, <4>1, <4>2 DEF LeasedMint
    <3> QED BY Zenon, <3>1, <3>2
  <2>8. \A b \in Bindings : Inv!Held(b)' => status'[holding'[b].mint] \in {"reserved", "signed", "quarantined"}
    <3> SUFFICES ASSUME NEW b \in Bindings, Inv!Held(b)'
                 PROVE  status'[holding'[b].mint] \in {"reserved", "signed", "quarantined"}
      BY Zenon
    <3>1. Inv!Held(b) /\ holding'[b] = holding[b] /\ holding[b].mint \in Mints \ {f}
      BY Zenon, <1>m, <2>5
    <3> QED BY Zenon, <1>a, <2>3, <3>1
  <2>9. ASSUME NEW b \in Bindings, NEW c \in Bindings, Inv!Held(b)', holding'[b].mint = holding'[c].mint
        PROVE  b = c
    <3>1. b # d /\ Inv!Held(b) /\ holding'[b] = holding[b] /\ holding[b].mint \in Mints
      BY Zenon, <1>m, <2>5, <2>9
    <3>2. c # d
      BY Zenon, <1>z, <2>4, <2>9, <3>1
    <3> QED BY Zenon, <1>b, <2>4, <2>9, <3>1, <3>2
  <2> QED BY Zenon, <2>7, <2>8, <2>9
<1>5. Goal'
  BY Zenon, <1>1, <1>2, <1>3, <1>4 DEF InventoryStep
<1> QED BY Zenon, <1>5 DEF Leased, LeasedMint

\* Every step keeps the leases and the reservations together.
LEMMA LeasedStep == ASSUME LeaseInv, [Next]_vars PROVE Leased'
BY Zenon, InventorySteps, LeasedRows, LeasedInventory

\* A used key, a signature, a receipt and a lease id are for good.
LEMMA Monotone ==
  ASSUME LeaseInv, [Next]_vars
  PROVE  /\ receipts \subseteq receipts' /\ leaseIds <= leaseIds'
         /\ \A m \in Mints : (Used(m) => Used(m)') /\ (sigs[m] # {} => sigs'[m] # {})
<1>t. TypeOK
  BY Zenon DEF LeaseInv
<1>d. DOMAIN status = Mints
  BY Zenon, <1>t DEF TypeOK, Inv!TypeOK, Inv!Mints, Mints
<1>1. receipts \subseteq receipts'
  BY Zenon, InventorySteps DEF InventoryStep, Imported, Taken, Signed, Freed
<1>2. leaseIds <= leaseIds'
  <2>1. leaseIds' = leaseIds \/ leaseIds' = leaseIds + 1
    BY Zenon, RowSteps DEF RowStep, Move, Written
  <2>2. leaseIds \in 0 .. MaxLeases
    BY Zenon, <1>t DEF TypeOK
  <2> QED BY <2>1, <2>2, LeaseBounds
<1>3. \A m \in Mints : sigs[m] # {} => sigs'[m] # {}
  BY Zenon, InventorySteps DEF InventoryStep, Imported, Taken, Signed, Freed
<1>4. ASSUME NEW m \in Mints, Used(m) PROVE Used(m)'
  <2>g. ASSUME NEW f \in Mints, NEW st, status' = [status EXCEPT ![f] = st],
               status[f] \in {"unset", "available", "reserved"} \/ st \in {"signed", "quarantined"}
        PROVE  Used(m)'
    <3>1. CASE f # m
      BY Zenon, <1>d, <1>4, <2>g, <3>1 DEF Used
    <3>2. CASE f = m
      <4>1. status'[m] = st
        BY Zenon, <1>d, <2>g, <3>2
      <4>2. status[m] \notin {"unset", "available", "reserved"}
        BY <1>4 DEF Used
      <4> QED BY Zenon, <2>g, <3>2, <4>1, <4>2 DEF Used
    <3> QED BY Zenon, <3>1, <3>2
  <2>1. CASE UNCHANGED status
    BY Zenon, <1>4, <2>1 DEF Used
  <2>2. ASSUME Imported PROVE Used(m)'
    BY Zenon, <2>g, <2>2 DEF Imported
  <2>3. ASSUME NEW b \in Bindings, Taken(b) PROVE Used(m)'
    BY Zenon, <2>g, <2>3 DEF Taken
  <2>4. ASSUME NEW b \in Bindings, Freed(b) PROVE Used(m)'
    BY Zenon, <1>t, <2>g, <2>4, Typed DEF Freed
  <2>5. ASSUME NEW f \in Mints, Signed(f) PROVE Used(m)'
    BY Zenon, <2>g, <2>5 DEF Signed
  <2> QED BY Zenon, <2>1, <2>2, <2>3, <2>4, <2>5, InventorySteps DEF InventoryStep
<1> QED BY Zenon, <1>1, <1>2, <1>3, <1>4

\* A lease marked released has its receipt.
LEMMA ProvenStep == ASSUME LeaseInv, [Next]_vars PROVE ReleasedIsProven'
<1>t. TypeOK /\ ReleasedIsProven /\ receipts \subseteq receipts'
  BY Zenon, Monotone DEF LeaseInv
<1> SUFFICES ASSUME NEW m \in Mints, row'[m].state = "released"
             PROVE  \E q \in receipts' : /\ q.ticket = [id |-> row'[m].ref, mint |-> m]
                                         /\ q.binding = row'[m].binding
  BY Zenon DEF ReleasedIsProven
<1>1. CASE row'[m] = row[m]
  BY Zenon, <1>t, <1>1 DEF ReleasedIsProven
<1>2. CASE Move(m)
  <2>1. Proven(m)
    BY <1>2 DEF Move
  <2> QED BY Zenon, <1>t, <1>2, <2>1 DEF Move, Proven
<1>3. CASE Written(m)
  BY <1>3 DEF Written
<1>4. ASSUME NEW n \in Mints, n # m, RowStep(n) PROVE row'[m] = row[m]
  BY Zenon, <1>4 DEF RowStep
<1> QED BY Zenon, <1>1, <1>2, <1>3, <1>4, RowSteps DEF RowStep

\* What CallsTrue says of a reconcile call.
CallTrue(k) ==
  /\ rec[k].lease.id <= leaseIds /\ rec[k].lease.state \in {"reserved", "releasing", "signed-pending"}
  /\ row[rec[k].m].id = rec[k].lease.id =>
       row[rec[k].m].ref = rec[k].lease.ref /\ row[rec[k].m].binding = rec[k].lease.binding
  /\ rec[k].exists => rec[k].m \in landed
  /\ rec[k].pc \in {"signed", "quarantined"} => Used(rec[k].m)
  /\ rec[k].pc = "released" => Receipt(rec[k].lease)

\* The inventory's answer is true of the mint the call is about: a reservation
\* id never moves to another mint.
LEMMA AnswerTrue ==
  ASSUME LeaseInv, NEW k \in Reconcilers, ReconcileRelease(k),
         NEW m, m = rec[k].m, NEW l, l = rec[k].lease
  PROVE  /\ Answer(l) \in {"signed", "quarantined"} => Used(m)'
         /\ Answer(l) = "released" => Receipt(l)'
<1>t. TypeOK /\ Leased
  BY Zenon DEF LeaseInv
<1>0. rec[k].pc # "idle"
  BY DEF ReconcileRelease
<1>1. m \in Mints /\ l \in Leases
  BY Zenon, <1>t, <1>0, Typed
<1>2. l.binding \in Bindings /\ l.ref \in 1 .. MaxTickets
  BY Zenon, <1>t, <1>1, Typed
<1>3. ASSUME holding[l.binding].id = l.ref PROVE holding[l.binding].mint = m
  <2> DEFINE i == l.ref
             b == l.binding
             t == [id |-> i, mint |-> m]
  <2> HIDE DEF i, b
  <2>1. t.id = i /\ t.mint = m
    OBVIOUS
  <2> HIDE DEF t
  <2>2. Claim(t, b)
    BY Zenon, <1>0, <2>1 DEF Claim, i, b
  <2>3. holding[b].id = i /\ b \in Bindings /\ i \in 1 .. MaxTickets
    BY Zenon, <1>2, <1>3 DEF i, b
  <2>4. holding[b] = t
    BY <1>1, <2>2, <2>3, HeldTicket DEF t
  <2> QED BY Zenon, <2>1, <2>4 DEF b
<1>4. ASSUME Answer(l) \in {"signed", "quarantined"} PROVE Used(m)'
  <2>1. holding[l.binding].id = l.ref
    BY Zenon, <1>4 DEF Answer
  <2>2. holding[l.binding].mint = m
    BY Zenon, <1>3, <2>1
  <2>3. sigs[m] # {} \/ status[m] = "signed" \/ status[m] = "quarantined"
    BY <1>4, <2>2 DEF Answer
  <2>4. Used(m)
    BY Zenon, <1>t, <1>1, <2>3 DEF Leased, Used
  <2>5. Answer(l) # "released"
    BY <1>4
  <2>6. UNCHANGED status
    BY Zenon, <2>5 DEF ReconcileRelease, inventory
  <2> QED BY Zenon, <2>4, <2>6 DEF Used
<1>5. ASSUME Answer(l) = "released" PROVE Receipt(l)'
  <2>1. CASE Receipt(l)
    BY Zenon, <2>1 DEF ReconcileRelease, Receipt, inventory
  <2>2. CASE ~Receipt(l)
    <3>1. Inv!ReleaseUnsignedReservation(l.binding, l.ref)
      BY Zenon, <1>5, <2>2 DEF ReconcileRelease
    <3>2. holding[l.binding].id = l.ref
      BY Zenon, <1>5, <2>2 DEF Answer
    <3> DEFINE q == [ticket |-> holding[l.binding], binding |-> l.binding]
    <3>3. q \in receipts'
      BY Zenon, <1>t, <1>2, <3>1, ReleaseFacts
    <3>4. q.ticket.id = l.ref /\ q.binding = l.binding
      BY <3>2
    <3> QED BY Zenon, <3>3, <3>4 DEF Receipt
  <2> QED BY Zenon, <2>1, <2>2
<1> QED BY Zenon, <1>4, <1>5

\* What the calls know stays true of a row that still has the lease they read.
LEMMA CallsStep == ASSUME LeaseInv, [Next]_vars PROVE CallsTrue'
<1>t. TypeOK /\ CallsTrue /\ TypeOK'
  BY Zenon, TypeStep DEF LeaseInv
<1>i. leaseIds \in 0 .. MaxLeases /\ leaseIds' \in 0 .. MaxLeases
  BY Zenon, <1>t DEF TypeOK
<1>d. ASSUME NEW m \in Mints PROVE row[m].id \in 0 .. MaxLeases
  <2>1. row[m] \in Leases \/ row[m] = NoRow
    BY Zenon, <1>t, Typed
  <2> QED BY <2>1, LeaseBounds DEF Leases, NoRow
<1>m. /\ leaseIds <= leaseIds' /\ receipts \subseteq receipts' /\ landed \subseteq landed'
      /\ \A m \in Mints : Used(m) => Used(m)'
  BY Zenon, Monotone, LandSteps
<1>w. ASSUME NEW m \in Mints
      PROVE  \/ row'[m] = row[m]
             \/ Move(m)
             \/ Written(m)
  <2>1. ASSUME NEW n \in Mints, n # m, RowStep(n) PROVE row'[m] = row[m]
    BY Zenon, <2>1 DEF RowStep
  <2> QED BY Zenon, <2>1, RowSteps DEF RowStep
<1>1. ASSUME NEW m \in Mints, NEW n \in Mints, row'[m].state # "none", row'[n].state # "none",
             row'[m].binding = row'[n].binding
      PROVE  m = n
  <2>u. \A x, y \in Mints :
          row[x].state # "none" /\ row[y].state # "none" /\ row[x].binding = row[y].binding => x = y
    BY Zenon, <1>t DEF CallsTrue
  <2>1. CASE UNCHANGED row
    BY Zenon, <1>1, <2>u, <2>1
  <2>2. ASSUME NEW f \in Mints, RowStep(f), Move(f) PROVE m = n
    <3>1. \A x \in Mints : row'[x].state # "none" => row[x].state # "none"
      BY Zenon, <1>t, <2>2, Typed DEF RowStep, Move
    <3>2. \A x \in Mints : row'[x].binding = row[x].binding
      BY Zenon, <2>2 DEF RowStep, Move
    <3> QED BY Zenon, <1>1, <2>u, <3>1, <3>2
  <2>3. ASSUME NEW f \in Mints, RowStep(f), Written(f) PROVE m = n
    <3>1. \A x \in Mints \ {f} : row'[x] = row[x]
      BY Zenon, <2>3 DEF RowStep
    <3>2. \A x \in Mints : ~(row[x].state # "none" /\ row[x].binding = row'[f].binding)
      BY Zenon, <2>3 DEF Written, ByBinding
    <3>3. CASE m = f \/ n = f
      BY Zenon, <1>1, <3>1, <3>2, <3>3
    <3>4. CASE m # f /\ n # f
      BY Zenon, <1>1, <2>u, <3>1, <3>4
    <3> QED BY Zenon, <3>3, <3>4
  <2> QED BY Zenon, <2>1, <2>2, <2>3, RowSteps DEF RowStep
<1>2. ASSUME NEW m \in Mints PROVE row'[m].id <= leaseIds'
  <2>1. row[m].id <= leaseIds /\ row[m].id \in 0 .. MaxLeases
    BY Zenon, <1>t, <1>d DEF CallsTrue
  <2>2. row'[m].id = row[m].id \/ row'[m].id = leaseIds'
    BY Zenon, <1>w DEF Move, Written
  <2>3. leaseIds <= leaseIds'
    BY Zenon, <1>m
  <2> QED BY <1>i, <2>1, <2>2, <2>3, LeaseBounds
<1>3. ASSUME NEW k \in Reconcilers, rec'[k].pc # "idle" PROVE CallTrue(k)'
  <2>1. ASSUME NEW m \in Mints, row[m].state \in {"reserved", "releasing", "signed-pending"},
               rec'[k] = [pc |-> "decide", m |-> m, lease |-> row[m], exists |-> m \in landed],
               UNCHANGED <<inventory, row, leaseIds, landed>>
        PROVE  CallTrue(k)'
    <3>1. rec'[k].m = m /\ rec'[k].lease = row[m] /\ rec'[k].exists = (m \in landed)
      BY <2>1
    <3>2. rec'[k].pc \notin {"released", "signed", "quarantined"}
      BY <2>1
    <3>3. row[m].id <= leaseIds
      BY Zenon, <1>t DEF CallsTrue
    <3> QED BY Zenon, <2>1, <3>1, <3>2, <3>3 DEF CallTrue
  <2>2. ASSUME rec[k].pc # "idle", rec'[k].m = rec[k].m, rec'[k].lease = rec[k].lease,
               rec'[k].exists = rec[k].exists,
               \/ rec'[k].pc = rec[k].pc \/ rec'[k].pc = "release"
               \/ ReconcileRelease(k) /\ rec'[k].pc = Answer(rec[k].lease)
        PROVE  CallTrue(k)'
    <3>0. CallTrue(k)
      BY Zenon, <1>t, <2>2 DEF CallsTrue, CallTrue
    <3>p. PICK m \in Mints, l \in Leases : m = rec[k].m /\ l = rec[k].lease
      BY Zenon, <1>t, <2>2, Typed
    <3>q. rec'[k].m = m /\ rec'[k].lease = l
      BY Zenon, <2>2, <3>p
    <3>1. l.id <= leaseIds' /\ l.state \in {"reserved", "releasing", "signed-pending"}
      <4>1. l.id <= leaseIds /\ l.id \in 1 .. MaxLeases
        BY Zenon, <1>t, <3>0, <3>p, Typed DEF CallTrue
      <4>2. leaseIds <= leaseIds' /\ l.state \in {"reserved", "releasing", "signed-pending"}
        BY Zenon, <1>m, <3>0, <3>p DEF CallTrue
      <4>3. l.id <= leaseIds'
        BY <1>i, <4>1, <4>2, LeaseBounds
      <4> QED BY Zenon, <4>2, <4>3
    <3>2. ASSUME row'[m].id = l.id PROVE row'[m].ref = l.ref /\ row'[m].binding = l.binding
      <4>1. CASE row'[m] = row[m]
        BY Zenon, <3>0, <3>p, <3>2, <4>1 DEF CallTrue
      <4>2. CASE Move(m)
        BY Zenon, <3>0, <3>p, <3>2, <4>2 DEF CallTrue, Move
      <4>3. CASE Written(m)
        <5>1. l.id = leaseIds + 1 /\ l.id <= leaseIds
          BY Zenon, <3>0, <3>p, <3>2, <4>3 DEF CallTrue, Written
        <5> QED BY <1>i, <5>1, LeaseBounds
      <4> QED BY Zenon, <1>w, <4>1, <4>2, <4>3
    <3>3. rec'[k].exists => m \in landed'
      BY Zenon, <1>m, <2>2, <3>0, <3>p DEF CallTrue
    <3>4. rec'[k].pc \in {"signed", "quarantined"} => Used(m)'
      <4>1. CASE rec'[k].pc = rec[k].pc
        BY Zenon, <1>m, <3>0, <3>p, <4>1 DEF CallTrue
      <4>2. CASE rec'[k].pc = "release"
        BY <4>2
      <4>3. CASE ReconcileRelease(k) /\ rec'[k].pc = Answer(rec[k].lease)
        BY Zenon, <3>p, <4>3, AnswerTrue
      <4> QED BY Zenon, <2>2, <4>1, <4>2, <4>3
    <3>5. rec'[k].pc = "released" => Receipt(l)'
      <4>1. CASE rec'[k].pc = rec[k].pc
        BY Zenon, <1>m, <3>0, <3>p, <4>1 DEF CallTrue, Receipt
      <4>2. CASE rec'[k].pc = "release"
        BY <4>2
      <4>3. CASE ReconcileRelease(k) /\ rec'[k].pc = Answer(rec[k].lease)
        BY Zenon, <3>p, <4>3, AnswerTrue
      <4> QED BY Zenon, <2>2, <4>1, <4>2, <4>3
    <3> QED BY Zenon, <3>q, <3>1, <3>2, <3>3, <3>4, <3>5 DEF CallTrue, Used, Receipt
  <2>3. CASE rec'[k] = rec[k]
    BY Zenon, <1>3, <2>2, <2>3
  <2> QED BY Zenon, <1>3, <2>1, <2>2, <2>3, ReconcileSteps
<1> QED BY Zenon, <1>1, <1>2, <1>3 DEF CallsTrue, CallTrue

\* The induction starts from empty tables.
LEMMA InitInd == Init => LeaseInv
<1> SUFFICES ASSUME Init PROVE LeaseInv
  OBVIOUS
<1>i. /\ row = [m \in Mints |-> NoRow] /\ leaseIds = 0 /\ landed = {}
      /\ res = [r \in Reservers |-> Idle] /\ rec = [k \in Reconcilers |-> Idle]
      /\ status = [m \in Mints |-> "unset"] /\ sigs = [m \in Mints |-> {}]
      /\ holding = [b \in Bindings |-> Inv!NoTicket] /\ receipts = {} /\ tickets = 0
  BY Zenon DEF Init, Inv!Init, Inv!Mints, Mints, Inv!Unset
<1>v. /\ \A m \in Mints : row[m] = NoRow /\ status[m] = "unset" /\ sigs[m] = {}
      /\ \A r \in Reservers : res[r] = Idle
      /\ \A k \in Reconcilers : rec[k] = Idle
      /\ \A b \in Bindings : holding[b] = Inv!NoTicket
  BY Zenon, <1>i
<1>n. NoRow.state = "none" /\ NoRow.id = 0 /\ Idle.pc = "idle"
  BY DEF NoRow, Idle
<1>1. TypeOK
  <2>1. Inv!TypeOK
    BY LeaseBounds DEF Init, Inv!Init, Inv!TypeOK, Inv!Unset
  <2>2. /\ row \in [Mints -> Leases \cup {NoRow}] /\ landed \subseteq Mints
        /\ res \in [Reservers -> ReserveCalls] /\ rec \in [Reconcilers -> ReconcileCalls]
    BY Zenon, <1>i DEF ReserveCalls, ReconcileCalls
  <2>3. leaseIds \in 0 .. MaxLeases
    BY <1>i, LeaseBounds
  <2> QED BY Zenon, <2>1, <2>2, <2>3 DEF TypeOK
<1>2. ASSUME NEW t \in Inv!Tickets, NEW b \in Bindings PROVE ~Claim(t, b)
  <2>1. t.mint \in Mints /\ t # Inv!NoTicket
    BY Zenon, <1>1, Typed
  <2> QED BY Zenon, <1>i, <1>v, <1>n, <2>1 DEF Claim
<1>3. OneTicket
  BY Zenon, <1>2 DEF OneTicket
<1>4. Leased
  BY <1>i, <1>v DEF Leased, Used, Inv!Held
<1>5. CallsTrue
  <2>1. \A m \in Mints : row[m].id <= leaseIds
    BY <1>i, <1>v, <1>n
  <2> QED BY Zenon, <1>v, <1>n, <2>1 DEF CallsTrue
<1>6. ReleasedIsProven
  BY <1>v, <1>n DEF ReleasedIsProven
<1> QED BY Zenon, <1>1, <1>3, <1>4, <1>5, <1>6 DEF LeaseInv

\* However `reserve` and `reconcile` interleave and wherever they stop, every
\* reservation id has one mint and one binding, a used mint keeps its lease,
\* and what a call read stays true of a row that still has its lease id.
THEOREM LeaseInductive == Spec => []LeaseInv
<1>1. LeaseInv /\ [Next]_vars => LeaseInv'
  BY Zenon, TypeStep, TicketStep, LeasedStep, CallsStep, ProvenStep DEF LeaseInv
<1> QED BY <1>1, InitInd, PTL DEF Spec

\* A mint that signed is on the lease of the binding that holds its reservation,
\* past the point where reconcile may release it, for any number of calls.
THEOREM SignedAlwaysLeased == Spec => []SignedIsLeased
<1>1. LeaseInv => SignedIsLeased
  BY Zenon DEF LeaseInv, Leased, SignedIsLeased
<1> QED BY <1>1, LeaseInductive, PTL

\* A lease is marked released only when the inventory keeps the receipt.
THEOREM ReleasedAlwaysProven == Spec => []ReleasedIsProven
<1>1. LeaseInv => ReleasedIsProven
  BY Zenon DEF LeaseInv
<1> QED BY <1>1, LeaseInductive, PTL

-----------------------------------------------------------------------------
(* The two stores implement the life of a mint.                            *)

PlaceOf(m) ==
  IF sigs[m] # {} THEN <<"spent", row[m].binding>>
  ELSE IF row[m].state \in {"reserved", "signed-pending", "quarantined"}
    THEN <<"held", row[m].binding>> ELSE <<"stock">>

\* A step moves the mints whose place it changes.
LEMMA PlaceSteps ==
  /\ place = [m \in Mints |-> PlaceOf(m)]
  /\ (\A m \in Mints : PlaceOf(m)' = PlaceOf(m)) => place' = place
  /\ \A m \in Mints : (\A n \in Mints \ {m} : PlaceOf(n)' = PlaceOf(n)) =>
       place' = [place EXCEPT ![m] = PlaceOf(m)']
<1>1. place = [m \in Mints |-> PlaceOf(m)] /\ place' = [m \in Mints |-> PlaceOf(m)']
  BY Zenon DEF place, PlaceOf
<1>2. (\A m \in Mints : PlaceOf(m)' = PlaceOf(m)) => place' = place
  BY Zenon, <1>1
<1>3. ASSUME NEW m \in Mints, \A n \in Mints \ {m} : PlaceOf(n)' = PlaceOf(n)
      PROVE  place' = [place EXCEPT ![m] = PlaceOf(m)']
  BY Zenon, <1>1, <1>3
<1> QED BY Zenon, <1>1, <1>2, <1>3

\* Where each mint of a binding is: on the binding's only row.
LEMMA Placed ==
  ASSUME LeaseInv, NEW m \in Mints
  PROVE  /\ sigs[m] # {} => row[m].state \in {"signed-pending", "consumed", "quarantined"}
         /\ sigs[m] # {} => row[m].state # "none"
         /\ \A b : PlaceOf(m) \in {<<"held", b>>, <<"spent", b>>} =>
               row[m].state # "none" /\ row[m].binding = b
<1>1. sigs[m] # {} => row[m].state \in {"signed-pending", "consumed", "quarantined"}
  BY Zenon DEF LeaseInv, Leased
<1>2. sigs[m] # {} => row[m].state # "none"
  BY <1>1
<1>3. ASSUME NEW b, PlaceOf(m) \in {<<"held", b>>, <<"spent", b>>}
      PROVE  row[m].state # "none" /\ row[m].binding = b
  <2>1. CASE sigs[m] # {}
    BY <1>2, <1>3, <2>1 DEF PlaceOf
  <2>2. CASE sigs[m] = {}
    BY <1>3, <2>2 DEF PlaceOf
  <2> QED BY Zenon, <2>1, <2>2
<1> QED BY Zenon, <1>1, <1>2, <1>3

\* A change of a row takes the mint from stock, gives it back, or moves nothing.
LEMMA RowSimulates ==
  ASSUME LeaseInv, LeaseInv', NEW m \in Mints, RowStep(m)
  PROVE  Life!Next \/ place' = place
<1>t. TypeOK /\ CallsTrue
  BY Zenon DEF LeaseInv
<1>s. UNCHANGED sigs /\ UNCHANGED landed /\ \A n \in Mints \ {m} : row'[n] = row[n]
  BY Zenon DEF RowStep, inventory
<1>n. \A n \in Mints \ {m} : PlaceOf(n)' = PlaceOf(n)
  BY Zenon, <1>s DEF PlaceOf
<1>p. place' = [place EXCEPT ![m] = PlaceOf(m)'] /\ place[m] = PlaceOf(m)
  BY Zenon, <1>n, PlaceSteps
<1>e. PlaceOf(m)' = PlaceOf(m) => place' = place
  BY Zenon, <1>n, PlaceSteps
<1>k. ASSUME NEW b \in Bindings, PlaceOf(m) = <<"stock">>, PlaceOf(m)' = <<"held", b>>,
             \A n \in Mints \ {m} : ~(row[n].state # "none" /\ row[n].binding = b)
      PROVE  Life!Next
  <2>1. ASSUME NEW n \in Mints PROVE place[n] \notin {<<"held", b>>, <<"spent", b>>}
    <3>1. place[n] = PlaceOf(n)
      BY Zenon, PlaceSteps
    <3>2. CASE n = m
      <4>1. place[n] = <<"stock">>
        BY Zenon, <1>k, <1>p, <3>2
      <4>2. <<"stock">> \notin {<<"held", b>>, <<"spent", b>>}
        OBVIOUS
      <4> QED BY Zenon, <4>1, <4>2
    <3>3. CASE n # m
      <4>1. PlaceOf(n) \in {<<"held", b>>, <<"spent", b>>} => row[n].state # "none" /\ row[n].binding = b
        BY Placed
      <4>2. ~(row[n].state # "none" /\ row[n].binding = b)
        BY Zenon, <1>k, <3>3
      <4> QED BY Zenon, <3>1, <4>1, <4>2
    <3> QED BY Zenon, <3>2, <3>3
  <2>2. Life!Take(m, b)
    BY Zenon, <1>k, <1>p, <2>1 DEF Life!Take, Life!Stock, Life!Held, Life!Spent
  <2> QED BY Zenon, <2>2 DEF Life!Next
<1>1. CASE Move(m)
  <2> DEFINE b == row[m].binding
  <2>b. b \in Bindings /\ row[m].state # "none"
    BY Zenon, <1>t, <1>1, Typed DEF Move
  <2>1. CASE sigs[m] # {}
    <3>1. PlaceOf(m)' = PlaceOf(m)
      BY Zenon, <1>s, <1>1, <2>1 DEF PlaceOf, Move
    <3> QED BY Zenon, <1>e, <3>1
  <2>2. CASE sigs[m] = {} /\ row[m].state = "reserved" /\ row'[m].state = "releasing"
    <3>1. PlaceOf(m) = <<"held", b>> /\ PlaceOf(m)' = <<"stock">>
      BY <1>s, <2>2 DEF PlaceOf
    <3>2. Life!Return(m, b)
      BY Zenon, <1>p, <3>1 DEF Life!Return, Life!Stock, Life!Held
    <3> QED BY Zenon, <2>b, <3>2 DEF Life!Next
  <2>3. CASE sigs[m] = {} /\ row[m].state = "releasing" /\ row'[m].state = "quarantined"
    <3>1. PlaceOf(m) = <<"stock">>
      BY <2>3 DEF PlaceOf
    <3>2. PlaceOf(m)' = <<"held", b>>
      BY <1>s, <1>1, <2>3 DEF PlaceOf, Move
    <3>3. \A n \in Mints \ {m} : ~(row[n].state # "none" /\ row[n].binding = b)
      BY Zenon, <1>t, <2>b DEF CallsTrue
    <3> QED BY Zenon, <1>k, <2>b, <3>1, <3>2, <3>3
  <2>4. CASE /\ sigs[m] = {}
             /\ row[m].state \in {"reserved", "signed-pending", "quarantined"}
             /\ row'[m].state \in {"reserved", "signed-pending", "quarantined"}
    <3>1. PlaceOf(m)' = PlaceOf(m)
      BY Zenon, <1>s, <1>1, <2>4 DEF PlaceOf, Move
    <3> QED BY Zenon, <1>e, <3>1
  <2>5. CASE sigs[m] = {} /\ row[m].state = "releasing" /\ row'[m].state = "released"
    <3>1. PlaceOf(m) = <<"stock">> /\ PlaceOf(m)' = <<"stock">>
      BY <1>s, <2>5 DEF PlaceOf
    <3> QED BY Zenon, <1>e, <3>1
  <2>6. m \in landed => sigs[m] # {}
    BY Zenon DEF LeaseInv, Leased
  <2> QED BY <1>1, <2>1, <2>2, <2>3, <2>4, <2>5, <2>6 DEF Move
<1>2. CASE Written(m)
  <2>1. row[m].state \in {"none", "released"} /\ row'[m].state = "reserved" /\ row'[m] \in Leases
    BY Zenon, <1>2 DEF Written
  <2>p. PICK b \in Bindings : b = row'[m].binding
    BY Zenon, <1>t, <2>1, Typed
  <2>2. sigs[m] = {}
    <3>1. sigs[m] # {} => row[m].state \in {"signed-pending", "consumed", "quarantined"}
      BY Zenon, Placed
    <3> QED BY <2>1, <3>1
  <2>3. PlaceOf(m) = <<"stock">>
    BY <2>1, <2>2 DEF PlaceOf
  <2>4. PlaceOf(m)' = <<"held", b>>
    BY <1>s, <2>p, <2>1, <2>2 DEF PlaceOf
  <2>5. \A n \in Mints : ~(row[n].state # "none" /\ row[n].binding = b)
    BY Zenon, <1>2, <2>p DEF Written, ByBinding
  <2> QED BY Zenon, <1>k, <2>3, <2>4, <2>5
<1> QED BY Zenon, <1>1, <1>2 DEF RowStep

\* A first signature spends the mint; nothing else in the inventory moves it.
LEMMA InventorySimulates ==
  ASSUME LeaseInv, InventoryStep
  PROVE  Life!Next \/ place' = place
<1>r. UNCHANGED row
  BY Zenon DEF InventoryStep
<1>1. CASE UNCHANGED sigs
  <2>1. \A m \in Mints : PlaceOf(m)' = PlaceOf(m)
    BY Zenon, <1>r, <1>1 DEF PlaceOf
  <2> QED BY Zenon, <2>1, PlaceSteps
<1>2. ASSUME NEW m \in Mints, Signed(m) PROVE Life!Next \/ place' = place
  <2>n. \A n \in Mints \ {m} : PlaceOf(n)' = PlaceOf(n)
    BY Zenon, <1>r, <1>2 DEF PlaceOf, Signed
  <2>1. CASE (sigs[m] # {}) = (sigs'[m] # {})
    <3>1. PlaceOf(m)' = PlaceOf(m)
      BY Zenon, <1>r, <2>1 DEF PlaceOf
    <3> QED BY Zenon, <2>n, <3>1, PlaceSteps
  <2>2. CASE sigs[m] = {} /\ sigs'[m] # {}
    <3> DEFINE b == row[m].binding
    <3>1. row[m].state = "signed-pending" /\ row[m] \in Leases
      BY Zenon, <1>2 DEF Signed
    <3>2. PlaceOf(m) = <<"held", b>>
      BY <2>2, <3>1 DEF PlaceOf
    <3>3. PlaceOf(m)' = <<"spent", b>>
      BY Zenon, <1>r, <2>2 DEF PlaceOf
    <3>4. place[m] = <<"held", b>> /\ place' = [place EXCEPT ![m] = <<"spent", b>>]
      BY Zenon, <2>n, <3>2, <3>3, PlaceSteps
    <3>5. Life!Spend(m, b)
      BY Zenon, <3>4 DEF Life!Spend, Life!Held, Life!Spent
    <3>6. b \in Bindings
      BY Zenon, <3>1, Typed DEF LeaseInv
    <3> QED BY Zenon, <3>5, <3>6 DEF Life!Next
  <2>3. sigs[m] # {} => sigs'[m] # {}
    BY Zenon, <1>2 DEF Signed
  <2> QED BY Zenon, <2>1, <2>2, <2>3
<1> QED BY Zenon, <1>1, <1>2 DEF InventoryStep, Imported, Taken, Freed

\* The rows of the registry and the reservations of the inventory, written one
\* after the other by calls that may stop anywhere, together implement the life
\* of a mint: in stock, held by one launch, or spent by that launch for good.
THEOREM LeasesImplementLife == Spec => LifeSpec
<1>1. Init => Life!Init
  <2> SUFFICES ASSUME Init PROVE Life!Init
    OBVIOUS
  <2>1. \A m \in Mints : sigs[m] = {} /\ row[m].state = "none"
    BY DEF Init, Inv!Init, Inv!Mints, Mints, NoRow
  <2>2. \A m \in Mints : PlaceOf(m) = <<"stock">>
    BY <2>1 DEF PlaceOf
  <2> QED BY Zenon, <2>2, PlaceSteps DEF Life!Init, Life!Stock
<1>2. LeaseInv /\ LeaseInv' /\ [Next]_vars => [Life!Next]_place
  <2> SUFFICES ASSUME LeaseInv, LeaseInv', [Next]_vars PROVE Life!Next \/ place' = place
    BY Zenon
  <2>1. CASE \E m \in Mints : RowStep(m)
    BY Zenon, <2>1, RowSimulates
  <2>2. CASE InventoryStep
    BY Zenon, <2>2, InventorySimulates
  <2>3. CASE UNCHANGED row /\ UNCHANGED <<status, sigs, holding, receipts, tickets>>
    <3>1. \A m \in Mints : PlaceOf(m)' = PlaceOf(m)
      BY Zenon, <2>3 DEF PlaceOf
    <3> QED BY Zenon, <3>1, PlaceSteps
  <2> QED BY Zenon, <2>1, <2>2, <2>3, RowSteps, InventorySteps
<1> QED BY <1>1, <1>2, LeaseInductive, PTL DEF Spec, LifeSpec, Life!Spec
=============================================================================
