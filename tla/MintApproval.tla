---------------------------- MODULE MintApproval ----------------------------
(***************************************************************************)
(* The creator's one wallet approval (localnet/creation/mint-wallet.mjs,    *)
(* mint-approval.mjs, mint-execution.mjs, mint-recovery.mjs) for one        *)
(* accepted request.  Browser tabs and replicas share the offers, the       *)
(* packet journal, the retry permits and the mint lease.  A call's reads,   *)
(* its look at the chain and its transaction are separate steps; a process  *)
(* may stop between any two.  A packet is named by the offer it was built   *)
(* from (the offer fixes the blockhash, hence message and signature).       *)
(***************************************************************************)
EXTENDS Integers, Sequences, SequencesExt

CONSTANTS Tabs,
          Window,     \* block heights a blockhash stays valid
          Margin,     \* heights an open offer must have left to be shown again
          MaxAttempts,\* three in the code
          MaxOffers, MaxHeight, MaxForks, MaxStops \* bounds

VARIABLES offers,  \* creation_mint_offers, oldest first
          rows,    \* operator_packets of the operation, by attempt
          permits, \* creation_mint_retries, by generation
          lease,   \* the mint lease; 0 is NULL
          call,    \* what each tab is doing
          height, final, landed, sent, forks, \* the chain
          stops
vars == <<offers, rows, permits, lease, call, height, final, landed, sent, forks, stops>>

Idle == [pc |-> "idle"]
Absent == [at |-> 0, ok |-> FALSE]
Ids == DOMAIN offers

Init ==
  /\ offers = <<>> /\ rows = <<>> /\ permits = {}
  /\ lease = [state |-> "reserved", digest |-> 0, sig |-> 0]
  /\ call = [t \in Tabs |-> Idle]
  /\ height = 1 /\ final = 0 /\ landed = [o \in 1..MaxOffers |-> Absent]
  /\ sent = {} /\ forks = 0 /\ stops = 0

Goto(t, c) == call' = [call EXCEPT ![t] = c]
Return(t) == Goto(t, Idle)
Chain == <<height, final, landed, sent, forks, stops>>
Latest == rows[Len(rows)]
Closed == {"failed", "expired"}

PendingRetry ==
  /\ rows # <<>> /\ Latest.status \in Closed /\ Len(rows) < MaxAttempts
  /\ Len(rows) \in permits
  /\ lease = [state |-> "signed-pending", digest |-> Latest.offer, sig |-> Latest.offer]
MayOffer == rows = <<>> \/ PendingRetry

(***************************************************************************)
(* The wallet offers.                                                       *)
(***************************************************************************)
Active == {o \in Ids : offers[o].state = "open"}
active == IF Active = {} THEN 0 ELSE CHOOSE o \in Active : TRUE
Supersede(s) == [o \in DOMAIN s |-> IF s[o].state = "open" THEN [s[o] EXCEPT !.state = "superseded"] ELSE s[o]]

PrepareRead(t) ==
  /\ call[t] = Idle /\ MayOffer
  /\ lease.state = "reserved" \/ PendingRetry
  /\ height + Window < MaxHeight
  /\ LET reusable == active # 0 /\ offers[active].last >= height
                     /\ offers[active].last - height >= Margin IN
     Goto(t, [pc |-> "offer", observed |-> active, reusable |-> reusable,
              last |-> IF reusable THEN offers[active].last ELSE height + Window])
  /\ UNCHANGED <<offers, rows, permits, lease, Chain>>

(* Another replica's newer offer is returned rather than replaced.          *)
PrepareCommit(t) ==
  /\ call[t].pc = "offer"
  /\ LET c == call[t]
         keep == active # 0 /\ (active # c.observed \/ c.reusable) IN
     offers' = IF ~MayOffer \/ keep THEN offers
               ELSE Append(Supersede(offers), [last |-> c.last, state |-> "open"])
  /\ Len(offers') <= MaxOffers
  /\ Return(t)
  /\ UNCHANGED <<rows, permits, lease, Chain>>

(***************************************************************************)
(* submit and record.  The wallet may sign any offer it was ever shown.     *)
(***************************************************************************)
Submittable(o) == offers[o].state \in {"open", "approved"}
Duplicate(o) == rows # <<>> /\ Latest.offer = o

SubmitRead(t, o) ==
  /\ call[t] = Idle /\ Submittable(o)
  /\ Duplicate(o) \/ (MayOffer /\ lease.state # "consumed" /\ height <= offers[o].last)
  /\ Goto(t, [pc |-> "record", o |-> o])
  /\ UNCHANGED <<offers, rows, permits, lease, Chain>>

(* A first packet binds the lease (mintLeases.recordSigningIntent, or the   *)
(* winner check after it); a permitted retry replaces what it was bound to. *)
Bindable(o) ==
  \/ lease.state = "reserved"
  \/ lease.digest = o /\ (lease.state = "signed-pending" \/ (lease.state = "consumed" /\ lease.sig = o))
RecordableAsRead(o) == TRUE
Recordable(o) ==
  /\ Submittable(o)
  /\ IF Duplicate(o) \/ rows = <<>> THEN Bindable(o) ELSE PendingRetry

Record(t) ==
  LET o == call[t].o IN
  /\ call[t].pc = "record"
  /\ IF ~Recordable(o) THEN UNCHANGED <<rows, lease, offers>>
     ELSE /\ offers' = [offers EXCEPT ![o].state = "approved"]
          /\ IF Duplicate(o) THEN UNCHANGED <<rows, lease>>
             ELSE /\ rows' = Append(rows, [offer |-> o, status |-> "prepared", signed |-> FALSE])
                  /\ lease' = [state |-> "signed-pending", digest |-> o, sig |-> 0]
  /\ Return(t)
  /\ UNCHANGED <<permits, Chain>>

authorize ==
  /\ Latest.status \in {"prepared", "signed"}
  /\ lease.state = "signed-pending" /\ lease.digest = Latest.offer

ResumeRead(t) ==
  /\ call[t] = Idle /\ rows # <<>>
  /\ Latest.status \notin Closed
  /\ Latest.status = "finalized" => lease.state # "consumed"
  /\ IF Latest.status = "prepared"
       THEN authorize /\ Goto(t, [pc |-> "capture", o |-> Latest.offer])
       ELSE Goto(t, [pc |-> "execute"])
  /\ UNCHANGED <<offers, rows, permits, lease, Chain>>

CaptureSigned(t) ==
  LET o == call[t].o
      good == Latest.offer = o /\ lease.digest = o IN
  /\ call[t].pc = "capture"
  /\ IF good /\ lease.state = "signed-pending"
       THEN /\ rows' = IF Latest.status # "prepared" THEN rows
                       ELSE [rows EXCEPT ![Len(rows)].status = "signed", ![Len(rows)].signed = TRUE]
            /\ lease' = [lease EXCEPT !.sig = o]
       ELSE UNCHANGED <<rows, lease>>
  /\ IF good THEN Goto(t, [pc |-> "execute"]) ELSE Return(t)
  /\ UNCHANGED <<offers, permits, Chain>>

ExecuteRead(t) ==
  /\ call[t].pc = "execute"
  /\ LET o == Latest.offer IN
     IF ~Latest.signed \/ lease.sig # o \/ Latest.status \in Closed THEN Return(t)
     ELSE Goto(t, [pc |-> IF Latest.status = "finalized" THEN "consume" ELSE "status",
                   a |-> Len(rows), o |-> o])
  /\ UNCHANGED <<offers, rows, permits, lease, Chain>>

packetStatus(o) ==
  {"unknown"} \cup
  IF landed[o] # Absent
    THEN {IF landed[o].ok THEN (IF landed[o].at <= final THEN "finalized" ELSE "confirmed")
          ELSE (IF landed[o].at <= final THEN "failed" ELSE "observed")}
    ELSE {IF final > offers[o].last THEN "expired" ELSE "absent"}

ExecuteStatus(t, v) ==
  /\ call[t].pc = "status" /\ v \in packetStatus(call[t].o)
  /\ CASE v = "absent" -> Goto(t, [call[t] EXCEPT !.pc = "send"])
       [] v \in Closed \cup {"finalized"} ->
            Goto(t, [pc |-> "journal", a |-> call[t].a, o |-> call[t].o, v |-> v])
       [] OTHER -> Return(t)
  /\ UNCHANGED <<offers, rows, permits, lease, Chain>>

Send(t) ==
  /\ call[t].pc = "send"
  /\ sent' = sent \cup {call[t].o}
  /\ Return(t)
  /\ UNCHANGED <<offers, rows, permits, lease, height, final, landed, forks, stops>>

(* operatorPackets.progress is a compare-and-set from 'signed'; only a      *)
(* journal that now says finalized goes on to consume the lease.            *)
Journal(t) ==
  /\ call[t].pc = "journal"
  /\ LET c == call[t] IN
     /\ rows' = IF rows[c.a].status = "signed" THEN [rows EXCEPT ![c.a].status = c.v] ELSE rows
     /\ IF rows'[c.a].status = "finalized" THEN Goto(t, [pc |-> "consume", a |-> c.a, o |-> c.o])
        ELSE Return(t)
  /\ UNCHANGED <<offers, permits, lease, Chain>>

Consume(t) ==
  /\ call[t].pc = "consume"
  /\ lease' = IF lease.state = "signed-pending" /\ lease.sig = call[t].o
                THEN [lease EXCEPT !.state = "consumed"] ELSE lease
  /\ Return(t)
  /\ UNCHANGED <<offers, rows, permits, Chain>>

(***************************************************************************)
(* recover: arm one more generation.  The packet must be closed at finality *)
(* and every offer of the request past its last valid finalized height,     *)
(* and nothing may have changed since it was read.                          *)
(***************************************************************************)
RecoverRead(t) ==
  /\ call[t] = Idle /\ rows # <<>>
  /\ ~PendingRetry /\ Latest.signed /\ Latest.status # "finalized" /\ Len(rows) < MaxAttempts
  /\ lease = [state |-> "signed-pending", digest |-> Latest.offer, sig |-> Latest.offer]
  /\ Goto(t, [pc |-> "recoverStatus", a |-> Len(rows), row |-> Latest, seen |-> offers])
  /\ UNCHANGED <<offers, rows, permits, lease, Chain>>

RecoverStatus(t, v) ==
  /\ call[t].pc = "recoverStatus" /\ v \in packetStatus(call[t].row.offer)
  /\ IF v \notin Closed THEN Return(t)
     ELSE LET c == call[t] IN
          Goto(t, [pc |-> "recoverEpoch", a |-> c.a, row |-> c.row, seen |-> c.seen, v |-> v])
  /\ UNCHANGED <<offers, rows, permits, lease, Chain>>

AccountsExist == \E o \in Ids : landed[o].ok /\ landed[o].at <= final
AllExpired(seen) == \A o \in DOMAIN seen : final > seen[o].last
RecoverEpoch(t) ==
  /\ call[t].pc = "recoverEpoch"
  /\ IF AllExpired(call[t].seen) /\ ~AccountsExist
       THEN Goto(t, [call[t] EXCEPT !.pc = "arm"]) ELSE Return(t)
  /\ UNCHANGED <<offers, rows, permits, lease, Chain>>

Arm(t) ==
  /\ call[t].pc = "arm"
  /\ LET c == call[t]
         unchanged == Len(rows) = c.a /\ Latest = c.row /\ offers = c.seen
                      /\ lease.state = "signed-pending" /\ lease.sig = c.row.offer IN
     IF PendingRetry \/ ~unchanged \/ c.row.status \notin {"signed", c.v}
       THEN UNCHANGED <<rows, offers, permits>>
       ELSE /\ rows' = [rows EXCEPT ![c.a].status = c.v]
            /\ offers' = Supersede(offers)
            /\ permits' = permits \cup {c.a}
  /\ Return(t)
  /\ UNCHANGED <<lease, Chain>>

Stop(t) ==
  /\ call[t] # Idle /\ stops < MaxStops
  /\ stops' = stops + 1
  /\ Return(t)
  /\ UNCHANGED <<offers, rows, permits, lease, height, final, landed, sent, forks>>

(***************************************************************************)
(* The chain.  A broadcast packet lands while its blockhash is valid, once; *)
(* it fails if the mint exists already, or for want of funds.  A fork drops *)
(* what is not final.                                                       *)
(***************************************************************************)
Tick == height < MaxHeight /\ height' = height + 1 /\ UNCHANGED <<final, landed, sent, forks>>
Finalise == final < height /\ final' = final + 1 /\ UNCHANGED <<height, landed, sent, forks>>
Fork(h) ==
  /\ forks < MaxForks /\ h < height /\ h >= final
  /\ forks' = forks + 1 /\ height' = h
  /\ landed' = [o \in DOMAIN landed |-> IF landed[o].at > h THEN Absent ELSE landed[o]]
  /\ UNCHANGED <<final, sent>>
Land(o, ok) ==
  /\ o \in sent /\ landed[o] = Absent /\ height <= offers[o].last /\ height > final
  /\ ok => \A p \in Ids : ~landed[p].ok
  /\ landed' = [landed EXCEPT ![o] = [at |-> height, ok |-> ok]]
  /\ UNCHANGED <<height, final, sent, forks>>
ChainStep ==
  /\ \/ Tick \/ Finalise
     \/ \E h \in 0..MaxHeight : Fork(h)
     \/ \E o \in Ids, ok \in BOOLEAN : Land(o, ok)
  /\ UNCHANGED <<offers, rows, permits, lease, call, stops>>

Outcomes == {"unknown", "confirmed", "observed", "finalized", "failed", "expired", "absent"}
Wallet(t) == PrepareRead(t) \/ PrepareCommit(t) \/ (\E o \in Ids : SubmitRead(t, o)) \/ Record(t)
Resume(t) ==
  \/ ResumeRead(t) \/ CaptureSigned(t) \/ ExecuteRead(t)
  \/ (\E v \in Outcomes : ExecuteStatus(t, v)) \/ Send(t) \/ Journal(t) \/ Consume(t)
Recover(t) ==
  RecoverRead(t) \/ (\E v \in Outcomes : RecoverStatus(t, v)) \/ RecoverEpoch(t) \/ Arm(t)
Next == ChainStep \/ \E t \in Tabs : Wallet(t) \/ Resume(t) \/ Recover(t) \/ Stop(t)
Spec == Init /\ [][Next]_vars

(* While a packet may still succeed (it is final, or could still land after *)
(* a fork), no other packet of the request is recorded: the creator is      *)
(* never charged for two creations (recover's waits, record's permit).      *)
MaySucceed(o) ==
  IF landed[o] = Absent THEN final <= offers[o].last ELSE landed[o].ok \/ landed[o].at > final
OnePacketAlive == \A a \in DOMAIN rows : a < Len(rows) => ~MaySucceed(rows[a].offer)

(* What the journal closed is what the chain made final: a failed or        *)
(* expired row's packet can never succeed, a finalized row's packet did     *)
(* (resume and recover write from what they read earlier).                  *)
JournalIsFinal ==
  \A a \in DOMAIN rows :
    /\ rows[a].status \in Closed => ~MaySucceed(rows[a].offer)
    /\ rows[a].status = "finalized" => landed[rows[a].offer].ok /\ landed[rows[a].offer].at <= final

(* The lease is consumed only by the packet that made the mint, and it is   *)
(* the packet the lease and the last row name (markConsumed's caller).      *)
ConsumedByItsPacket ==
  lease.state = "consumed" =>
    /\ rows # <<>> /\ Latest.status = "finalized" /\ Latest.offer = lease.sig /\ lease.sig = lease.digest
    /\ landed[lease.sig].ok

(* Nothing is broadcast that the journal does not hold with its signature   *)
(* ("Persist the exact full packet before any caller is allowed to          *)
(* broadcast it"), and the wallet approved it.                              *)
BroadcastIsStored ==
  \A o \in sent : offers[o].state = "approved" /\ \E a \in DOMAIN rows : rows[a].offer = o /\ rows[a].signed

(* A retry follows a permit that names the packet before it, so the three   *)
(* attempts are a chain of closed packets (load's and permit's checks).     *)
RetriesArePermitted == \A a \in 1..Len(rows) - 1 : a \in permits /\ rows[a].status \in Closed

=============================================================================
