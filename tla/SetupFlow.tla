------------------------------ MODULE SetupFlow ------------------------------
(***************************************************************************)
(* The two setup packets of a legacy creation (localnet/creation:           *)
(* provision-plan, -wallet, -execution, -recovery, -registration): the      *)
(* native custody, then the campaign with its sealed terms.  Only the       *)
(* creator signs, so a packet that was offered may be relayed outside the   *)
(* service.  The terms name their opening time; a packet that missed it is  *)
(* replaced by a new generation of the terms.  Reads, looks at the chain    *)
(* and transactions of a call are separate steps.                           *)
(***************************************************************************)
EXTENDS Integers, Sequences, TLC

CONSTANTS Tabs, Window,
          Grace,      \* how late a campaign may be created (30 s in the code)
          Scheduled,  \* the reviewed start of a scheduled campaign
          MaxGen, MaxOffers, MaxHeight, MaxForks \* bounds

VARIABLES start,     \* the draft's start rule
          terms,     \* per stage, the opening time of each generation; <<>> unsealed
          offers,    \* creation_provision_offers
          rows,      \* per stage and generation, the journaled packet (offer 0: none)
          registered,\* the generation in the registry's campaign row
          call, height, final, landed, sent, forks
vars == <<start, terms, offers, rows, registered, call, height, final, landed, sent, forks>>

Stages == {"native-custody", "create-campaign"}
Native == "native-custody"
Create == "create-campaign"
Idle == [pc |-> "idle"]

Absent == [at |-> 0, ok |-> FALSE]
NoRow == [offer |-> 0, status |-> "awaiting-approval"]
Closed == {"failed", "expired"}
Ids == DOMAIN offers

Init ==
  /\ start \in {"scheduled", "after-creation"}
  /\ terms = [s \in Stages |-> <<>>] /\ offers = <<>> /\ registered = 0
  /\ rows = [s \in Stages |-> [g \in 1..MaxGen |-> NoRow]]
  /\ call = [t \in Tabs |-> Idle]
  /\ height = 1 /\ final = 1 /\ forks = 0 /\ sent = {}
  /\ landed = [o \in 1..MaxOffers |-> Absent]

Goto(t, c) == call' = [call EXCEPT ![t] = c]
Return(t) == Goto(t, Idle)
Chain == <<height, final, landed, sent, forks>>
Tables == <<start, terms, offers, rows, registered>>

(* The plan: its current generation per stage, its row, and the finalized   *)
(* chain it is compared with (the clock account is read there too).         *)
Sealed == terms[Create] # <<>>
Gen(s) == Len(terms[s])
Row(s) == rows[s][Gen(s)]
Late == final > terms[Create][Gen(Create)] + Grace
OnChain(s) == {offers[o].gen : o \in {p \in Ids : offers[p].stage = s /\ landed[p].ok /\ landed[p].at <= final}}
NativeDone == Row(Native).status = "finalized"

(* seal: the opening time is read from the chain before the transaction; a  *)
(* loser takes the winner's plan.                                           *)
SealRead(t) ==
  /\ call[t] = Idle /\ ~Sealed
  /\ start = "scheduled" => Scheduled > final
  /\ Goto(t, [pc |-> "seal", at |-> IF start = "scheduled" THEN Scheduled ELSE final])
  /\ UNCHANGED <<Tables, Chain>>

Seal(t) ==
  /\ call[t].pc = "seal"
  /\ terms' = IF Sealed THEN terms ELSE [s \in Stages |-> <<call[t].at>>]
  /\ Return(t)
  /\ UNCHANGED <<start, offers, rows, registered, Chain>>

(***************************************************************************)
(* The wallet: prepare an offer, submit and record its signature.           *)
(***************************************************************************)
Active(s) == {o \in Ids : offers[o].stage = s /\ offers[o].state = "open"}
active(s) == IF Active(s) = {} THEN 0 ELSE CHOOSE o \in Active(s) : TRUE
Supersede(s, g) ==
  [o \in Ids |-> IF offers[o].stage = s /\ offers[o].gen = g /\ offers[o].state = "open"
                   THEN [offers[o] EXCEPT !.state = "superseded"] ELSE offers[o]]

PrepareRead(t, s) ==
  /\ call[t] = Idle /\ Sealed /\ Row(s) = NoRow
  /\ s = Create => NativeDone /\ ~Late
  /\ height + Window < MaxHeight
  /\ LET reusable == active(s) # 0 /\ height <= offers[active(s)].last IN
     Goto(t, [pc |-> "offer", s |-> s, g |-> Gen(s), observed |-> active(s), reusable |-> reusable,
              last |-> IF reusable THEN offers[active(s)].last ELSE height + Window])
  /\ UNCHANGED <<Tables, Chain>>

PrepareCommit(t) ==
  /\ call[t].pc = "offer"
  /\ LET c == call[t]  now == active(c.s)
         keep == now # 0 /\ (now # c.observed \/ c.reusable) IN
     offers' = IF Gen(c.s) # c.g \/ Row(c.s) # NoRow \/ keep THEN offers
               ELSE Append(Supersede(c.s, c.g),
                           [stage |-> c.s, gen |-> c.g, last |-> c.last, state |-> "open"])
  /\ Len(offers') <= MaxOffers
  /\ Return(t)
  /\ UNCHANGED <<start, terms, rows, registered, Chain>>

(* checkOffer: an offer of the current terms, not superseded.               *)
checkOffer(o) == offers[o].state \in {"open", "approved"} /\ offers[o].gen = Gen(offers[o].stage)
preflight(o) == offers[o].stage = Create => OnChain(Native) # {} /\ OnChain(Create) = {} /\ ~Late

SubmitRead(t, o) ==
  /\ call[t] = Idle /\ checkOffer(o) /\ Row(offers[o].stage) = NoRow
  /\ height <= offers[o].last /\ preflight(o)
  /\ Goto(t, [pc |-> "record", o |-> o])
  /\ UNCHANGED <<Tables, Chain>>
Record(t) ==
  /\ call[t].pc = "record"
  /\ LET o == call[t].o  s == offers[o].stage IN
     IF checkOffer(o) /\ Row(s).offer \in {0, o}
       THEN /\ rows' = IF Row(s) # NoRow THEN rows
                       ELSE [rows EXCEPT ![s][Gen(s)] = [offer |-> o, status |-> "signed"]]
            /\ offers' = [offers EXCEPT ![o].state = "approved"]
       ELSE UNCHANGED <<rows, offers>>
  /\ Return(t)
  /\ UNCHANGED <<start, terms, registered, Chain>>

packetStatus(o) ==
  {"unknown"} \cup
  IF landed[o] # Absent
    THEN {IF landed[o].at > final THEN "observed" ELSE IF landed[o].ok THEN "finalized" ELSE "failed"}
    ELSE {IF final > offers[o].last THEN "expired" ELSE "absent"}

ResumeRead(t, s) ==
  /\ call[t] = Idle /\ Sealed /\ Row(s).status = "signed"
  /\ Goto(t, [pc |-> "status", s |-> s, g |-> Gen(s), o |-> Row(s).offer])
  /\ UNCHANGED <<Tables, Chain>>

ResumeStatus(t, v) ==
  /\ call[t].pc = "status" /\ v \in packetStatus(call[t].o)
  /\ LET c == call[t] IN
     CASE v = "absent" -> Goto(t, [c EXCEPT !.pc = "send"])
       [] v \in Closed \cup {"finalized"} ->
            Goto(t, [pc |-> "journal", s |-> c.s, g |-> c.g, o |-> c.o, v |-> v])
       [] OTHER -> Return(t)
  /\ UNCHANGED <<Tables, Chain>>

Send(t) ==
  /\ call[t].pc = "send"
  /\ sent' = sent \cup {call[t].o}
  /\ Return(t)
  /\ UNCHANGED <<Tables, height, final, landed, forks>>

Evidence(c) == c.v = "finalized" => c.g \in OnChain(c.s)
Journal(t) ==
  /\ call[t].pc = "journal"
  /\ LET c == call[t] IN
     rows' = IF Evidence(c) /\ rows[c.s][c.g].status = "signed"
               THEN [rows EXCEPT ![c.s][c.g].status = c.v] ELSE rows
  /\ Return(t)
  /\ UNCHANGED <<start, terms, offers, registered, Chain>>

(***************************************************************************)
(* recover: a new generation of the terms, once the row is closed at        *)
(* finality and every offer of the old terms is past its finalized expiry   *)
(* ("Even an unsigned offer could have been signed and relayed outside      *)
(* this API").  A scheduled start is fixed.                                 *)
(***************************************************************************)
Offered(s, g) == {[o |-> o, state |-> offers[o].state] : o \in {p \in Ids : offers[p].stage = s /\ offers[p].gen = g}}

RecoverRead(t, s) ==
  /\ call[t] = Idle /\ Sealed /\ Row(s).status # "finalized"
  /\ s = Create => NativeDone
  /\ Goto(t, [pc |-> "recoverStatus", s |-> s, g |-> Gen(s), row |-> Row(s), seen |-> Offered(s, Gen(s))])
  /\ UNCHANGED <<Tables, Chain>>

RecoverStatus(t, v) ==
  /\ call[t].pc = "recoverStatus"
  /\ LET c == call[t] IN
     /\ IF c.row = NoRow THEN v = "expired" ELSE v \in packetStatus(c.row.offer)
     /\ IF v \notin Closed THEN Return(t)
        ELSE Goto(t, [pc |-> "recoverEpoch", s |-> c.s, g |-> c.g, row |-> c.row, seen |-> c.seen, v |-> v])
  /\ UNCHANGED <<Tables, Chain>>

AllExpired(c) == \A r \in c.seen : final > offers[r.o].last
(* No new terms when nothing was signed and they are still in time, nor     *)
(* past the reviewed schedule.                                              *)
Replaceable(c) ==
  /\ OnChain(Create) = {}
  /\ c.s = Create /\ start = "scheduled" => final <= terms[Create][c.g] + Grace
  /\ c.row = NoRow => c.s = Create /\ final > terms[Create][c.g] + Grace
RecoverEpoch(t) ==
  /\ call[t].pc = "recoverEpoch"
  /\ LET c == call[t] IN
     IF AllExpired(c) /\ Replaceable(c) /\ c.g < MaxGen
       THEN Goto(t, [pc |-> "revise", s |-> c.s, g |-> c.g, row |-> c.row, seen |-> c.seen, v |-> c.v,
                     at |-> IF c.s = Native \/ start = "scheduled" THEN terms[c.s][1] ELSE final])
       ELSE Return(t)
  /\ UNCHANGED <<Tables, Chain>>

ReviseUnread(t) ==
  /\ call[t].pc = "revise"
  /\ LET c == call[t] IN
     IF Gen(c.s) # c.g THEN UNCHANGED <<rows, offers, terms>>
     ELSE /\ rows' = IF c.row = NoRow THEN rows ELSE [rows EXCEPT ![c.s][c.g].status = c.v]
          /\ offers' = Supersede(c.s, c.g)
          /\ terms' = [terms EXCEPT ![c.s] = Append(@, c.at)]
  /\ Return(t)
  /\ UNCHANGED <<start, registered, Chain>>

Revise(t) ==
  /\ call[t].pc = "revise"
  /\ LET c == call[t] IN
     IF Gen(c.s) # c.g \/ Row(c.s) # c.row \/ Offered(c.s, c.g) # c.seen
       THEN UNCHANGED <<rows, offers, terms>>
       ELSE /\ rows' = IF c.row = NoRow THEN rows ELSE [rows EXCEPT ![c.s][c.g].status = c.v]
            /\ offers' = Supersede(c.s, c.g)
            /\ terms' = [terms EXCEPT ![c.s] = Append(@, c.at)]
  /\ Return(t)
  /\ UNCHANGED <<start, registered, Chain>>

RegisterRead(t) ==
  /\ call[t] = Idle /\ Sealed /\ Row(Create).status = "finalized"
  /\ Goto(t, [pc |-> "register", g |-> Gen(Create)])
  /\ UNCHANGED <<Tables, Chain>>
Register(t) ==
  /\ call[t].pc = "register"
  /\ registered' = IF registered = 0 THEN call[t].g ELSE registered
  /\ Return(t)
  /\ UNCHANGED <<start, terms, offers, rows, Chain>>

(***************************************************************************)
(* The wallet's own relay, and the chain: the native custody is idempotent, *)
(* a campaign is created once and not later than Grace after its opening.   *)
(***************************************************************************)
Relay(o) == o \notin sent /\ sent' = sent \cup {o} /\ UNCHANGED <<height, final, landed, forks>>
Tick == height < MaxHeight /\ height' = height + 1 /\ UNCHANGED <<final, landed, sent, forks>>
Finalise == final < height /\ final' = final + 1 /\ UNCHANGED <<height, landed, sent, forks>>
Fork(h) ==
  /\ forks < MaxForks /\ h < height /\ h >= final
  /\ forks' = forks + 1 /\ height' = h
  /\ landed' = [o \in DOMAIN landed |-> IF landed[o].at > h THEN Absent ELSE landed[o]]
  /\ UNCHANGED <<final, sent>>
Land(o, ok) ==
  /\ o \in sent /\ landed[o] = Absent /\ height <= offers[o].last /\ height > final
  /\ ok /\ offers[o].stage = Create =>
       /\ \A p \in Ids : offers[p].stage = Create => ~landed[p].ok
       /\ terms[Create][offers[o].gen] >= height - Grace
       /\ \E p \in Ids : offers[p].stage = Native /\ landed[p].ok
  /\ landed' = [landed EXCEPT ![o] = [at |-> height, ok |-> ok]]
  /\ UNCHANGED <<height, final, sent, forks>>
ChainStep ==
  /\ \/ Tick \/ Finalise
     \/ \E h \in 1..MaxHeight : Fork(h)
     \/ \E o \in Ids : Relay(o) \/ \E ok \in BOOLEAN : Land(o, ok)
  /\ UNCHANGED <<Tables, call>>

Outcomes == {"unknown", "observed", "finalized", "failed", "expired", "absent"}
Wallet(t) ==
  \/ SealRead(t) \/ Seal(t) \/ (\E s \in Stages : PrepareRead(t, s)) \/ PrepareCommit(t)
  \/ (\E o \in Ids : SubmitRead(t, o)) \/ Record(t)
Resume(t) ==
  \/ (\E s \in Stages : ResumeRead(t, s)) \/ (\E v \in Outcomes : ResumeStatus(t, v))
  \/ Send(t) \/ Journal(t) \/ RegisterRead(t) \/ Register(t)
Recover(t) ==
  \/ (\E s \in Stages : RecoverRead(t, s)) \/ (\E v \in Outcomes : RecoverStatus(t, v))
  \/ RecoverEpoch(t) \/ Revise(t)
Next == ChainStep \/ \E t \in Tabs : Wallet(t) \/ Resume(t) \/ Recover(t)
Spec == Init /\ [][Next]_vars

(* The terms a campaign was created with are the service's current terms:   *)
(* recover never moves past a generation that lands, however the packet was *)
(* relayed.                                                                 *)
TermsFollowChain == \A o \in Ids : offers[o].stage = Create /\ landed[o].ok => offers[o].gen = Gen(Create)

(* Everything a later step relies on is on the finalized chain: a finalized *)
(* row's terms, the registered campaign's terms, and the native custody     *)
(* under an approved campaign packet.                                       *)
EvidenceIsOnChain ==
  /\ \A s \in Stages : \A g \in 1..MaxGen : rows[s][g].status = "finalized" => g \in OnChain(s)
  /\ registered # 0 => registered \in OnChain(Create)
  /\ (\E g \in 1..MaxGen : rows[Create][g] # NoRow) => OnChain(Native) # {}

(* A closed packet never creates the campaign afterwards.                   *)
ClosedStaysClosed ==
  \A g \in 1..MaxGen : LET r == rows[Create][g] IN
    r.status \in Closed => ~landed[r.offer].ok /\ (landed[r.offer] = Absent => final > offers[r.offer].last)

(* Terms that were replaced have no packet left open: their row was closed  *)
(* with the revision, or never written (Revise checks what it read).        *)
OldTermsClosed ==
  \A s \in Stages : \A g \in 1..Gen(s) - 1 : rows[s][g] = NoRow \/ rows[s][g].status \in Closed

(* The reviewed schedule and the native terms are never moved, and no       *)
(* generation is rewritten (recover keeps base.intent.opensAt).             *)
TermsOnlyGrow ==
  \A s \in Stages :
    /\ Len(terms'[s]) >= Len(terms[s])
    /\ \A g \in 1..Len(terms[s]) : terms'[s][g] = terms[s][g]
    /\ (s = Native \/ start = "scheduled") => \A g \in 1..Len(terms'[s]) : terms'[s][g] = terms'[s][1]
=============================================================================
