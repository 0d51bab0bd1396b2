---------------------------- MODULE SignerGrants ----------------------------
(***************************************************************************)
(* What a keeper may have signed, and what is held against its cost: the   *)
(* grants of one campaign in the registry (registry/async-api.mjs          *)
(* capabilities), the lookup of the grant that serves a request            *)
(* (signer/registry-service.mjs, signer/capabilities.mjs), the three gates *)
(* a message passes before its signature: the operation policy             *)
(* (signer-policy.mjs), the rent paid inside program calls                 *)
(* (signer/cpi-costs.mjs) and the exact cost template                      *)
(* (signer/standard-cost-reader.mjs, creation/operating-costs.mjs).        *)
(*                                                                         *)
(* Money is in thousands of lamports.  An account of b bytes costs         *)
(* (128 + b) * rate; the policy's own figures use NetworkRate, the rent    *)
(* measured on the ledger is `rate`.  Campaign "c" is the granted one, "d" *)
(* another.  The clock counts milliseconds; a registry host reads it with  *)
(* an error of at most Skew.                                               *)
(***************************************************************************)
EXTENDS Integers, Sequences, FiniteSets, SequencesExt, FiniteSetsExt

CONSTANTS MaxGrants, MaxTime, Skew, Life,
          Kinds      \* the kinds of grant asked for

VARIABLES
    time,      \* the true time
    rows,      \* signer_capabilities, in the order the transactions committed
    record,    \* accounting version of the campaign record: 0 or 2
    table,     \* entries of the keeper's lookup table on the ledger, 0: none
    terminal,  \* the campaign has failed and is refunded in full
    rate       \* rent per byte the ledger measures

vars == <<time, rows, record, table, terminal, rate>>

(***************************************************************************)
(* Messages.  An instruction names its program, its tag or kind, the party *)
(* it concerns (owner, payee, payer or campaign) and a number (receipt,    *)
(* count of addresses or lamports).                                        *)
(***************************************************************************)
Ix(p, t, of, n) == [p |-> p, t |-> t, of |-> of, n |-> n]
Kids(t, n)      == Ix("kids", t, "c", n)
Units           == Ix("compute", 2, "op", 0)
Msg(sigs, ixs)  == [sigs |-> sigs, ixs |-> <<Units>> \o ixs]

TemplateLength == 4     \* accounts of the launch template in a lookup table
Chunk          == 2     \* LOOKUP_TABLE_CHUNK

NetworkRate == 7
Size(b, r)  == (128 + b) * r
StaticAta   == Size(165, NetworkRate)
BaseFee     == 5
MetaplexFee == 10000

Limits == [rent |-> 20000, cpiFee |-> 10000, transfer |-> 500000]

KeeperTagsV2     == {2, 3, 4, 5, 6, 20, 21, 22, 23, 25, 26}
KeeperTagsV3     == KeeperTagsV2 \cup {42, 44, 45, 46, 47}

keeperTagsFor(v) == IF v >= 3 THEN KeeperTagsV3 ELSE KeeperTagsV2
NeverGrantable   == {0, 1, 7, 8, 9, 10}
UserTags         == {1, 7, 8, 10}
PolicyTags       == {2, 3, 4, 5, 6, 11, 20, 21, 22, 23, 24, 25, 26, 27,
                     42, 44, 45, 46, 47}

(***************************************************************************)
(* The registry: grant, latest, revoke.                                    *)
(***************************************************************************)
\* A grant as the operator or a job asks for it.
Ask(kind, version, tags, recipients) ==
    [kind |-> kind, version |-> version, tags |-> tags,
     recipients |-> recipients]

Asks == { Ask("keeper", 3, {3, 4, 6}, {}),
          Ask("keeper", 3, {42, 44, 45, 46, 47}, {}),
          Ask("keeper", 3, {2, 5, 21, 22, 23, 26}, {}),
          Ask("keeper", 2, {3, 4, 6}, {}),
          Ask("keeper", 2, {42}, {}),
          Ask("keeper", 3, {1, 3}, {}),
          Ask("keeper", 3, {20}, {"stranger"}),
          Ask("fee-setup", 3, {20}, {"treasury", "dev"}),
          Ask("fee-setup", 3, {20}, {"treasury", "stranger"}),
          Ask("operating-return", 3, {}, {"creator"}),
          Ask("operating-return", 3, {3}, {"creator"}) }

KindShape(a) ==
    CASE a.kind = "keeper" -> a.tags # {} /\ a.recipients = {}
      [] a.kind = "fee-setup" -> /\ a.version = 3 /\ a.tags = {20}
                                 /\ Cardinality(a.recipients) \in 1..2
      [] a.kind = "operating-return" -> /\ a.version = 3 /\ a.tags = {}
                                        /\ Cardinality(a.recipients) = 1

\* What capabilities.grant accepts.
Grantable(a) == a.tags \cap NeverGrantable = {} /\ KindShape(a)

\* Rows are compared by their stamp, then by their random identifier; `id`
\* ranges over the ways a new identifier can compare with the earlier ones.
Later(r, s) == r.created > s.created \/ (r.created = s.created /\ r.id > s.id)
Latest == CHOOSE i \in DOMAIN rows :
              \A j \in DOMAIN rows \ {i} : Later(rows[i], rows[j])

StampByHost(h) == h
Stamp(h) == IF rows = <<>> THEN h ELSE Max({h, rows[Latest].created + 1})

grant(a, h, id) ==
    /\ Len(rows) < MaxGrants
    /\ Grantable(a)
    /\ id \notin {rows[i].id : i \in DOMAIN rows}
    /\ rows' = Append(rows, [ask |-> a, created |-> Stamp(h), id |-> id,
                             until |-> time + Life, revoked |-> FALSE])
    /\ UNCHANGED <<time, record, table, terminal, rate>>

revoke(i) ==
    /\ ~rows[i].revoked
    /\ rows' = [rows EXCEPT ![i].revoked = TRUE]
    /\ UNCHANGED <<time, record, table, terminal, rate>>

(***************************************************************************)
(* The grant that serves a request at time t: the newest row or none.      *)
(***************************************************************************)
\* normalizeCapability repeats the registry's rules and bounds the tags of
\* versions 2 and 3.
Normal(a) == /\ Grantable(a)
             /\ a.version >= 2 => a.tags \subseteq keeperTagsFor(a.version)

\* Beneficiaries of a setup grant must be the ones sealed in the terms.
SealedRecipients == {"treasury", "dev"}
SetupSealed(a) == a.kind = "fee-setup" => a.recipients = SealedRecipients

LiveAt(r, t) == ~r.revoked /\ r.until > t

\* The row that serves, as a set of at most one index.
Served(t) ==
    IF rows = <<>> THEN {}
    ELSE {i \in {Latest} : /\ SetupSealed(rows[i].ask)
                           /\ Normal(rows[i].ask)
                           /\ LiveAt(rows[i], t)
                           /\ rows[i].ask.version = 3}

(***************************************************************************)
(* Gate 1: evaluateOperatorMessage, outside provisioning.                  *)
(***************************************************************************)
AtaOwners(a) == {"op", "auth"} \cup a.recipients

AllowedIx(ix, a) ==
    \/ ix.p = "compute" /\ ix.t \in {1, 2, 3, 4}
    \/ ix.p = "ata" /\ ix.of \in AtaOwners(a)
    \/ ix.p = "alt" /\ ix.t \in {0, 2} /\ ix.of = "op"
    \/ ix.p = "kids" /\ ix.t \in PolicyTags \ UserTags /\ ix.of = "c"

StaticRent(ix) ==
    CASE ix.p = "ata" -> StaticAta
      [] ix.p = "alt" /\ ix.t = 0 -> Size(56, NetworkRate)
      [] ix.p = "alt" /\ ix.t = 2 -> Size(32 * ix.n, NetworkRate)
      [] OTHER -> 0

Total(f(_), ixs) == FoldLeft(LAMBDA sum, ix : sum + f(ix), 0, ixs)
Uses(m, p) == \E k \in DOMAIN m.ixs : m.ixs[k].p = p
Tags(m)    == {m.ixs[k].t : k \in {j \in DOMAIN m.ixs : m.ixs[j].p = "kids"}}

evaluateOperatorMessage(m, a) ==
    /\ Len(m.ixs) <= 24
    /\ \A k \in DOMAIN m.ixs : AllowedIx(m.ixs[k], a)
    /\ Uses(m, "kids") \/ Uses(m, "alt") \/ Uses(m, "ata")

(***************************************************************************)
(* Gate 2: rent and protocol fees paid inside program calls.               *)
(***************************************************************************)
CpiRentIx(ix) ==
    CASE ix.p = "ata" -> Max({0, Size(165, rate) - StaticAta})
      [] ix.p = "kids" /\ ix.t = 6 ->
            Size(82, rate) + 2 * Size(165, rate) + Size(256, rate)
            + Size(679, rate)
      [] ix.p = "kids" /\ ix.t = 42 ->
            2 * Size(82, rate) + 4 * Size(165, rate) + Size(256, rate)
            + Size(607, rate)
      [] ix.p = "kids" /\ ix.t = 20 -> Size(160, rate)
      [] OTHER -> 0

CpiFeeIx(ix) == IF ix.p = "kids" /\ ix.t = 42 THEN MetaplexFee ELSE 0

CpiRent(m) == Total(CpiRentIx, m.ixs)
CpiFee(m)  == Total(CpiFeeIx, m.ixs)

\* Only classic token accounts are priced (t = 0), and the launches need
\* their auxiliary signers: the fee NFT, and for tag 42 also the child mint.
evaluateCpiRent(m) ==
    /\ \A k \in DOMAIN m.ixs :
          /\ m.ixs[k].p = "ata" => m.ixs[k].t = 0
          /\ m.ixs[k].p = "kids" /\ m.ixs[k].t = 6 => m.sigs >= 2
          /\ m.ixs[k].p = "kids" /\ m.ixs[k].t = 42 => m.sigs >= 3
    /\ CpiRent(m) <= Limits.rent
    /\ CpiFee(m) <= Limits.cpiFee

(***************************************************************************)
(* evaluateReturnMessage, evaluateCapabilityRequest.                       *)
(***************************************************************************)
CountP(m, p) == Cardinality({k \in DOMAIN m.ixs : m.ixs[k].p = p})

evaluateReturnMessage(m, a) ==
    /\ m.sigs = 1
    /\ Len(m.ixs) \in 1..4
    /\ \A k \in DOMAIN m.ixs :
          \/ m.ixs[k].p = "compute" /\ m.ixs[k].t \in {2, 3}
          \/ /\ m.ixs[k].p = "system" /\ m.ixs[k].t = 2
             /\ m.ixs[k].n \in 1..Limits.transfer
             /\ m.ixs[k].of \in a.recipients
          \/ m.ixs[k].p = "memo"
    /\ CountP(m, "system") = 1 /\ CountP(m, "memo") = 1

Moved(ix) == IF ix.p = "system" THEN ix.n ELSE 0
FixedRent(m) == Total(StaticRent, m.ixs)

\* A message without a launch instruction is table set-up and nothing else.
TableSetupAllowed(m, a) ==
    /\ 42 \in a.tags
    /\ \A k \in DOMAIN m.ixs : m.ixs[k].p \in {"compute", "alt"}

Approved(m, a) ==
    IF a.kind = "operating-return" THEN evaluateReturnMessage(m, a)
    ELSE /\ evaluateOperatorMessage(m, a)
         /\ Tags(m) \subseteq a.tags \cap keeperTagsFor(a.version)
         /\ Uses(m, "kids") \/ TableSetupAllowed(m, a)
         /\ evaluateCpiRent(m)
         /\ FixedRent(m) + CpiRent(m) <= Limits.rent

\* The lamports the signer charges its ledgers and holds for the packet.
Spend(m, a) ==
    IF a.kind = "operating-return" THEN Total(Moved, m.ixs) + BaseFee
    ELSE FixedRent(m) + CpiRent(m) + CpiFee(m) + BaseFee * m.sigs

(***************************************************************************)
(* Gate 3: the exact cost template, rebuilt from finalized accounts.       *)
(***************************************************************************)
\* createAssociatedTokenAccount for the fee authority (two mints), the
\* treasury and the creator's dev wallet, then fee initialisation.
feeSetupInstructions ==
    << Ix("ata", 0, "auth", 1), Ix("ata", 0, "auth", 2),
       Ix("ata", 0, "treasury", 2), Ix("ata", 0, "dev", 2), Kids(20, 0) >>

operatingReturnInstructions(n) ==
    << Ix("system", 2, "creator", n), Ix("memo", 0, "op", 0) >>

IsReturn(ixs) == /\ terminal
                 /\ ixs[1].n > 0
                 /\ ixs = operatingReturnInstructions(ixs[1].n)

\* A table packet: creation first when there is no table, then the next
\* chunks of the template, at most Chunk addresses each.
Added(ixs) == FoldLeft(LAMBDA s, ix : s + (IF ix.t = 2 THEN ix.n ELSE 0), 0, ixs)

IsTable(ixs) ==
    /\ record = 2
    /\ \A k \in DOMAIN ixs : /\ ixs[k].p = "alt" /\ ixs[k].of = "op"
                             /\ ixs[k].t = 2 \/ (ixs[k].t = 0 /\ k = 1)
                             /\ ixs[k].t = 2 => ixs[k].n \in 1..Chunk
    /\ (ixs[1].t = 0) <=> (table = 0)
    /\ Added(ixs) \in 1..(TemplateLength - table)

BookkeepingV2 == {44, 45, 46, 47}
Batched       == {3, 4, 44, 46}

IsProgram(ixs) ==
    LET t == ixs[1].t
        receipts == {ixs[k].n : k \in DOMAIN ixs} IN
    /\ \A k \in DOMAIN ixs : ixs[k].p = "kids" /\ ixs[k].of = "c" /\ ixs[k].t = t
    /\ Len(ixs) > 1 => t \in Batched
    /\ t \in Batched => Cardinality(receipts) = Len(ixs)
    /\ t \in BookkeepingV2 \cup {42} => record = 2
    /\ t \in {2, 3, 4, 5, 6} => record = 0
    /\ t \in {2, 3, 4, 5, 6, 20, 21, 23, 26, 42} \cup BookkeepingV2

\* Units first, 1 to 8 further instructions, one of the four templates.
Qualified(m) ==
    LET ixs == Tail(m.ixs) IN
    /\ m.ixs[1] = Units /\ Len(ixs) \in 1..8
    /\ \/ IsReturn(ixs)
       \/ ixs = feeSetupInstructions
       \/ IsTable(ixs)
       \/ IsProgram(ixs)

TableRent(ixs) ==
    Size(56 + 32 * (table + Added(ixs)), rate)
    - (IF table = 0 THEN 0 ELSE Size(56 + 32 * table, rate))

\* maximumRentLamports of the packet's cost intent; 0: network fee only.
Ceiling(m) ==
    LET ixs == Tail(m.ixs)
        t   == ixs[1].t IN
    CASE ixs = feeSetupInstructions -> Size(160, rate) + 4 * Size(165, rate)
      [] ixs[1].p = "alt" -> TableRent(ixs)
      [] ixs[1].p = "kids" /\ t = 6 ->
            Size(82, rate) + 2 * Size(165, rate) + Size(256, rate)
            + Size(679, rate)
      [] ixs[1].p = "kids" /\ t = 42 ->
            2 * Size(82, rate) + 4 * Size(165, rate) + Size(256, rate)
            + Size(607, rate) + MetaplexFee
      [] ixs[1].p = "kids" /\ t = 20 -> Size(160, rate)
      [] OTHER -> 0

\* rentCeiling: the ceiling must lie under the amount held.
Priced(m, a) == Qualified(m) /\ Ceiling(m) <= Spend(m, a)

\* The signer signs m at time t.
Signs(m, t) == \E i \in Served(t) : /\ Approved(m, rows[i].ask)
                                    /\ Priced(m, rows[i].ask)

(***************************************************************************)
(* The packets the jobs build.                                             *)
(***************************************************************************)
TablePacket(n) == Msg(1, IF table = 0
                         THEN <<Ix("alt", 0, "op", 0), Ix("alt", 2, "op", n)>>
                         ELSE <<Ix("alt", 2, "op", n)>>)

\* Job packets, each with the grant its job class holds.
Work ==
    { <<Msg(1, <<Kids(3, 1), Kids(3, 2)>>), {3, 4, 6}, 0>>,
      <<Msg(1, <<Kids(4, 1), Kids(4, 2)>>), {3, 4, 6}, 0>>,
      <<Msg(2, <<Kids(6, 0)>>), {3, 4, 6}, 0>>,
      <<Msg(3, <<Kids(42, 0)>>), {42, 44, 45, 46, 47}, 2>>,
      <<Msg(1, <<Kids(44, 1), Kids(44, 2)>>), {42, 44, 45, 46, 47}, 2>>,
      <<Msg(1, <<Kids(45, 0)>>), {42, 44, 45, 46, 47}, 2>>,
      <<Msg(1, <<Kids(46, 1)>>), {42, 44, 45, 46, 47}, 2>>,
      <<Msg(1, <<Kids(47, 0)>>), {42, 44, 45, 46, 47}, 2>>,
      <<Msg(1, <<Kids(21, 1)>>), {2, 5, 21, 22, 23, 26}, record>>,
      <<Msg(1, <<Kids(23, 0)>>), {2, 5, 21, 22, 23, 26}, record>>,
      <<Msg(1, <<Kids(26, 1)>>), {2, 5, 21, 22, 23, 26}, record>>,
      <<Msg(1, feeSetupInstructions), {20}, record>> }

Returned == Msg(1, operatingReturnInstructions(9))

Ixs == {Units, Ix("compute", 9, "op", 0)}
       \cup {Ix("kids", t, k, 1) : t \in {0, 1, 3, 6, 20, 22, 42, 44},
                                   k \in {"c", "d"}}
       \cup {Ix("ata", t, w, 1) : t \in 0..1, w \in {"auth", "dev", "stranger"}}
       \cup {Ix("alt", t, w, 1) : t \in {0, 2, 3}, w \in {"op", "stranger"}}
       \cup {Ix("system", 2, w, 9) : w \in {"creator", "stranger"}}
       \cup {Ix("memo", 0, "op", 0), Ix("token", 7, "op", 0)}

\* Messages offered: each job packet, each with one instruction more, and
\* every one- and two-instruction message.
JobPackets == {w[1] : w \in Work} \cup {Returned, TablePacket(Chunk)}
Offered ==
    JobPackets
    \cup {[m EXCEPT !.ixs = Append(@, i)] : m \in JobPackets, i \in Ixs}
    \cup {Msg(1, <<i>>) : i \in Ixs}
    \cup {Msg(3, <<i, j>>) : i \in Ixs, j \in Ixs}

(***************************************************************************)
(* The system.                                                             *)
(***************************************************************************)
Tick == time < MaxTime /\ time' = time + 1
        /\ UNCHANGED <<rows, record, table, terminal, rate>>

\* A signed table packet lands.
Extend == \E n \in 1..Chunk :
            /\ Signs(TablePacket(n), time)
            /\ table' = table + n
            /\ UNCHANGED <<time, rows, record, terminal, rate>>

Refunded == /\ ~terminal /\ terminal' = TRUE
            /\ UNCHANGED <<time, rows, record, table, rate>>

Init == /\ time = Skew /\ rows = <<>> /\ record \in {0, 2} /\ table = 0
        /\ terminal = FALSE /\ rate \in {3, NetworkRate}

Next == \/ \E a \in {b \in Asks : b.kind \in Kinds},
              h \in (time - Skew)..(time + Skew), id \in 1..MaxGrants :
              grant(a, h, id)
        \/ \E i \in DOMAIN rows : revoke(i)
        \/ Tick \/ Extend \/ Refunded

Spec == Init /\ [][Next]_vars

-----------------------------------------------------------------------------

\* The last grant committed decides: whatever clock the granting hosts read,
\* only the row of the last transaction can serve, and its revocation or
\* expiry leaves the campaign unserved rather than reviving an older grant.
LatestGrantDecides == Served(time) \subseteq {Len(rows)}

\* Who may gain: a signed message touches campaign "c" only, with tags the
\* last grant names and never a user's or creator's, opens token accounts
\* only for the campaign's authority or the beneficiaries sealed in its
\* terms, and moves lamports only to the sealed creator of a campaign that
\* is refunded in full.
Beneficiary(ix) ==
    CASE ix.p = "kids" -> /\ ix.of = "c" /\ ix.t \notin NeverGrantable
                          /\ ix.t \in rows[Len(rows)].ask.tags
      [] ix.p = "ata" -> ix.of \in {"auth"} \cup SealedRecipients
      [] ix.p = "alt" -> ix.of = "op"
      [] ix.p = "system" -> ix.of = "creator" /\ terminal
      [] OTHER -> ix.p \in {"compute", "memo"}
SignsOnlyGranted ==
    Served(time) # {} =>
       \A m \in Offered : Signs(m, time) =>
          \A k \in DOMAIN m.ixs : Beneficiary(m.ixs[k])

\* The gates agree: every packet a job builds for this kind of record is
\* signed under the live grant that job holds, at either rent the ledger
\* may measure, so no job is refused by one gate for what another demands.
LiveAsk(kind, tags) ==
    /\ rows # <<>> /\ LiveAt(rows[Len(rows)], time)
    /\ rows[Len(rows)].ask.kind = kind /\ rows[Len(rows)].ask.version = 3
    /\ rows[Len(rows)].ask.tags = tags
WorkIsSigned ==
    /\ \A w \in Work :
          (w[3] = record /\ \E kind \in {"keeper", "fee-setup"} :
               LiveAsk(kind, w[2])
               /\ (kind = "fee-setup" =>
                      rows[Len(rows)].ask.recipients = SealedRecipients))
          => Signs(w[1], time)
    /\ LiveAsk("operating-return", {}) /\ terminal => Signs(Returned, time)
    /\ (record = 2 /\ table < TemplateLength
        /\ LiveAsk("keeper", {42, 44, 45, 46, 47})) =>
          Signs(TablePacket(Min({Chunk, TemplateLength - table})), time)

\* What the ledger takes from the keeper for m beyond the network fee, when
\* every account has still to be created.
LedgerCost(m) ==
    LET made(ix) ==
          CASE ix.p = "ata" -> Size(165, rate)
            [] ix.p = "kids" /\ ix.t = 6 ->
                  Size(82, rate) + 2 * Size(165, rate) + Size(256, rate)
            [] ix.p = "kids" /\ ix.t = 20 -> Size(160, rate)
            [] ix.p = "kids" /\ ix.t = 42 ->
                  2 * Size(82, rate) + 4 * Size(165, rate) + Size(256, rate)
                  + Size(607, rate) + MetaplexFee
            [] OTHER -> 0
    IN Total(made, m.ixs)
       + (IF Uses(m, "alt") THEN TableRent(Tail(m.ixs)) ELSE 0)

\* The ceiling covers the ledger: for every signed message the rent ceiling
\* its accounting will accept, and the amount held, are at least what the
\* ledger takes.
CeilingCovers ==
    \A i \in Served(time), m \in Offered :
        Signs(m, time) /\ ~Uses(m, "system") =>
           /\ LedgerCost(m) <= Ceiling(m)
           /\ LedgerCost(m) + BaseFee * m.sigs <= Spend(m, rows[i].ask)
=============================================================================
