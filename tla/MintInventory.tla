--------------------------- MODULE MintInventory ---------------------------
(***************************************************************************)
(* The durable store of prepared mint keys (launcher-sdk                    *)
(* mint-inventory.js, SqliteVanityMintInventory).  Every method runs in one *)
(* SQLite write transaction, so each is one action; the signers await an    *)
(* authorisation first and re-read everything inside the transaction, so    *)
(* what the authorisation returns is an input of the action.                *)
(*                                                                          *)
(* Mints are numbered in the order they are created ("oldest first" is the  *)
(* smallest number).  A message is a model value; whether a packet decodes  *)
(* to the message its authorisation rebuilt is decided before the           *)
(* transaction and a packet that does not changes nothing.                  *)
(***************************************************************************)
EXTENDS Integers, FiniteSets, FiniteSetsExt

CONSTANTS Bindings,      \* (creator, draft, idempotency key) triples
          Messages,      \* transaction messages
          AssetIntents,  \* intents of the asset route
          PlanIntents,   \* intents of prepared launch plans
          Scopes,        \* funding-first campaigns
          MaxMints,      \* mints ever created
          MaxTickets,    \* reservations ever made
          MaxRetry,      \* 2 in the code: retries of an asset or an opening
          MaxLaunches,   \* 8 in the code: retries of a launch
          MaxAttempts,   \* 12 in the code: launch attempts
          Fallback       \* fallbackToOrdinaryMint

Mints == 1..MaxMints
Intents == AssetIntents \cup PlanIntents \cup Scopes
Tables == {"mint", "opening", "launch"}
Generations == 0..(MaxRetry + MaxLaunches)
Signatures == [table: Tables, generation: Generations, message: Messages, intent: Intents]
Unset == "unset"

VARIABLES status,     \* kids_mints.status; Unset: the mint does not exist yet
          intentHash, \* kids_mints.intent_hash
          coverage,   \* schema version of the frozen lookup coverage, 0 for none
          feeNft,     \* campaign of the fee-NFT key kept beside the mint
          sigs,       \* kids_mint_signatures and kids_funding_first_signatures
          holding,    \* kids_mint_reservations: binding -> [id, mint]
          receipts,   \* kids_mint_release_receipts
          tickets     \* reservation ids handed out

vars == <<status, intentHash, coverage, feeNft, sigs, holding, receipts, tickets>>
NoTicket == [id |-> 0, mint |-> 0]
Tickets == [id: 1..MaxTickets, mint: Mints]

Init ==
  /\ status = [m \in Mints |-> Unset]
  /\ intentHash = [m \in Mints |-> Unset]
  /\ coverage = [m \in Mints |-> 0]
  /\ feeNft = [m \in Mints |-> Unset]
  /\ sigs = [m \in Mints |-> {}]
  /\ holding = [b \in Bindings |-> NoTicket]
  /\ receipts = {}
  /\ tickets = 0

Held(b) == holding[b] # NoTicket
Available == {m \in Mints : status[m] = "available"}
Covered == {m \in Mints : coverage[m] # 0}
Fresh == {m \in Mints : status[m] = Unset}

Unexpired(m) == status[m] \in {"reserved", "signed"}
Stored(m, table, g) == {s \in sigs[m] : s.table = table /\ s.generation = g}

(* importPrivateKeyFile: a new key joins the pool, a known one is left alone *)
ImportPrivateKeyFile ==
  /\ Fresh # {}
  /\ status' = [status EXCEPT ![Min(Fresh)] = "available"]
  /\ UNCHANGED <<intentHash, coverage, feeNft, sigs, holding, receipts, tickets>>

(* The mints `reserve` would take, by the kind of reservation asked for. *)
FirstOf(S, T) == IF S # {} THEN {Min(S)} ELSE IF T # {} THEN {Min(T)} ELSE {}
Frozen == {m \in Mints : coverage[m] = 2}
Choice(lane) ==
  CASE lane = "plain"      -> FirstOf(Available \ Covered, Available)
    [] lane = "covered"    -> FirstOf(Available \cap Covered, {})
    [] lane = "prefer"     -> FirstOf(Available \cap Frozen, Available)
    [] lane = "unprepared" -> FirstOf(Available \cap Covered, Available \ Covered)

(* reserve: an existing reservation is returned as it is; otherwise the     *)
(* chosen mint, or an ordinary key made on the spot where that is allowed.  *)
Reserve(b, lane) ==
  /\ ~Held(b)
  /\ tickets < MaxTickets
  /\ \E m \in IF Choice(lane) # {} THEN Choice(lane)
              ELSE IF Fallback /\ lane # "covered" /\ Fresh # {} THEN {Min(Fresh)}
              ELSE {} :
       /\ status' = [status EXCEPT ![m] = "reserved"]
       /\ holding' = [holding EXCEPT ![b] = [id |-> tickets + 1, mint |-> m]]
  /\ tickets' = tickets + 1
  /\ UNCHANGED <<intentHash, coverage, feeNft, sigs, receipts>>

Releasable(m) ==
  /\ feeNft[m] = Unset
  /\ \A s \in sigs[m] : s.table # "mint"
  /\ status[m] = "reserved"

(* releaseUnsignedReservation: `expected` is the caller's reservation id, 0 *)
(* when it names none.  A receipt of that id answers a repeated call.       *)
ReleaseUnsignedReservation(b, expected) ==
  /\ ~\E r \in receipts : r.ticket.id = expected
  /\ Held(b)
  /\ expected \in {0, holding[b].id}
  /\ Releasable(holding[b].mint)
  /\ status' = [status EXCEPT ![holding[b].mint] = "available"]
  /\ receipts' = receipts \cup {[ticket |-> holding[b], binding |-> b]}
  /\ holding' = [holding EXCEPT ![b] = NoTicket]
  /\ UNCHANGED <<intentHash, coverage, feeNft, sigs, tickets>>

(* releaseUnsignedReservationByMint: the same release, found by the mint *)
ReleaseUnsignedReservationByMint(m) ==
  \E b \in Bindings : holding[b].mint = m /\ ReleaseUnsignedReservation(b, 0)

(* registerLookupCoverage: pinned once, before the mint is used *)
RegisterLookupCoverage(m, schema) ==
  /\ coverage[m] = 0
  /\ \/ status[m] = "available"
     \/ schema = 2 /\ status[m] = "reserved" /\ intentHash[m] = Unset
        /\ \A s \in sigs[m] : s.table # "mint"
  /\ coverage' = [coverage EXCEPT ![m] = schema]
  /\ UNCHANGED <<status, intentHash, feeNft, sigs, holding, receipts, tickets>>

(* Sign with the stored key and journal the signature; a key that does not  *)
(* decrypt to its own address quarantines the mint instead.                 *)
SignAndKeep(m, table, g, x, i) ==
  \/ /\ sigs' = [sigs EXCEPT ![m] = @ \cup
          {[table |-> table, generation |-> g, message |-> x, intent |-> i]}]
     /\ status' = [status EXCEPT ![m] = "signed"]
     /\ intentHash' = [intentHash EXCEPT ![m] = i]
     /\ UNCHANGED <<coverage, feeNft, holding, receipts, tickets>>
  \/ /\ status' = [status EXCEPT ![m] = "quarantined"]
     /\ UNCHANGED <<intentHash, coverage, feeNft, sigs, holding, receipts, tickets>>

Retains(m, table, g, previous) ==
  \E s \in Stored(m, table, g - 1) : s.message = previous
(* assetMintSigner, up to the answer replayed for a stored generation *)
BoundNowhere(m, i) == FALSE
BoundElsewhere(m, i) == intentHash[m] \notin {Unset, i}
AssetMintSigner(b, i, x, g, previous) ==
  /\ Held(b)
  /\ LET m == holding[b].mint IN
       /\ Unexpired(m)
       /\ ~BoundElsewhere(m, i)
       /\ g > 0 => Retains(m, "mint", g, previous)
       /\ Stored(m, "mint", g) = {}
       /\ SignAndKeep(m, "mint", g, x, i)

(* signPreparedMint: the plan's lookup coverage must be the installed one,  *)
(* and a generation older than the newest signed one is stale.              *)
CoverageServes(m, need) ==
  \/ need = "none"
  \/ need = "buy" /\ coverage[m] # 0
  \/ need = "zero-buy" /\ coverage[m] = 2
SignPreparedMint(b, i, x, g, need) ==
  /\ Held(b)
  /\ LET m == holding[b].mint IN
       /\ CoverageServes(m, need)
       /\ Unexpired(m)
       /\ ~BoundElsewhere(m, i)
       /\ \A s \in sigs[m] : s.table = "mint" => s.generation < g
       /\ SignAndKeep(m, "mint", g, x, i)

(* reserveFundingFirstKeys: the fee-NFT key is written, and the mint bound  *)
(* to the campaign, before either is shown.                                 *)
ReserveFundingFirstKeys(b, c) ==
  /\ Held(b)
  /\ LET m == holding[b].mint IN
       /\ Unexpired(m)
       /\ ~BoundElsewhere(m, c)
       /\ feeNft[m] = Unset
       /\ feeNft' = [feeNft EXCEPT ![m] = c]
       /\ intentHash' = [intentHash EXCEPT ![m] = c]
  /\ UNCHANGED <<status, coverage, sigs, holding, receipts, tickets>>

(* fundingFirstSign, for a generation not yet in the journal *)
FundingFirstSign(m, step, g, x, c, previous) ==
  /\ Stored(m, step, g) = {}
  /\ g > 0 => Retains(m, step, g, previous)
  /\ SignAndKeep(m, step, g, x, c)

BoundTo(m, c) == intentHash[m] = c /\ feeNft[m] = c

FundingFirstOpeningSigner(b, c, x, g, previous) ==
  /\ Held(b)
  /\ Unexpired(holding[b].mint)
  /\ BoundTo(holding[b].mint, c)
  /\ FundingFirstSign(holding[b].mint, "opening", g, x, c, previous)

(* The generation of a launch is the custody's own count of signed launches *)
SignedLaunches(m) == {s \in sigs[m] : s.table = "launch"}

LaunchGuard(m, c, attempt) ==
  /\ status[m] = "signed"
  /\ BoundTo(m, c)
  /\ \E s \in sigs[m] : s.table = "opening"
  /\ Cardinality(SignedLaunches(m)) <= MaxLaunches
  /\ attempt >= Cardinality(SignedLaunches(m)) + 1
FundingFirstLaunchSigner(m, c, x, attempt, previous) ==
  /\ \E b \in Bindings : holding[b].mint = m
  /\ LaunchGuard(m, c, attempt)
  /\ ~\E s \in SignedLaunches(m) : s.message = x
  /\ FundingFirstSign(m, "launch", Cardinality(SignedLaunches(m)), x, c, previous)

Next ==
  \/ ImportPrivateKeyFile
  \/ \E b \in Bindings, lane \in {"plain", "covered", "prefer", "unprepared"} : Reserve(b, lane)
  \/ \E b \in Bindings, expected \in 0..MaxTickets : ReleaseUnsignedReservation(b, expected)
  \/ \E m \in Mints : ReleaseUnsignedReservationByMint(m)
  \/ \E m \in Mints, schema \in 1..2 : RegisterLookupCoverage(m, schema)
  \/ \E b \in Bindings, i \in AssetIntents, x, p \in Messages, g \in 0..MaxRetry :
       AssetMintSigner(b, i, x, g, p)
  \/ \E b \in Bindings, i \in PlanIntents, x \in Messages, g \in 0..MaxRetry,
        need \in {"none", "buy", "zero-buy"} : SignPreparedMint(b, i, x, g, need)
  \/ \E b \in Bindings, c \in Scopes : ReserveFundingFirstKeys(b, c)
  \/ \E b \in Bindings, c \in Scopes, x, p \in Messages, g \in 0..MaxRetry :
       FundingFirstOpeningSigner(b, c, x, g, p)
  \/ \E m \in Mints, c \in Scopes, x, p \in Messages, attempt \in 1..MaxAttempts :
       FundingFirstLaunchSigner(m, c, x, attempt, p)

Spec == Init /\ [][Next]_vars
-----------------------------------------------------------------------------
(* The tables hold what their columns allow. *)
TypeOK ==
  /\ status \in [Mints -> {Unset, "available", "reserved", "signed", "quarantined"}]
  /\ intentHash \in [Mints -> Intents \cup {Unset}]
  /\ coverage \in [Mints -> 0..2]
  /\ feeNft \in [Mints -> Scopes \cup {Unset}]
  /\ sigs \in [Mints -> SUBSET Signatures]
  /\ holding \in [Bindings -> Tickets \cup {NoTicket}]
  /\ receipts \subseteq [ticket: Tickets, binding: Bindings]
  /\ tickets \in 0..MaxTickets

(* A mint out of the pool is held by exactly one reservation, a mint in the *)
(* pool by none: however reservations, releases and signers interleave, two *)
(* launches never share an address and none is lost.                        *)
OneHolder ==
  \A m \in Mints :
    Cardinality({b \in Bindings : holding[b].mint = m})
      = IF status[m] \in {Unset, "available"} THEN 0 ELSE 1

(* A key that signed anything signed for one intent of one route only, and  *)
(* its mint never goes back to the pool: a packet it signed could still     *)
(* land (releaseUnsignedReservation, the "another intent or route" guards). *)
OneRoute ==
  \A m \in Mints :
    /\ \A s, t \in sigs[m] : s.intent = t.intent
    /\ sigs[m] # {} => status[m] \in {"signed", "quarantined"}

(* A generation of a step names one message and, on the routes that retry,  *)
(* follows its predecessor: with the journal a lost answer is replayed and  *)
(* two different launches never both carry the newest signature.            *)
OneMessagePerGeneration ==
  \A m \in Mints : \A s, t \in sigs[m] :
    /\ s.table = t.table /\ s.generation = t.generation => s = t
    /\ s.generation > 0 /\ s.intent \notin PlanIntents
         => Stored(m, s.table, s.generation - 1) # {}

(* A launch is signed only for a mint whose opening was signed for the same *)
(* campaign with the fee-NFT key kept beside it, and both keys are kept.    *)
LaunchFollowsOpening ==
  \A m \in Mints : \A s \in SignedLaunches(m) :
    /\ feeNft[m] = s.intent
    /\ \E o \in sigs[m] : o.table = "opening" /\ o.intent = s.intent

(* A quarantined key signs nothing more, and no step erases a signature, a  *)
(* pinned coverage or a fee-NFT key.                                        *)
JournalGrows ==
  \A m \in Mints :
    /\ sigs[m] \subseteq sigs'[m]
    /\ status[m] = "quarantined" => status'[m] = "quarantined" /\ sigs'[m] = sigs[m]
    /\ coverage[m] # 0 => coverage'[m] = coverage[m]
    /\ feeNft[m] # Unset => feeNft'[m] = feeNft[m]

-----------------------------------------------------------------------------
(* The inductive invariant.                                                *)

(* A held mint is out of the pool and held once; a mint out of it is held. *)
Holders ==
  /\ \A b \in Bindings : Held(b) => status[holding[b].mint] \notin {Unset, "available"}
  /\ \A b, d \in Bindings : Held(b) /\ Held(d) /\ holding[b].mint = holding[d].mint => b = d
  /\ \A m \in Mints : status[m] \notin {Unset, "available"} => \E b \in Bindings : holding[b].mint = m

(* What a key signed, it signed for the intent its mint is bound to, and a  *)
(* fee-NFT key binds the mint to its campaign.                              *)
Journal ==
  \A m \in Mints :
    /\ IsFiniteSet(sigs[m])
    /\ \A s \in sigs[m] : s.intent = intentHash[m]
    /\ sigs[m] # {} => status[m] \in {"signed", "quarantined"}
    /\ feeNft[m] # Unset => intentHash[m] = feeNft[m]

InventoryInv == TypeOK /\ Holders /\ Journal /\ OneMessagePerGeneration /\ LaunchFollowsOpening
=============================================================================
