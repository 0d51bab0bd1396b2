---------------------------- MODULE Publication ----------------------------
(* Publication of a creator's token image, metadata document and banner      *)
(* (localnet/creation/publication.mjs, pinata.mjs,                           *)
(* publication-readiness.mjs).  A draft may be published ahead of its        *)
(* acceptance (request "pre"); the accepted request ("acc") reuses what was   *)
(* prepared.  Every provider write is journaled and charged before it is     *)
(* asked for; a lost answer is recovered, never posted again, unless the     *)
(* receipt is sealed: then its content id is computed locally and the pin    *)
(* runs in the background.  The provider (Pinata) is external: a post may    *)
(* not arrive, or may arrive with its answer lost.                           *)
(*                                                                           *)
(* Content is abstract: <<"image">>, <<"banner">>, and for the document      *)
(* <<"doc", id of the image it names>>.  A content id is <<who, content>>,    *)
(* "L" for the id computed from the bytes; the provider computes the same    *)
(* one when `agree` holds.  An operation is a journal key with its content.  *)
EXTENDS Naturals, FiniteSets, TLC

CONSTANTS
  Procs,        \* service processes sharing the database
  Slots,        \* which publications run: "pre", "core" (token), "banner"
  Sealable,     \* stages a funding-first creation seals ({}: not funding-first)
  PinCap,       \* daily pins of the smaller of the owner's and global quota
  ByteCap,      \* the same, for bytes
  MaxActive,    \* maxActive: publications in flight per process
  FailureLimit, \* failures after which a prepublication needs attention (10)
  MaxAttempts,  \* attempts and posts are counted up to this bound
  MaxCrashes, MaxDays

VARIABLES
  requests,  \* state of creation_prepublications ("pre") and creation_requests
  rows,      \* receipts, by journal key <<request, stage>>
  failures,  \* failures of the prepublication
  usage,     \* creation_publication_usage of the current day
  day,
  agree,     \* the provider computes the id that cidV0 computes
  artwork,   \* the owned image still has the accepted bytes
  pins,      \* external: operations the provider has pinned
  posts,     \* history: how often each operation was posted
  sealing,   \* per process: sealing is still trusted
  calls,     \* per process and slot: the stage() call in progress
  pinner,    \* per process: the tickSealed() in progress
  crashes

vars == <<requests, rows, failures, usage, day, agree, artwork, pins, posts,
          sealing, calls, pinner, crashes>>

Keys == {<<"pre", "image">>, <<"pre", "document">>, <<"acc", "image">>,
         <<"acc", "document">>, <<"acc", "banner">>}
NoCid == <<>>
NoRow == [state |-> "none", input |-> <<>>, cid |-> NoCid, attempts |-> 0]
Idle == [phase |-> "idle", stage |-> "image", mode |-> "none",
         key |-> <<"acc", "image">>, cid |-> NoCid]
Resting == [phase |-> "idle", key |-> <<"acc", "image">>, first |-> TRUE,
            cid |-> NoCid, verdict |-> "none"]
Bytes(stage) == IF stage = "document" THEN 1 ELSE 2

Request(s) == IF s = "pre" THEN "pre" ELSE "acc"
Local(c) == <<"L", c>>
ProviderCid(c) == IF agree THEN Local(c) ELSE <<"P", c>>
Op(k) == <<k, rows[k].input>>
Counted(n) == IF n < MaxAttempts THEN n + 1 ELSE n

\* What stage() is given: the owned bytes, or the document naming the image's URI.
Content(req, stage) ==
  IF stage = "document" THEN <<"doc", rows[<<req, "image">>].cid>> ELSE <<stage>>

---------------------------------------------------------------------------
Init ==
  /\ requests = [pre |-> "none", acc |-> "none"]
  /\ rows = [k \in Keys |-> NoRow]
  /\ failures = 0 /\ day = 1 /\ crashes = 0
  /\ usage = [pins |-> 0, bytes |-> 0]
  /\ agree \in BOOLEAN /\ artwork = "intact"
  /\ pins = {} /\ posts = [k \in Keys |-> 0]
  /\ sealing = [p \in Procs |-> Sealable # {}]
  /\ calls = [p \in Procs |-> [s \in Slots |-> Idle]]
  /\ pinner = [p \in Procs |-> Resting]

\* prepareDraft: the consented content is saved before anything is published.
prepareDraft ==
  /\ "pre" \in Slots /\ requests["pre"] = "none" /\ requests["acc"] = "none"
  /\ requests' = [requests EXCEPT !["pre"] = "pending"]
  /\ UNCHANGED <<rows, failures, usage, day, agree, artwork, pins, posts,
                 sealing, calls, pinner, crashes>>

\* The creator accepts the quote (creation/store.mjs): the request is 'accepted'.
Accept ==
  /\ requests["acc"] = "none"
  /\ requests' = [requests EXCEPT !["acc"] = "accepted"]
  /\ UNCHANGED <<rows, failures, usage, day, agree, artwork, pins, posts,
                 sealing, calls, pinner, crashes>>

\* source(): the request is accepted (or prepared) and the bytes are the owner's.
Publishable(req) ==
  requests[req] = IF req = "pre" THEN "pending" ELSE "accepted"

Active(p) == {s \in Slots : calls[p][s].phase # "idle"}

\* A rejected publication; a prepublication counts it and gives up at the limit.
\* The tick writes the draft's state whatever another process wrote meanwhile.
Fail(p, s) ==
  /\ calls' = [calls EXCEPT ![p][s] = Idle]
  /\ failures' = IF s = "pre" /\ failures < FailureLimit THEN failures + 1 ELSE failures
  /\ requests' = IF s # "pre" THEN requests
                 ELSE [requests EXCEPT !["pre"] =
                         IF failures + 1 >= FailureLimit THEN "attention" ELSE "pending"]

\* publish(): an identical request in flight is joined, a full process answers
\* 'publication-busy', otherwise perform() loads the source and starts its
\* stages (tickPrepublication does so for the draft that is due).
publish(p, s) ==
  /\ Publishable(Request(s)) /\ calls[p][s].phase = "idle"
  /\ Cardinality(Active(p)) < MaxActive
  /\ IF artwork = "intact"
       THEN /\ calls' = [calls EXCEPT ![p][s] =
                 [Idle EXCEPT !.phase = "admit",
                    !.stage = IF s = "banner" THEN "banner" ELSE "image"]]
            /\ UNCHANGED <<requests, failures>>
       ELSE s = "pre" /\ Fail(p, s)
  /\ UNCHANGED <<rows, usage, day, agree, artwork, pins, posts, sealing,
                 pinner, crashes>>

\* The call got its URI: the image is followed by the document that names it.
Advance(p, s, stage) ==
  /\ calls' = [calls EXCEPT ![p][s] =
        IF stage = "image" THEN [Idle EXCEPT !.phase = "admit", !.stage = "document"]
        ELSE Idle]
  /\ IF s = "pre" /\ stage = "document"
       THEN requests' = [requests EXCEPT !["pre"] = "published"] /\ failures' = 0
       ELSE UNCHANGED <<requests, failures>>

\* 'pending': the publication ends for now and is tried again later.
Pending(p, s) ==
  /\ calls' = [calls EXCEPT ![p][s] = Idle]
  /\ failures' = IF s = "pre" THEN 0 ELSE failures
  /\ requests' = IF s = "pre" THEN [requests EXCEPT !["pre"] = "pending"] ELSE requests

\* sealable(): this process still seals, and the input is small enough.
SealedCid(p, s, stage, c) ==
  IF sealing[p] /\ s # "pre" /\ stage \in Sealable THEN Local(c) ELSE NoCid

\* The receipt prepared for the same content under the other request, if any.
Prepared(s, stage, c) ==
  LET other == <<IF s = "pre" THEN "acc" ELSE "pre", stage>>
  IN  {k \in {other} \cap Keys :
         rows[k].input = c /\ rows[k].state \in {"publishing", "published"}}

HasQuota(stage) ==
  usage.pins + 1 <= PinCap /\ usage.bytes + Bytes(stage) <= ByteCap

Charge(stage) ==
  usage' = [pins |-> usage.pins + 1, bytes |-> usage.bytes + Bytes(stage)]

Insert(k, state, c, cid) ==
  rows' = [rows EXCEPT ![k] = [state |-> state, input |-> c, cid |-> cid, attempts |-> 0]]

AskFor(p, s, mode, k) ==
  calls' = [calls EXCEPT ![p][s].phase = "ask", ![p][s].mode = mode, ![p][s].key = k]

AdmitKnown(p, s, k, c) ==
  /\ rows[k].state # "none" /\ UNCHANGED <<rows, usage, sealing>>
  /\ CASE rows[k].input # c -> Fail(p, s)
       [] rows[k].input = c /\ rows[k].state \in {"published", "sealed"} ->
            IF rows[k].state = "sealed" /\ SealedCid(p, s, k[2], c) \notin {NoCid, rows[k].cid}
              THEN Fail(p, s) ELSE Advance(p, s, k[2])
       [] rows[k].input = c /\ rows[k].state = "attention" -> Pending(p, s)
       [] OTHER -> AskFor(p, s, "recover", k) /\ UNCHANGED <<requests, failures>>

\* A prepared receipt for the same bytes is reused (its id checks the local
\* computation), or first reconciled under its own operation.
AdmitPrepared(p, s, k, c, other) ==
  LET sealed == SealedCid(p, s, k[2], c) IN
  /\ UNCHANGED usage
  /\ \/ /\ rows[other].state = "publishing" /\ sealed = NoCid
        /\ AskFor(p, s, "prepared", other)
        /\ UNCHANGED <<rows, sealing, requests, failures>>
     \/ /\ rows[other].state = "published"
        /\ Insert(k, "published", c, rows[other].cid)
        /\ sealing' = IF sealed \notin {NoCid, rows[other].cid}
                        THEN [sealing EXCEPT ![p] = FALSE] ELSE sealing
        /\ Advance(p, s, k[2])

\* A new provider write: charged and journaled, sealed where it can be.
AdmitNew(p, s, k, c) ==
  LET sealed == SealedCid(p, s, k[2], c) IN
  /\ UNCHANGED sealing
  /\ IF HasQuota(k[2])
       THEN /\ Charge(k[2])
            /\ IF sealed # NoCid
                 THEN Insert(k, "sealed", c, sealed) /\ Advance(p, s, k[2])
                 ELSE /\ Insert(k, "publishing", c, NoCid)
                      /\ AskFor(p, s, "publish", k) /\ UNCHANGED <<requests, failures>>
       ELSE Fail(p, s) /\ UNCHANGED <<rows, usage>>

\* stage(): the admission transaction, under the advisory lock.
stageAdmitAlways(p, s) ==
  LET stage == calls[p][s].stage
      k == <<Request(s), stage>>
      c == Content(Request(s), stage)
  IN /\ calls[p][s].phase = "admit"
     /\ \/ AdmitKnown(p, s, k, c)
        \/ rows[k].state = "none" /\ AdmitNew(p, s, k, c)
     /\ UNCHANGED <<day, agree, artwork, pins, posts, pinner, crashes>>
stageAdmit(p, s) ==
  LET stage == calls[p][s].stage
      k == <<Request(s), stage>>
      c == Content(Request(s), stage)
      prepared == IF stage = "banner" THEN {} ELSE Prepared(s, stage, c)
      unresolved == \E o \in prepared : rows[o].state = "publishing"
      reuse == prepared # {} /\ ~(unresolved /\ SealedCid(p, s, stage, c) # NoCid)
  IN /\ calls[p][s].phase = "admit"
     /\ \/ AdmitKnown(p, s, k, c)
        \/ rows[k].state = "none" /\ reuse /\ \E o \in prepared : AdmitPrepared(p, s, k, c, o)
        \/ rows[k].state = "none" /\ ~reuse /\ AdmitNew(p, s, k, c)
     /\ UNCHANGED <<day, agree, artwork, pins, posts, pinner, crashes>>

\* The provider's publish: the post may not arrive, or its answer may be lost.
\* answered: what the caller learns.
ProviderPost(k, answered) ==
  /\ posts' = [posts EXCEPT ![k] = Counted(@)]
  /\ \E arrives \in {TRUE, answered} :
        pins' = IF arrives THEN pins \union {[op |-> Op(k), cid |-> ProviderCid(rows[k].input)]}
                ELSE pins

\* The provider's recover: found by operation id; absence is no permission to post.
ProviderHas(k) == \E pin \in pins : pin.op = Op(k)
ProviderList(k) == posts' = posts /\ pins' = pins

\* stage(): the provider is asked; failures and absence leave the stage pending.
stageAsk(p, s) ==
  LET k == calls[p][s].key
      got == [calls EXCEPT ![p][s].phase = "save", ![p][s].cid = ProviderCid(rows[k].input)]
  IN
  /\ calls[p][s].phase = "ask"
  /\ \/ /\ calls[p][s].mode = "publish" /\ ProviderPost(k, TRUE)
        /\ calls' = got /\ UNCHANGED <<requests, failures>>
     \/ calls[p][s].mode = "publish" /\ ProviderPost(k, FALSE) /\ Pending(p, s)
     \/ /\ calls[p][s].mode # "publish" /\ ProviderHas(k) /\ ProviderList(k)
        /\ calls' = got /\ UNCHANGED <<requests, failures>>
     \/ calls[p][s].mode # "publish" /\ ProviderList(k) /\ Pending(p, s)
  /\ UNCHANGED <<rows, usage, day, agree, artwork, sealing, pinner, crashes>>

\* stage(): the verified receipt is saved, once; a recovered prepared receipt
\* leads back to admission.
stageSave(p, s) ==
  LET k == calls[p][s].key
      saved == IF rows[k].state = "publishing"
                 THEN [rows EXCEPT ![k].state = "published", ![k].cid = calls[p][s].cid]
                 ELSE rows
  IN
  /\ calls[p][s].phase = "save"
  /\ rows' = saved
  /\ IF calls[p][s].mode = "prepared"
       THEN /\ calls' = [calls EXCEPT ![p][s] =
                 [Idle EXCEPT !.phase = "admit", !.stage = calls[p][s].stage]]
            /\ UNCHANGED <<requests, failures>>
       ELSE IF saved[k].cid = calls[p][s].cid /\ saved[k].state = "published"
              THEN Advance(p, s, k[2]) ELSE Fail(p, s)
  /\ UNCHANGED <<usage, day, agree, artwork, pins, posts, sealing, pinner, crashes>>

---------------------------------------------------------------------------
(* tickSealed: one due sealed receipt at a time per process.  The claim is a *)
(* compare-and-set on the attempts count, so reading and claiming is one step. *)
tickClaim(p, k) ==
  /\ pinner[p].phase = "idle" /\ rows[k].state = "sealed"
  /\ rows' = [rows EXCEPT ![k].attempts = Counted(@)]
  /\ pinner' = [pinner EXCEPT ![p] =
        [Resting EXCEPT !.phase = "ask", !.key = k, !.first = rows[k].attempts = 0]]
  /\ UNCHANGED <<requests, failures, usage, day, agree, artwork, pins, posts,
                 sealing, calls, crashes>>

\* sealedInput: the exact bytes are rebuilt and must give the sealed id.
Rebuilds(k) ==
  artwork = "intact" /\ Content("acc", k[2]) = rows[k].input /\ Local(rows[k].input) = rows[k].cid

Learned(p, cid, verdict) ==
  pinner' = [pinner EXCEPT ![p].phase = "save", ![p].cid = cid, ![p].verdict = verdict]

\* The provider is asked: recover first unless this is the first attempt, then
\* post; an answer with another id is a contradiction, silence an outage.
tickAsk(p) ==
  LET k == pinner[p].key
      answer == ProviderCid(rows[k].input)
      verdict == IF answer = rows[k].cid THEN "pinned" ELSE "mismatch"
      found == ~pinner[p].first /\ ProviderHas(k)
      quiet == pinner' = [pinner EXCEPT ![p] = Resting]
  IN
  /\ pinner[p].phase = "ask"
  /\ \/ ~Rebuilds(k) /\ ProviderList(k) /\ Learned(p, NoCid, "rebuild")
     \/ Rebuilds(k) /\ found /\ ProviderList(k) /\ Learned(p, answer, verdict)
     \/ Rebuilds(k) /\ ~found /\ ProviderPost(k, TRUE) /\ Learned(p, answer, verdict)
     \/ Rebuilds(k) /\ ~found /\ ProviderPost(k, FALSE) /\ quiet
     \/ Rebuilds(k) /\ ~pinner[p].first /\ ProviderList(k) /\ quiet
  /\ UNCHANGED <<requests, rows, failures, usage, day, agree, artwork, sealing,
                 calls, crashes>>

tickSave(p) ==
  LET k == pinner[p].key
      state == IF pinner[p].verdict = "pinned" THEN "published" ELSE "attention"
  IN
  /\ pinner[p].phase = "save"
  /\ rows' = IF rows[k].state = "sealed" THEN [rows EXCEPT ![k].state = state] ELSE rows
  /\ sealing' = IF pinner[p].verdict = "mismatch" THEN [sealing EXCEPT ![p] = FALSE] ELSE sealing
  /\ pinner' = [pinner EXCEPT ![p] = Resting]
  /\ UNCHANGED <<requests, failures, usage, day, agree, artwork, pins, posts,
                 calls, crashes>>

---------------------------------------------------------------------------
\* A process is lost with its calls; the next one trusts sealing again.
Crash(p) ==
  /\ crashes < MaxCrashes /\ crashes' = crashes + 1
  /\ calls' = [calls EXCEPT ![p] = [s \in Slots |-> Idle]]
  /\ pinner' = [pinner EXCEPT ![p] = Resting]
  /\ sealing' = [sealing EXCEPT ![p] = Sealable # {}]
  /\ UNCHANGED <<requests, rows, failures, usage, day, agree, artwork, pins, posts>>

NewDay ==
  /\ day < MaxDays /\ day' = day + 1
  /\ usage' = [pins |-> 0, bytes |-> 0]
  /\ UNCHANGED <<requests, rows, failures, agree, artwork, pins, posts, sealing,
                 calls, pinner, crashes>>

\* The private object store loses or replaces the owned bytes.
ArtworkLost ==
  /\ artwork = "intact" /\ artwork' = "altered"
  /\ UNCHANGED <<requests, rows, failures, usage, day, agree, pins, posts,
                 sealing, calls, pinner, crashes>>

Next ==
  \/ prepareDraft \/ Accept \/ NewDay \/ ArtworkLost
  \/ \E p \in Procs, s \in Slots :
        publish(p, s) \/ stageAdmit(p, s) \/ stageAsk(p, s) \/ stageSave(p, s)
  \/ \E p \in Procs : (\E k \in Keys : tickClaim(p, k)) \/ tickAsk(p) \/ tickSave(p) \/ Crash(p)

Spec == Init /\ [][Next]_vars

---------------------------------------------------------------------------

ready == \A stage \in {"image", "document"} : rows[<<"acc", stage>>].state = "published"

\* The URI a receipt names is final (publication.mjs:27-30, 142): whatever
\* process or recovery writes it, a content id never changes once it is known,
\* and a published receipt stays published.
UriIsFinal ==
  \A k \in Keys :
    /\ rows[k].cid # NoCid => rows'[k].cid = rows[k].cid
    /\ rows[k].state = "published" => rows'[k].state = "published"

\* A campaign whose readiness says ready has both contents at the provider
\* under the ids its receipts name, and its document names that very image:
\* sealed is identity, not availability (publication-readiness.mjs:1-4).
ReadyMeansPinned ==
  ready =>
    /\ \A stage \in {"image", "document"} :
         \E pin \in pins : pin.cid = rows[<<"acc", stage>>].cid
                           /\ pin.op[2] = rows[<<"acc", stage>>].input
    /\ rows[<<"acc", "document">>].input = <<"doc", rows[<<"acc", "image">>].cid>>

\* A write that is not sealed is posted at most once, however many answers are
\* lost and whichever process retries it (pinata.mjs: absence is no permission
\* to post again).
OnePostUnsealed ==
  \A k \in Keys : rows[k].attempts = 0 => posts[k] <= 1

\* Where nothing is sealed, the same image or document of one owner is posted
\* once in total: the accepted request reconciles or reuses what its draft
\* prepared, and the other way round (publication.mjs:72-88).
OnePostPerContent ==
  \A k, o \in Keys :
     k # o /\ rows[k].state # "none" /\ rows[k].input = rows[o].input
       /\ rows[k].attempts = 0 /\ rows[o].attempts = 0
     => posts[k] + posts[o] <= 1

\* Everything the provider holds was journaled and charged first: the pins of
\* all days together never exceed the quota of those days.
ChargedFirst ==
  /\ \A k \in Keys : posts[k] > 0 => rows[k].state # "none"
  /\ Cardinality({k \in Keys : posts[k] > 0}) <= PinCap * day
  /\ usage.pins <= PinCap /\ usage.bytes <= ByteCap

=============================================================================
