--------------------------- MODULE CreationQuotes ---------------------------
(* From a saved draft to an accepted creation: drafts with revisions         *)
(* (registry/async-api.mjs), the review that quotes them                     *)
(* (interaction-review/server/public-creation.mjs) and the quote store       *)
(* (localnet/creation/store.mjs).  One draft of one creator, edited and       *)
(* reviewed from several tabs, through replicas that may run different       *)
(* reviewed policies while a deploy is under way.                            *)
EXTENDS Naturals, Sequences, FiniteSets, TLC

CONSTANTS
  Tabs, Bodies, RequestKeys,
  Policies,   \* policy and plan hashes of the running replicas
  Validity,   \* validForMs, in ticks (two minutes)
  MaxRevision, MaxTime, MaxQuotes

VARIABLES
  draft,    \* creator_drafts: [revision, body, status]; revision 0: no row
  quotes,   \* creation_quotes, by id
  request,  \* creation_requests: the accepted request of the draft
  clock,    \* the database clock
  known,    \* per tab: the revision it last saw
  call,     \* per tab: the review call in progress
  answers   \* history: what each request key was answered

vars == <<draft, quotes, request, clock, known, call, answers>>

NoRequest == [quote |-> 0, body |-> "none", policy |-> 0, at |-> 0]
NoCall == [phase |-> "idle", key |-> "none", revision |-> 0, body |-> "none",
           policy |-> 0, quote |-> 0]

Init ==
  /\ draft = [revision |-> 0, body |-> "none", status |-> "draft"]
  /\ quotes = <<>> /\ request = NoRequest /\ clock = 0
  /\ known = [t \in Tabs |-> 0] /\ call = [t \in Tabs |-> NoCall]
  /\ answers = [k \in RequestKeys |-> {}]

\* drafts.get: the tab loads the draft.
Load(t) ==
  /\ known[t] # draft.revision /\ known' = [known EXCEPT ![t] = draft.revision]
  /\ UNCHANGED <<draft, quotes, request, clock, call, answers>>

Save(t, body) ==
  /\ draft.revision = known[t] /\ draft.status = "draft"
  /\ draft.revision < MaxRevision
  /\ draft' = [draft EXCEPT !.revision = @ + 1, !.body = body]
  /\ known' = [known EXCEPT ![t] = @ + 1]
  /\ UNCHANGED <<quotes, request, clock, call, answers>>

Prior(key) == {i \in DOMAIN quotes : quotes[i].key = key}

Answer(t, key, i) ==
  /\ answers' = [answers EXCEPT ![key] = @ \union {i}]
  /\ call' = [call EXCEPT ![t] = NoCall]

\* quote(): a request key that was answered is answered again if its terms are
\* the same; otherwise the draft is read, checked and priced.
QuoteRead(t, key, policy) ==
  /\ call[t].phase = "idle" /\ known[t] > 0
  /\ IF Prior(key) # {}
       THEN \E i \in Prior(key) :
              /\ quotes[i].revision = known[t] /\ quotes[i].policy = policy
              /\ Answer(t, key, i)
       ELSE /\ draft.revision = known[t] /\ draft.status = "draft"
            /\ call' = [call EXCEPT ![t] =
                 [NoCall EXCEPT !.phase = "issue", !.key = key, !.revision = draft.revision,
                                !.body = draft.body, !.policy = policy]]
            /\ UNCHANGED answers
  /\ UNCHANGED <<draft, quotes, request, clock, known>>

SameTerms(i, c) ==
  quotes[i].body = c.body /\ quotes[i].revision = c.revision /\ quotes[i].policy = c.policy

NewQuote(c) ==
  [key |-> c.key, revision |-> c.revision, body |-> c.body, policy |-> c.policy,
   expires |-> clock + Validity]

\* store.issue, under the draft's lock: an earlier answer of the same key wins
\* if its terms are the same; the draft must not have moved since it was priced.
IssueUnread(t) ==
  LET c == call[t] IN
  /\ c.phase = "issue" /\ Len(quotes) < MaxQuotes
  /\ quotes' = Append(quotes, NewQuote(c)) /\ Answer(t, c.key, Len(quotes) + 1)
  /\ UNCHANGED <<draft, request, clock, known>>

Issue(t) ==
  LET c == call[t]
      current == draft.revision = c.revision /\ draft.body = c.body /\ draft.status = "draft"
  IN
  /\ c.phase = "issue"
  /\ CASE Prior(c.key) # {} ->
            LET i == CHOOSE i \in Prior(c.key) : TRUE IN
            /\ IF SameTerms(i, c) THEN Answer(t, c.key, i)
               ELSE call' = [call EXCEPT ![t] = NoCall] /\ UNCHANGED answers
            /\ UNCHANGED quotes
       [] Prior(c.key) = {} /\ ~current ->
            call' = [call EXCEPT ![t] = NoCall] /\ UNCHANGED <<quotes, answers>>
       [] OTHER ->
            /\ Len(quotes) < MaxQuotes
            /\ quotes' = Append(quotes, NewQuote(c))
            /\ Answer(t, c.key, Len(quotes) + 1)
  /\ UNCHANGED <<draft, request, clock, known>>

\* accept(): the quote is read and must be of this replica's policy.
AcceptRead(t, i, policy) ==
  /\ call[t].phase = "idle" /\ quotes[i].policy = policy
  /\ call' = [call EXCEPT ![t] = [NoCall EXCEPT !.phase = "accept", !.quote = i]]
  /\ UNCHANGED <<draft, quotes, request, clock, known, answers>>

Refused(t) ==
  call' = [call EXCEPT ![t] = NoCall] /\ UNCHANGED <<draft, request>>

Accepted(t, q) ==
  /\ request' = [quote |-> call[t].quote, body |-> draft.body, policy |-> q.policy, at |-> clock]
  /\ draft' = [draft EXCEPT !.status = "creating"]
  /\ call' = [call EXCEPT ![t] = NoCall]

Accept(t) ==
  LET q == quotes[call[t].quote] IN
  /\ call[t].phase = "accept"
  /\ IF \/ request # NoRequest
        \/ draft.revision # q.revision \/ draft.body # q.body
        \/ draft.status # "draft" \/ clock >= q.expires
       THEN Refused(t) ELSE Accepted(t, q)
  /\ UNCHANGED <<quotes, clock, known, answers>>

Tick ==
  /\ clock < MaxTime /\ clock' = clock + 1
  /\ UNCHANGED <<draft, quotes, request, known, call, answers>>

Next ==
  \/ Tick
  \/ \E t \in Tabs :
       \/ Load(t) \/ Issue(t) \/ Accept(t)
       \/ \E body \in Bodies : Save(t, body)
       \/ \E key \in RequestKeys, policy \in Policies : QuoteRead(t, key, policy)
       \/ \E i \in DOMAIN quotes, policy \in Policies : AcceptRead(t, i, policy)

Spec == Init /\ [][Next]_vars

---------------------------------------------------------------------------

\* Rows and calls have the values the code writes.
TypeOK ==
  /\ draft.revision \in 0..MaxRevision /\ draft.status \in {"draft", "creating"}
  /\ \A i \in DOMAIN quotes : quotes[i].body \in Bodies /\ quotes[i].expires > 0
                              /\ quotes[i].revision \in 1..MaxRevision
  /\ \A t \in Tabs : call[t].phase \in {"idle", "issue", "accept"} /\ known[t] <= draft.revision

\* What is created is what was reviewed: whichever tab edits, quotes or accepts
\* last, the accepted request holds the body its quote was priced for, and the
\* draft keeps that body from then on (store.mjs:39, async-api.mjs:617).
AcceptedIsReviewed ==
  request # NoRequest =>
    /\ request.body = quotes[request.quote].body
    /\ draft.body = request.body /\ draft.revision = quotes[request.quote].revision

\* A quote is accepted only while its prices are valid, on the database clock.
AcceptedInTime ==
  request # NoRequest => request.at < quotes[request.quote].expires

\* A request key means one quote, however the calls of two tabs interleave
\* between the read and the insert (store.mjs:22-24).
OneQuotePerKey == \A k \in RequestKeys : Cardinality(answers[k]) <= 1

\* A creation that started is never restarted on other terms.
RequestIsFinal == request # NoRequest => request' = request

\* What keeps them true between the steps of several tabs: a row is complete,
\* a call in progress names rows that exist, a key has one row and every answer
\* to it is that row, and an accepted request is of a draft that is locked.
QuoteRows == [key: RequestKeys, revision: 1..MaxRevision, body: Bodies, policy: Policies,
              expires: Nat \ {0}]
Calls == [phase: {"idle", "issue", "accept"}, key: RequestKeys \cup {"none"}, revision: 0..MaxRevision,
          body: Bodies \cup {"none"}, policy: Policies \cup {0}, quote: Nat]
Rows ==
  /\ draft \in [revision: 0..MaxRevision, body: Bodies \cup {"none"}, status: {"draft", "creating"}]
  /\ draft.revision > 0 => draft.body \in Bodies
  /\ quotes \in Seq(QuoteRows) /\ clock \in Nat
  /\ known \in [Tabs -> 0..MaxRevision] /\ \A t \in Tabs : known[t] <= draft.revision
  /\ answers \in [RequestKeys -> SUBSET (DOMAIN quotes)]
InCall(c) ==
  /\ c.phase = "issue" => /\ c.key \in RequestKeys /\ c.revision \in 1..MaxRevision
                          /\ c.body \in Bodies /\ c.policy \in Policies
  /\ c.phase = "accept" => c.quote \in DOMAIN quotes
OneRowPerKey == \A i, j \in DOMAIN quotes : quotes[i].key = quotes[j].key => i = j
AnsweredByRow == \A k \in RequestKeys : \A i \in answers[k] : quotes[i].key = k
Locked ==
  request # NoRequest =>
    /\ request.quote \in DOMAIN quotes /\ draft.status = "creating"
    /\ request.body = quotes[request.quote].body /\ request.at < quotes[request.quote].expires
    /\ draft.body = request.body /\ draft.revision = quotes[request.quote].revision
QuotesInv ==
  /\ Rows /\ call \in [Tabs -> Calls] /\ \A t \in Tabs : InCall(call[t])
  /\ OneRowPerKey /\ AnsweredByRow /\ Locked
=============================================================================
