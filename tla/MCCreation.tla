----------------------------- MODULE MCCreation -----------------------------
(***************************************************************************)
(* How a launch is created: the quotes and their acceptance, the work that *)
(* carries a creation on, the setup packets with their terms, and the      *)
(* publication of the media.  They share no state, so one run explores     *)
(* them side by side: `part` says which of them moves and the variables of *)
(* the others rest.                                                        *)
(***************************************************************************)
EXTENDS Integers, Sequences

VARIABLE part   \* the component this behaviour is about
VARIABLES draft, quotes, request, clock, known, call, answers, prep, lease,
          custody, plan, packet, setup, registered, activated, work, worker,
          wakes, crashes, resumes, start, terms, offers, rows, height, final,
          landed, sent, forks, requests, failures, usage, day, agree,
          artwork, pins, posts, sealing, calls, pinner

Off == 0   \* the value of a variable that no component in the run uses

quotesVars == <<draft, quotes, request, clock, known, answers>>
singleAndRetriedAndOlderVars == <<prep, lease, custody, plan, packet, setup,
                                  activated, work, worker, wakes, resumes>>
setupAndTabsVars == <<start, terms, offers, height, final, landed, sent,
                      forks>>
postsAndSealedVars == <<requests, failures, usage, day, agree, artwork, pins,
                        posts, sealing, calls, pinner>>

quotesOff == /\ draft = Off /\ quotes = Off /\ request = Off /\ clock = Off
             /\ known = Off /\ answers = Off
singleAndRetriedAndOlderOff == /\ prep = Off /\ lease = Off /\ custody = Off
                               /\ plan = Off /\ packet = Off /\ setup = Off
                               /\ activated = Off /\ work = Off
                               /\ worker = Off /\ wakes = Off
                               /\ resumes = Off
setupAndTabsOff == /\ start = Off /\ terms = Off /\ offers = Off
                   /\ height = Off /\ final = Off /\ landed = Off
                   /\ sent = Off /\ forks = Off
postsAndSealedOff == /\ requests = Off /\ failures = Off /\ usage = Off
                     /\ day = Off /\ agree = Off /\ artwork = Off
                     /\ pins = Off /\ posts = Off /\ sealing = Off
                     /\ calls = Off /\ pinner = Off

Quotes == INSTANCE CreationQuotes WITH
  Tabs <- {"t1", "t2"}, Bodies <- {"a", "b"}, RequestKeys <- {"k1", "k2"},
  Policies <- {1, 2}, Validity <- 1, MaxRevision <- 2, MaxTime <- 2,
  MaxQuotes <- 2
OneRound == INSTANCE CreationWork WITH
  Workers <- {"w1", "w2"}, FundingWorkers <- {"w1"}, Single <- TRUE,
  LoopLimit <- 3, FailureLimit <- 1, AttemptLimit <- 1, MaxCrashes <- 1,
  MaxResumes <- 0
Retried == INSTANCE CreationWork WITH
  Workers <- {"w1"}, FundingWorkers <- {"w1"}, Single <- TRUE,
  LoopLimit <- 3, FailureLimit <- 2, AttemptLimit <- 2, MaxCrashes <- 2,
  MaxResumes <- 1
Older == INSTANCE CreationWork WITH
  Workers <- {"w1", "w2"}, FundingWorkers <- {}, Single <- FALSE,
  LoopLimit <- 1, FailureLimit <- 1, AttemptLimit <- 1, MaxCrashes <- 1,
  MaxResumes <- 0
Setup == INSTANCE SetupFlow WITH
  Tabs <- {"t1"}, Window <- 2, Grace <- 3, Scheduled <- 5, MaxGen <- 2,
  MaxOffers <- 3, MaxHeight <- 6, MaxForks <- 1
SetupTabs == INSTANCE SetupFlow WITH
  Tabs <- {"t1", "t2"}, Window <- 1, Grace <- 1, Scheduled <- 3, MaxGen <- 2,
  MaxOffers <- 2, MaxHeight <- 4, MaxForks <- 0
Posts == INSTANCE Publication WITH
  Procs <- {"p1", "p2"}, Slots <- {"pre", "core"}, Sealable <- {},
  PinCap <- 1, ByteCap <- 2, MaxActive <- 1, FailureLimit <- 1,
  MaxAttempts <- 1, MaxCrashes <- 1, MaxDays <- 2
Sealed == INSTANCE Publication WITH
  Procs <- {"p1", "p2"}, Slots <- {"core"}, Sealable <- {"image"},
  PinCap <- 4, ByteCap <- 7, MaxActive <- 1, FailureLimit <- 1,
  MaxAttempts <- 2, MaxCrashes <- 1, MaxDays <- 1

MCInit ==
  \/ /\ part = "quotes" /\ Quotes!Init /\ singleAndRetriedAndOlderOff
     /\ registered = Off /\ crashes = Off /\ setupAndTabsOff /\ rows = Off
     /\ postsAndSealedOff
  \/ /\ part = "single" /\ OneRound!Init /\ quotesOff /\ call = Off
     /\ setupAndTabsOff /\ rows = Off /\ postsAndSealedOff
  \/ /\ part = "retried" /\ Retried!Init /\ quotesOff /\ call = Off
     /\ setupAndTabsOff /\ rows = Off /\ postsAndSealedOff
  \/ /\ part = "older" /\ Older!Init /\ quotesOff /\ call = Off
     /\ setupAndTabsOff /\ rows = Off /\ postsAndSealedOff
  \/ /\ part = "setup" /\ Setup!Init /\ quotesOff
     /\ singleAndRetriedAndOlderOff /\ crashes = Off /\ postsAndSealedOff
  \/ /\ part = "tabs" /\ SetupTabs!Init /\ quotesOff
     /\ singleAndRetriedAndOlderOff /\ crashes = Off /\ postsAndSealedOff
  \/ /\ part = "posts" /\ Posts!Init /\ quotesOff /\ call = Off
     /\ singleAndRetriedAndOlderOff /\ registered = Off /\ setupAndTabsOff
  \/ /\ part = "sealed" /\ Sealed!Init /\ quotesOff /\ call = Off
     /\ singleAndRetriedAndOlderOff /\ registered = Off /\ setupAndTabsOff

MCNext ==
  \/ /\ part = "quotes" /\ Quotes!Next
     /\ UNCHANGED <<part, singleAndRetriedAndOlderVars, registered, crashes,
                    setupAndTabsVars, rows, postsAndSealedVars>>
  \/ /\ part = "single" /\ OneRound!Next
     /\ UNCHANGED <<part, quotesVars, call, setupAndTabsVars, rows,
                    postsAndSealedVars>>
  \/ /\ part = "retried" /\ Retried!Next
     /\ UNCHANGED <<part, quotesVars, call, setupAndTabsVars, rows,
                    postsAndSealedVars>>
  \/ /\ part = "older" /\ Older!Next
     /\ UNCHANGED <<part, quotesVars, call, setupAndTabsVars, rows,
                    postsAndSealedVars>>
  \/ /\ part = "setup" /\ Setup!Next
     /\ UNCHANGED <<part, quotesVars, singleAndRetriedAndOlderVars, crashes,
                    postsAndSealedVars>>
  \/ /\ part = "tabs" /\ SetupTabs!Next
     /\ UNCHANGED <<part, quotesVars, singleAndRetriedAndOlderVars, crashes,
                    postsAndSealedVars>>
  \/ /\ part = "posts" /\ Posts!Next
     /\ UNCHANGED <<part, quotesVars, call, singleAndRetriedAndOlderVars,
                    registered, setupAndTabsVars>>
  \/ /\ part = "sealed" /\ Sealed!Next
     /\ UNCHANGED <<part, quotesVars, call, singleAndRetriedAndOlderVars,
                    registered, setupAndTabsVars>>

mcVars == <<part, quotesVars, call, singleAndRetriedAndOlderVars, registered,
            crashes, setupAndTabsVars, rows, postsAndSealedVars>>
MCSpec == MCInit /\ [][MCNext]_mcVars

-----------------------------------------------------------------------------
\* What is created is what was reviewed, while its price was valid, and a
\* request key means one quote, however the calls of two tabs interleave
\* (issueQuote, acceptQuote).
QuotesKept ==
  part = "quotes" =>
    Quotes!AcceptedIsReviewed /\ Quotes!AcceptedInTime /\ Quotes!OneQuotePerKey

\* Fencing: the process with the newest token is the one the work row names;
\* and activation is recorded only of a complete journey (coordinator.mjs).
WorkFenced ==
  /\ part = "single" => OneRound!OneHolder /\ OneRound!ActivatedIsComplete
  /\ part = "retried" => Retried!OneHolder /\ Retried!ActivatedIsComplete
  /\ part = "older" => Older!OneHolder /\ Older!ActivatedIsComplete

\* The terms a campaign was created with are the service's current terms, what
\* a later step relies on is on the finalized chain, and a packet that was
\* closed, or whose terms were replaced, creates no campaign (setup recovery).
TermsMatchChain ==
  /\ part = "setup" =>
       /\ Setup!TermsFollowChain /\ Setup!EvidenceIsOnChain
       /\ Setup!ClosedStaysClosed /\ Setup!OldTermsClosed
  /\ part = "tabs" =>
       /\ SetupTabs!TermsFollowChain /\ SetupTabs!EvidenceIsOnChain
       /\ SetupTabs!ClosedStaysClosed /\ SetupTabs!OldTermsClosed

\* One owner's image or document is posted once unless a sealed write is tried
\* again, everything posted was journaled and charged first, and a campaign
\* that is ready has both contents pinned under the ids it names
\* (publication.mjs, pinata.mjs, publication-readiness.mjs).
MediaPinned ==
  /\ part = "posts" =>
       Posts!OnePostUnsealed /\ Posts!OnePostPerContent /\ Posts!ChargedFirst
  /\ part = "sealed" => Sealed!ReadyMeansPinned

\* A creation never goes back: not its request, its sealed plan, the stage the
\* creator sees, its reviewed terms, nor the address of its media.
CreationForward ==
  [][/\ part = "quotes" => Quotes!RequestIsFinal
     /\ part = "single" => OneRound!PlanIsSealedOnce /\ OneRound!NeverBack
     /\ part = "retried" => Retried!PlanIsSealedOnce /\ Retried!NeverBack
     /\ part = "older" => Older!PlanIsSealedOnce /\ Older!NeverBack
     /\ part = "setup" => Setup!TermsOnlyGrow
     /\ part = "tabs" => SetupTabs!TermsOnlyGrow
     /\ part = "posts" => Posts!UriIsFinal
     /\ part = "sealed" => Sealed!UriIsFinal]_mcVars
=============================================================================
