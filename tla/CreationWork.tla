---------------------------- MODULE CreationWork ----------------------------
(* The durable work of one accepted creation: the coordinator's leases       *)
(* (localnet/creation/coordinator.mjs) over the creator's journey            *)
(* (creator-flow.mjs), the reservation (preparation.mjs), the sealed mint     *)
(* plan (mint-plan.mjs) and the registration (provision-registration.mjs).   *)
(* Every wallet packet (MintApproval, SetupFlow, OperatingReserve model them *)
(* in detail) is one record here: awaiting approval, prepared (signed by the *)
(* creator, not yet by the mint's key), submitted, failed or finalized.      *)
EXTENDS Naturals, FiniteSets, TLC

CONSTANTS
  Workers,        \* coordinator processes
  FundingWorkers, \* those that run with the funding-first admission flag on
  Single,         \* TRUE: one creation transaction; FALSE: the older stages
  LoopLimit,      \* stages per turn (8)
  FailureLimit,   \* failures before the work pauses (10)
  AttemptLimit,   \* approvals of the launch packet (3)
  MaxCrashes, MaxResumes

VARIABLES
  prep,      \* creation_preparations.state
  lease,     \* the reserved mint's lease
  custody,   \* the custody reserved a fee-NFT key for this mint
  plan,      \* creation_mint_plans: 0 none, else the sealed intent's version
  packet,    \* per wallet stage: [status, attempt, retry]
  setup,     \* creation_provision_plans exists (older path)
  registered, activated,
  work,      \* creation_work: [state, token, owner, expired, failures]
  worker,    \* per process: its turn
  wakes,     \* submissions committed whose wake() is still to come
  crashes, resumes

journey == <<prep, lease, custody, plan, packet, setup, registered>>
vars == <<prep, lease, custody, plan, packet, setup, registered, activated,
          work, worker, wakes, crashes, resumes>>

WalletStages == {"launch", "mint", "native-custody", "create-campaign", "operating-reserve"}
FirstStage == IF Single THEN "launch" ELSE "mint"
NoWorker == "nobody"
Off == [phase |-> "off", token |-> 0, failures |-> 0, loops |-> 0, next |-> "none",
        error |-> FALSE, candidate |-> 0]

---------------------------------------------------------------------------
(* The journey, as the durable rows tell it.                                *)
---------------------------------------------------------------------------
\* preparation.signingProgress: a signed or consumed lease explained by a sealed plan.
SigningProgress == lease \in {"signed-pending", "consumed"} /\ plan # 0

\* preparation.status: a reservation whose lease is gone needs support.
PrepStatus ==
  IF prep = "reserved" /\ ~SigningProgress /\ lease # "reserved" THEN "attention" ELSE prep

At(stage, action) == [stage |-> stage, action |-> action]

\* A wallet stage that is not finalized, and what it asks for next.
PacketAction(stage) ==
  LET p == packet[stage] IN
  CASE p.status = "awaiting" \/ p.retry -> At(stage, "prepare")
    [] p.status = "failed" /\ ~p.retry ->
         At(stage, IF stage = FirstStage /\ p.attempt >= AttemptLimit THEN "support" ELSE "recover")
    [] OTHER -> At(stage, "resume")

\* creator-flow.snapshot: the first thing that is not done yet.
snapshot ==
  CASE PrepStatus # "reserved" ->
         At("reservation", IF PrepStatus = "attention" THEN "support" ELSE "prepare")
    [] PrepStatus = "reserved" /\ plan = 0 -> At("publication", "prepare")
    [] OTHER ->
       IF packet[FirstStage].status # "finalized" THEN PacketAction(FirstStage)
       ELSE IF lease # "consumed" THEN At(FirstStage, "resume")
       ELSE IF ~Single /\ ~setup THEN At("setup-plan", "prepare")
       ELSE IF ~Single /\ packet["native-custody"].status # "finalized"
              THEN PacketAction("native-custody")
       ELSE IF ~Single /\ packet["create-campaign"].status # "finalized"
              THEN PacketAction("create-campaign")
       ELSE IF ~registered THEN At("registration", "resume")
       ELSE IF packet["operating-reserve"].status # "finalized"
              THEN IF Single THEN At("operating-reserve", "resume")
                   ELSE PacketAction("operating-reserve")
       ELSE At("complete", "none")

wallet(s) == s.action = "prepare" /\ s.stage \in WalletStages

---------------------------------------------------------------------------
Init ==
  /\ prep = "none" /\ lease = "none" /\ custody = FALSE /\ plan = 0
  /\ packet = [s \in WalletStages |-> [status |-> "awaiting", attempt |-> 0, retry |-> FALSE]]
  /\ setup = FALSE /\ registered = FALSE /\ activated = FALSE
  /\ work = [state |-> "queued", token |-> 0, owner |-> NoWorker, expired |-> FALSE,
             failures |-> 0]
  /\ worker = [w \in Workers |-> Off]
  /\ wakes = 0 /\ crashes = 0 /\ resumes = 0

---------------------------------------------------------------------------
(* Journey steps the coordinator takes.                                     *)
---------------------------------------------------------------------------
\* preparation.prepare: the nonce is committed first; then stock is reserved in
\* the other store (a crash may follow), or there is none yet, or the lease is
\* found released and needs attention.
PrepareReservation ==
  /\ \/ prep = "none" /\ prep' = "allocated" /\ UNCHANGED lease
     \/ /\ prep \in {"none", "allocated"} /\ lease \in {"none", "reserved"}
        /\ lease' = "reserved" /\ prep' \in {"allocated", "reserved"}
     \/ /\ prep = "allocated" /\ lease = "released"
        /\ prep' = "attention" /\ UNCHANGED lease
     \/ prep = "allocated" /\ UNCHANGED <<prep, lease>>
  /\ UNCHANGED <<custody, plan, packet, setup, registered>>

\* flow.prepare re-reads the snapshot and acts on what it finds now.  Preparing
\* an offer for a wallet stage leaves these rows as they are.
FlowPrepare ==
  CASE snapshot = At("reservation", "prepare") -> PrepareReservation
    [] snapshot = At("setup-plan", "prepare") ->
         /\ setup' = TRUE
         /\ UNCHANGED <<prep, lease, custody, plan, packet, registered>>
    [] OTHER -> UNCHANGED journey

SetStatus(stage, status) == packet' = [packet EXCEPT ![stage].status = status]

\* mintExecutor.resume and the packet services' resume: the chain decides;
\* a prepared launch packet is first signed by the reserved mint's key.
ResumePacket(stage) ==
  \/ /\ packet[stage].status = "prepared"
     /\ SetStatus(stage, "submitted")
     /\ UNCHANGED <<prep, lease, custody, plan, setup, registered>>
  \/ /\ packet[stage].status = "submitted" /\ \E v \in {"finalized", "failed"} : SetStatus(stage, v)
     /\ UNCHANGED <<prep, lease, custody, plan, setup, registered>>
  \/ /\ stage = FirstStage /\ packet[stage].status = "finalized" /\ lease' = "consumed"
     /\ UNCHANGED <<prep, custody, plan, packet, setup, registered>>

\* registrar.registerFromCreation and register: only from a finalized packet.
Register ==
  /\ packet[IF Single THEN "launch" ELSE "create-campaign"].status = "finalized"
  /\ registered' = TRUE
  /\ UNCHANGED <<prep, lease, custody, plan, packet, setup>>

\* operatingReserve.creditFromCreation: the launch transaction carried it.
CreditFromCreation ==
  /\ packet["launch"].status = "finalized"
  /\ SetStatus("operating-reserve", "finalized")
  /\ UNCHANGED <<prep, lease, custody, plan, setup, registered>>

\* flow.resume, on the snapshot it reads itself.
FlowResume ==
  CASE snapshot.action # "resume" -> UNCHANGED journey
    [] snapshot = At("registration", "resume") -> Register
    [] snapshot = At("operating-reserve", "resume") /\ Single -> CreditFromCreation
    [] OTHER -> ResumePacket(snapshot.stage)

---------------------------------------------------------------------------
(* The coordinator's turn.                                                  *)
---------------------------------------------------------------------------
Holds(w) == work.token = worker[w].token /\ work.owner = w

\* fencing_token + 1.  Tokens are only compared for equality, so the least one
\* that nobody holds stands for it.
FreshToken ==
  LET held == {work.token} \union {worker[w].token : w \in Workers}
      free == (1..Cardinality(Workers) + 2) \ held
  IN  CHOOSE t \in free : \A u \in free : t <= u

\* tick: lease work that is due, or whose lease ran out.
Lease(w) ==
  /\ worker[w].phase = "off"
  /\ work.state = "queued" \/ (work.state = "leased" /\ work.expired)
  /\ work' = [work EXCEPT !.state = "leased", !.owner = w, !.expired = FALSE,
                          !.token = FreshToken]
  /\ worker' = [worker EXCEPT ![w] =
        [Off EXCEPT !.phase = "look", !.token = FreshToken, !.failures = work.failures]]
  /\ UNCHANGED <<journey, activated, wakes, crashes, resumes>>

Turn(w, phase, next) ==
  worker' = [worker EXCEPT ![w].phase = phase, ![w].next = next]

\* One round of the loop: still held? then read the status and decide.
Look(w) ==
  /\ worker[w].phase = "look"
  /\ IF ~(Holds(w) /\ work.state = "leased" /\ ~work.expired)
       THEN worker' = [worker EXCEPT ![w] = Off]
       ELSE CASE snapshot.action = "none" -> Turn(w, "activate", "none")
              [] wallet(snapshot) -> Turn(w, "write", "wallet")
              [] snapshot.action \in {"support", "recover"} -> Turn(w, "write", "paused")
              [] OTHER -> IF snapshot.stage = "publication" THEN Turn(w, "seal", "none")
                          ELSE Turn(w, "act", snapshot.action)
  /\ UNCHANGED <<journey, activated, work, wakes, crashes, resumes>>

\* After an internal stage: another round, or the turn is over.
Round(w) ==
  worker' = [worker EXCEPT ![w] =
     IF @.loops + 1 < LoopLimit
       THEN [@ EXCEPT !.phase = "look", !.loops = @ + 1, !.next = "none", !.candidate = 0]
       ELSE [@ EXCEPT !.phase = "write", !.next = "queued", !.candidate = 0]]

Act(w) ==
  /\ worker[w].phase = "act"
  /\ IF worker[w].next = "prepare" THEN FlowPrepare ELSE FlowResume
  /\ Round(w)
  /\ UNCHANGED <<activated, work, wakes, crashes, resumes>>

\* mintPlans.seal, first half: publish (see Publication), and for a
\* funding-first round reserve the fee-NFT key; a mint whose custody exists is
\* funding-first whatever this process's flag says.
Seal(w) ==
  /\ worker[w].phase = "seal"
  /\ IF plan # 0 THEN Round(w) /\ UNCHANGED custody
     ELSE /\ custody' = (custody \/ (Single /\ w \in FundingWorkers))
          /\ worker' = [worker EXCEPT ![w].phase = "commit",
                ![w].candidate = IF ~Single THEN 1 ELSE IF custody' THEN 3 ELSE 2]
  /\ UNCHANGED <<prep, lease, plan, packet, setup, registered, activated, work, wakes,
                 crashes, resumes>>

\* mintPlans.seal, second half: the plan is written once; another intent conflicts.
CommitOver(w) ==
  /\ worker[w].phase = "commit"
  /\ plan' = worker[w].candidate /\ Round(w)
  /\ UNCHANGED <<prep, lease, custody, packet, setup, registered, activated, work, wakes,
                 crashes, resumes>>
Commit(w) ==
  /\ worker[w].phase = "commit"
  /\ IF plan \notin {0, worker[w].candidate} \/ lease # "reserved"
       THEN /\ worker' = [worker EXCEPT ![w].phase = "write", ![w].error = TRUE]
            /\ UNCHANGED plan
       ELSE plan' = worker[w].candidate /\ Round(w)
  /\ UNCHANGED <<prep, lease, custody, packet, setup, registered, activated, work, wakes,
                 crashes, resumes>>

\* activate, activated_at (fenced), then the media supplement.
Activate(w) ==
  /\ worker[w].phase = "activate"
  /\ activated' = (activated \/ Holds(w))
  /\ \E next \in {"done", "queued"} : Turn(w, "write", next)
  /\ UNCHANGED <<journey, work, wakes, crashes, resumes>>

\* A step that returns 'pending' ends the turn; one that throws counts.
GiveUp(w) ==
  /\ worker[w].phase \in {"act", "seal", "activate"}
  /\ \/ worker[w].phase # "activate" /\ Turn(w, "write", "queued")
     \/ worker' = [worker EXCEPT ![w].phase = "write", ![w].error = TRUE]
  /\ UNCHANGED <<journey, activated, work, wakes, crashes, resumes>>

\* The closing update, fenced by token, owner and state.
CloseTurnUnfenced(w) ==
  LET me == worker[w] IN
  /\ me.phase = "write"
  /\ work' = [work EXCEPT !.state = IF me.error THEN "queued" ELSE me.next,
                          !.owner = NoWorker, !.expired = FALSE, !.failures = 0]
  /\ worker' = [worker EXCEPT ![w] = Off]
  /\ UNCHANGED <<journey, activated, wakes, crashes, resumes>>

CloseTurn(w) ==
  LET me == worker[w]
      failed == me.failures + 1
      next == IF ~me.error THEN me.next ELSE IF failed >= FailureLimit THEN "paused" ELSE "queued"
  IN
  /\ me.phase = "write"
  /\ work' = IF Holds(w) /\ work.state = "leased"
               THEN [work EXCEPT !.state = next, !.owner = NoWorker, !.expired = FALSE,
                                 !.failures = IF me.error THEN failed ELSE 0]
               ELSE work
  /\ worker' = [worker EXCEPT ![w] = Off]
  /\ UNCHANGED <<journey, activated, wakes, crashes, resumes>>

\* A lease runs out while its process stalls (heartbeats renew only live ones).
LeaseRunsOut ==
  /\ work.state = "leased" /\ ~work.expired /\ crashes < MaxCrashes
  /\ crashes' = crashes + 1 /\ work' = [work EXCEPT !.expired = TRUE]
  /\ UNCHANGED <<journey, activated, worker, wakes, resumes>>

\* A process is lost in its turn; its lease will run out.
Crash(w) ==
  /\ worker[w].phase # "off" /\ crashes < MaxCrashes /\ crashes' = crashes + 1
  /\ worker' = [worker EXCEPT ![w] = Off]
  /\ work' = IF Holds(w) THEN [work EXCEPT !.expired = TRUE] ELSE work
  /\ UNCHANGED <<journey, activated, wakes, resumes>>

---------------------------------------------------------------------------
(* The creator, through the coordinator's flow wrappers.                    *)
---------------------------------------------------------------------------
\* wake: only work that waits is queued again.
WakeWork == IF work.state \in {"wallet", "paused", "done"}
              THEN [work EXCEPT !.state = "queued", !.failures = 0] ELSE work

\* submit: the packet service commits the approval; waking the work comes after.
\* One-transaction plans accept only the launch stage.
Submit(stage) ==
  /\ plan # 0 /\ stage \in IF Single THEN {"launch"} ELSE WalletStages \ {"launch"}
  /\ snapshot = At(stage, "prepare") /\ wallet(snapshot)
  /\ packet' = [packet EXCEPT ![stage] =
        [status |-> IF stage = FirstStage THEN "prepared" ELSE "submitted",
         attempt |-> @.attempt + 1, retry |-> FALSE]]
  /\ lease' = IF stage = FirstStage THEN "signed-pending" ELSE lease
  /\ wakes' = wakes + 1
  /\ UNCHANGED <<prep, custody, plan, setup, registered, activated, work, worker,
                 crashes, resumes>>

Wake ==
  /\ wakes > 0 /\ wakes' = wakes - 1 /\ work' = WakeWork
  /\ UNCHANGED <<journey, activated, worker, crashes, resumes>>

\* resume and prepare of another stage: only wake the work.
Resume ==
  /\ resumes < MaxResumes /\ resumes' = resumes + 1
  /\ work' = WakeWork
  /\ UNCHANGED <<journey, activated, worker, wakes, crashes>>

\* recover: the creator approves a replacement of a failed packet.
Recover(stage) ==
  /\ snapshot = At(stage, "recover") /\ wakes = 0
  /\ packet' = IF stage = FirstStage THEN [packet EXCEPT ![stage].retry = TRUE]
               ELSE [packet EXCEPT ![stage].status = "awaiting"]
  /\ work' = WakeWork
  /\ packet[stage].attempt < AttemptLimit
  /\ UNCHANGED <<prep, lease, custody, plan, setup, registered, activated, worker, wakes,
                 crashes, resumes>>

\* The inventory releases the unsigned reservation (operator or expiry).
LeaseReleased ==
  /\ lease = "reserved" /\ crashes < MaxCrashes /\ crashes' = crashes + 1
  /\ lease' = "released"
  /\ UNCHANGED <<prep, custody, plan, packet, setup, registered, activated, work, worker,
                 wakes, resumes>>

Next ==
  \/ \E w \in Workers :
       \/ Lease(w) \/ Look(w) \/ Act(w) \/ Seal(w) \/ Commit(w) \/ Activate(w)
       \/ GiveUp(w) \/ CloseTurn(w) \/ Crash(w)
  \/ LeaseRunsOut \/ LeaseReleased \/ Wake \/ Resume
  \/ \E stage \in WalletStages : Submit(stage) \/ Recover(stage)

Spec == Init /\ [][Next]_vars

---------------------------------------------------------------------------

\* Fencing: the process with the newest token is the one the row names, and
\* the row stays leased to it until it has written; a process whose lease was
\* taken over changes nothing (coordinator.mjs:56).
OneHolder ==
  \A w \in Workers :
     worker[w].phase # "off" /\ worker[w].token = work.token
       => work.state = "leased" /\ work.owner = w

\* Two rounds of one request are never sealed with different plans, and the
\* plan the creator approves is the plan that was sealed first.
PlanIsSealedOnce == plan # 0 => plan' = plan

StageRank(s) ==
  CASE s = "reservation" -> 0 [] s = "publication" -> 1 [] s \in {"launch", "mint"} -> 2
    [] s = "setup-plan" -> 3 [] s = "native-custody" -> 4 [] s = "create-campaign" -> 5
    [] s = "registration" -> 6 [] s = "operating-reserve" -> 7 [] s = "complete" -> 8

\* The journey the creator sees never goes back, whoever advances it, except
\* to support when the reservation is lost; so a stage done once is not redone.
NeverBack ==
  snapshot'.action = "support" \/ StageRank(snapshot'.stage) >= StageRank(snapshot.stage)

\* Activation follows a complete journey: a stale process that saw another
\* state, or lost its lease, never records it.
ActivatedIsComplete == activated => snapshot.stage = "complete"

=============================================================================
