-------------------------------- MODULE Pool --------------------------------
(***************************************************************************)
(* internal/worker/worker.go: the workers that claim due deliveries, send  *)
(* them and record the outcome, with what surrounds them in the process of *)
(* cmd/spoold/main.go: clients, the repair of the journal, shutdown,       *)
(* crashes and restarts.                                                   *)
(*                                                                         *)
(* The store is the table Store implements (Store!ImplementsSpool): an     *)
(* operation takes effect at once, or fails and leaves the store refusing  *)
(* every mutation until it is repaired; the record of the failed operation *)
(* may still come back with a restart.  Retention, which concerns terminal *)
(* deliveries only, and the order of claims are Store's matter: here a     *)
(* claim takes any delivery that is due.                                   *)
(*                                                                         *)
(* Time is told from the present: the clock always reads Now, and Tick     *)
(* makes every recorded time one unit older, down to 1, older than which   *)
(* is not told apart.  Behaviours are therefore not cut at a horizon.      *)
(***************************************************************************)
EXTENDS Delivery

CONSTANTS
  Workers,        \* Config.Concurrency goroutines
  Targets,        \* target origins: scheme, host and port
  TargetOf(_),    \* the origin a request goes to: targetKey
  LimitOf(_),     \* the attempt limit a request carries: MaxAttempts
  PerTarget,      \* Config.PerTarget
  Backoffs,       \* the delays Backoff may return
  Hung,           \* targets that may leave a request unanswered for good
  Now,            \* what the clock reads
  NoJob,          \* a worker without a claim
  Faults,         \* what may go wrong: see below
  FaultBound,     \* bound of the exploration: how often it may
  RetryBound,     \* bound of the exploration: manual retries of a delivery
  AttemptBound    \* bound of the exploration: attempts of a delivery

(* "io": an append fails; "crash": the process ends at once; "stop": it is *)
(* asked to end; "slow": a lease expires while its worker is still at work.*)
ASSUME WorkersAssumption == IsFiniteSet(Workers) /\ FaultBound \in Nat
ASSUME PoolAssumption ==
  /\ Faults \subseteq {"io", "crash", "stop", "slow"}
  /\ Now \in Times /\ Backoffs \subseteq Nat \ {0} /\ PerTarget \in Nat \ {0}
  /\ \A content \in Contents :
       TargetOf(content) \in Targets /\ LimitOf(content) \in Nat \ {0}

VARIABLES
  phase,          \* the process: "up", "stopping" (ctx canceled) or "down"
  items,          \* the store's deliveries
  healthy,        \* the store accepts mutations: persistenceErr = nil
  inDoubt,        \* the operations that failed and may yet come back
  pc,             \* where each worker is in run and deliver
  readAt,         \* the clock as claimDue's caller read it
  job,            \* the claimed copy a worker holds, then its outcome
  activeTargets,  \* Pool.activeTargets
  cycle,          \* history: how often a delivery was retried by hand
  accepted,       \* history: deliveries answered with a 2xx status
  cause,          \* history: the reply behind the last outcome written
  faultsLeft

store == <<items, healthy, inDoubt>>
workers == <<pc, readAt, job, activeTargets>>
history == <<cycle, accepted, cause>>
vars == <<phase, store, workers, history, faultsLeft>>

(* What deliver makes of send's status and error: a 2xx status read to its *)
(* end; a status that is final; one that is not, a network error or a      *)
(* timeout; the same after the context was canceled.                       *)
Replies == {"accepted", "refused", "retryable", "interrupted"}

Jobs == [id : Ids, item : Deliveries, cycle : Nat, reply : Replies \union {"none"},
         next : Nat]

(* No job is the mark of a worker without one.                             *)
ASSUME NoJobAssumption == NoJob \notin Jobs

Working(w) == pc[w] \in {"sending", "recording"}
Origin(w) == TargetOf(job[w].item.content)
NoTargets == [t \in Targets |-> 0]

Init ==
  /\ phase = "up"
  /\ items = EmptyTable /\ healthy = TRUE /\ inDoubt = {}
  /\ pc = [w \in Workers |-> "waiting"]
  /\ readAt = [w \in Workers |-> Now]
  /\ job = [w \in Workers |-> NoJob]
  /\ activeTargets = NoTargets
  /\ cycle = [id \in Ids |-> 0] /\ accepted = {}
  /\ cause = [id \in Ids |-> "none"]
  /\ faultsLeft = FaultBound

-----------------------------------------------------------------------------
(* One mutation of the store; dates of creation and update do not matter.  *)
Undated(d) == [d EXCEPT !.createdAt = Now, !.updatedAt = Now]

Persist(id, d) ==
  /\ healthy
  /\ items' = [items EXCEPT ![id] = Undated(d)]
  /\ UNCHANGED <<healthy, inDoubt, faultsLeft>>

PersistFails(id, d) ==
  /\ UNCHANGED items
  /\ \/ /\ ~healthy
        /\ UNCHANGED <<healthy, inDoubt, faultsLeft>>
     \/ /\ healthy /\ "io" \in Faults /\ faultsLeft > 0
        /\ faultsLeft' = faultsLeft - 1
        /\ healthy' = FALSE
        /\ inDoubt' = {[id |-> id, item |-> Undated(d)]}

(* The clients' requests, served until the process is down.                *)
Create(id, content) ==
  /\ phase # "down" /\ items[id] = Absent
  /\ Persist(id, New(NoKey, content, Now))
  /\ UNCHANGED <<phase, workers, history>>

Cancel(id) ==
  /\ phase # "down" /\ id \in Live(items) /\ Cancelable(items[id])
  /\ Persist(id, Canceled(items[id], Now))
  /\ UNCHANGED <<phase, workers, history>>

Retry(id) ==
  /\ phase # "down" /\ id \in Live(items) /\ Retryable(items[id])
  /\ cycle[id] < RetryBound
  /\ Persist(id, Retried(items[id], Now))
  /\ cycle' = [cycle EXCEPT ![id] = @ + 1]
  /\ UNCHANGED <<phase, workers, accepted, cause>>

-----------------------------------------------------------------------------
(* run: the timer fires, the clock is read; claimDue then waits for        *)
(* claimMu and the store's mutex.  With the context canceled and the timer *)
(* ready, select takes either branch.                                      *)
Wake(w) ==
  /\ phase # "down" /\ pc[w] = "waiting"
  /\ pc' = [pc EXCEPT ![w] = "claiming"]
  /\ readAt' = [readAt EXCEPT ![w] = Now]
  /\ UNCHANGED <<phase, store, job, activeTargets, history, faultsLeft>>

Quit(w) ==
  /\ phase = "stopping" /\ pc[w] = "waiting"
  /\ pc' = [pc EXCEPT ![w] = "stopped"]
  /\ UNCHANGED <<phase, store, readAt, job, activeTargets, history, faultsLeft>>

(* Mutant: claims do not look at the reservations.                         *)
ClaimableAnyTarget(w) == {id \in Live(items) : Due(items[id], readAt[w])}

Claimable(w) ==
  {id \in Live(items) : /\ Due(items[id], readAt[w])
                        /\ activeTargets[TargetOf(items[id].content)] < PerTarget}

Claim(w, id) ==
  LET item == Claimed(items[id], readAt[w]) IN
  /\ pc[w] = "claiming" /\ id \in Claimable(w)
  /\ items[id].attempts < AttemptBound
  /\ Persist(id, item)
  /\ pc' = [pc EXCEPT ![w] = "sending"]
  /\ job' = [job EXCEPT ![w] = [id |-> id, item |-> Undated(item),
                                cycle |-> cycle[id], reply |-> "none", next |-> ZeroTime]]
  /\ activeTargets' = [activeTargets EXCEPT ![TargetOf(item.content)] = @ + 1]
  /\ UNCHANGED <<phase, readAt, history>>

(* Nothing to claim, or the store refuses: the worker waits for its timer. *)
ClaimNothing(w) ==
  /\ pc[w] = "claiming"
  /\ \/ Claimable(w) = {} /\ UNCHANGED <<store, faultsLeft>>
     \/ \E id \in Claimable(w) : PersistFails(id, Claimed(items[id], readAt[w]))
  /\ pc' = [pc EXCEPT ![w] = "waiting"]
  /\ UNCHANGED <<phase, readAt, job, activeTargets, history>>

(* send returns.  Once the context is canceled it returns an error without *)
(* a status, which counts as retryable.                                    *)
Reply(w, reply, backoff) ==
  /\ pc[w] = "sending"
  /\ (reply = "interrupted") <=> (phase = "stopping")
  /\ pc' = [pc EXCEPT ![w] = "recording"]
  /\ job' = [job EXCEPT ![w].reply = reply, ![w].next = Now + backoff]
  /\ accepted' = IF reply = "accepted" THEN accepted \union {job[w].id} ELSE accepted
  /\ UNCHANGED <<phase, store, readAt, activeTargets, cycle, cause, faultsLeft>>

(* What deliver asks of the store for the outcome it has.                  *)

(* Mutants: the limit counted one too low, and one too high.               *)
GivesUpEarly(j) == j.reply = "refused" \/ j.item.attempts + 1 >= LimitOf(j.item.content)
GivesUpLate(j) == j.reply = "refused" \/ j.item.attempts > LimitOf(j.item.content)

GivesUp(j) == j.reply = "refused" \/ j.item.attempts >= LimitOf(j.item.content)

Outcome(j) ==
  LET d == items[j.id] IN
  IF j.reply = "accepted" THEN Succeeded(d, Now)
  ELSE IF GivesUp(j) THEN FailedForGood(d, Now)
  ELSE Rescheduled(d, j.next, Now)

StillHolds(j) == j.id \in Live(items) /\ HoldsLease(items[j.id], j.item.attempts)

Record(w) ==
  LET j == job[w] IN
  /\ pc[w] = "recording"
  /\ \/ /\ StillHolds(j)
        /\ Persist(j.id, Outcome(j)) \/ PersistFails(j.id, Outcome(j))
        /\ cause' = IF healthy THEN [cause EXCEPT ![j.id] = j.reply] ELSE cause
     \/ /\ ~StillHolds(j)
        /\ UNCHANGED <<store, faultsLeft, cause>>
  /\ pc' = [pc EXCEPT ![w] = "releasing"]
  /\ UNCHANGED <<phase, readAt, job, activeTargets, cycle, accepted>>

(* Mutant: the reservation is kept when the outcome could not be written.  *)
ReleaseIfRecorded(w) ==
  /\ pc[w] = "releasing"
  /\ activeTargets' = IF healthy THEN [activeTargets EXCEPT ![Origin(w)] = @ - 1]
                      ELSE activeTargets
  /\ job' = [job EXCEPT ![w] = NoJob]
  /\ pc' = [pc EXCEPT ![w] = "waiting"]
  /\ UNCHANGED <<phase, store, readAt, history, faultsLeft>>

Release(w) ==
  /\ pc[w] = "releasing"
  /\ activeTargets' = [activeTargets EXCEPT ![Origin(w)] = @ - 1]
  /\ job' = [job EXCEPT ![w] = NoJob]
  /\ pc' = [pc EXCEPT ![w] = "waiting"]
  /\ UNCHANGED <<phase, store, readAt, history, faultsLeft>>

-----------------------------------------------------------------------------
(* The compactor finds the store unready and compacts what is in memory.   *)
Repair ==
  /\ phase # "down" /\ ~healthy
  /\ healthy' = TRUE /\ inDoubt' = {}
  /\ UNCHANGED <<phase, items, workers, history, faultsLeft>>

Stop ==
  /\ "stop" \in Faults /\ faultsLeft > 0 /\ phase = "up"
  /\ phase' = "stopping" /\ faultsLeft' = faultsLeft - 1
  /\ UNCHANGED <<store, workers, history>>

(* The memory of the process is gone: nobody is at work any more.          *)
Gone ==
  /\ phase' = "down"
  /\ pc' = [w \in Workers |-> "waiting"]
  /\ readAt' = [w \in Workers |-> Now]
  /\ job' = [w \in Workers |-> NoJob]
  /\ activeTargets' = NoTargets
  /\ UNCHANGED <<store, history>>

(* pool.Wait returns, then journal.Close.                                  *)
Stopped ==
  /\ phase = "stopping" /\ \A w \in Workers : pc[w] = "stopped"
  /\ Gone /\ UNCHANGED faultsLeft

Crash ==
  /\ "crash" \in Faults /\ faultsLeft > 0 /\ phase # "down"
  /\ Gone /\ faultsLeft' = faultsLeft - 1

Start ==
  /\ phase = "down"
  /\ phase' = "up" /\ healthy' = TRUE /\ inDoubt' = {}
  /\ \/ UNCHANGED items
     \/ \E r \in inDoubt : items' = [items EXCEPT ![r.id] = r.item]
  /\ UNCHANGED <<workers, history, faultsLeft>>

(* Time passes.  A worker outlives its lease only as a fault, unless its   *)
(* target is one that hangs.                                               *)
Older(t) == IF t > 1 THEN t - 1 ELSE t
Aged(d) == [d EXCEPT !.nextAttemptAt = Older(@), !.leaseUntil = Older(@)]
Brink(w) == /\ Working(w) /\ Origin(w) \notin Hung
            /\ job[w].item.leaseUntil = Now + 1

Tick ==
  /\ \/ /\ \A w \in Workers : ~Brink(w)
        /\ UNCHANGED faultsLeft
     \/ /\ \E w \in Workers : Brink(w)
        /\ "slow" \in Faults /\ faultsLeft > 0
        /\ faultsLeft' = faultsLeft - 1
  /\ items' = [id \in Ids |-> IF items[id] = Absent THEN Absent ELSE Aged(items[id])]
  /\ inDoubt' = {[r EXCEPT !.item = Aged(@)] : r \in inDoubt}
  /\ readAt' = [w \in Workers |-> IF pc[w] = "claiming" THEN Older(readAt[w])
                                  ELSE readAt[w]]
  /\ job' = [w \in Workers |-> IF job[w] = NoJob THEN NoJob
               ELSE [job[w] EXCEPT !.item = Aged(@), !.next = Older(@)]]
  /\ UNCHANGED <<phase, healthy, pc, activeTargets, history>>

-----------------------------------------------------------------------------
Client ==
  \E id \in Ids :
    \/ \E content \in Contents : Create(id, content)
    \/ Cancel(id)
    \/ Retry(id)

Answer(w) == \E reply \in Replies, backoff \in Backoffs : Reply(w, reply, backoff)

ClaimStep(w) == ClaimNothing(w) \/ \E id \in Ids : Claim(w, id)

Worker(w) ==
  \/ Wake(w)
  \/ Quit(w)
  \/ ClaimStep(w)
  \/ Answer(w)
  \/ Record(w)
  \/ Release(w)

Process ==
  \/ Repair
  \/ Stop
  \/ Stopped
  \/ Crash
  \/ Start

Next == Client \/ (\E w \in Workers : Worker(w)) \/ Process \/ Tick

Spec == Init /\ [][Next]_vars

(* What the code and its surroundings guarantee to happen: timers fire,    *)
(* mutexes are granted, a request ends by its timeout (unless its target   *)
(* hangs) and with the context, select does not pass over a canceled       *)
(* context forever, maintenance runs, time passes and a stopped daemon is  *)
(* started again.                                                          *)
Fairness ==
  /\ \A w \in Workers :
       /\ WF_vars(Wake(w)) /\ WF_vars(ClaimStep(w))
       /\ WF_vars(Answer(w) /\ (Origin(w) \in Hung => phase = "stopping"))
       /\ WF_vars(Record(w)) /\ WF_vars(Release(w))
       /\ SF_vars(Quit(w))
  /\ WF_vars(Repair) /\ WF_vars(Stopped) /\ WF_vars(Start) /\ WF_vars(Tick)

FairSpec == Spec /\ Fairness

-----------------------------------------------------------------------------
(* Every variable has its type; a worker has a job exactly while it holds  *)
(* a claim.                                                                *)
TypeOK ==
  /\ phase \in {"up", "stopping", "down"}
  /\ items \in Tables /\ healthy \in BOOLEAN
  /\ inDoubt \subseteq [id : Ids, item : Deliveries]
  /\ pc \in [Workers -> {"waiting", "claiming", "sending", "recording", "releasing",
                         "stopped"}]
  /\ readAt \in [Workers -> Nat]
  /\ job \in [Workers -> Jobs \union {NoJob}]
  /\ \A w \in Workers : (job[w] # NoJob) <=> (Working(w) \/ pc[w] = "releasing")
  /\ activeTargets \in [Targets -> Nat]
  /\ cycle \in [Ids -> Nat] /\ accepted \subseteq Ids
  /\ cause \in [Ids -> Replies \union {"none"}]
  /\ faultsLeft \in Nat

(* A target never has more workers than PerTarget, and the reservations    *)
(* are those of the workers that hold a claim on it, no more and no less,  *)
(* through failed claims, lost leases, shutdown and restart: claimDue and  *)
(* releaseTarget.                                                          *)
Busy(t) == {w \in Workers : job[w] # NoJob /\ Origin(w) = t}

ReservationsMatch ==
  \A t \in Targets :
    /\ activeTargets[t] = Cardinality(Busy(t))
    /\ activeTargets[t] <= PerTarget

(* Two workers send the same delivery only when the lease of one has run   *)
(* out: a claim excludes the others while it lasts, whatever late workers  *)
(* record meanwhile.  Of deliveries nobody retried by hand.                *)
LeasesExclude ==
  \A v, w \in Workers :
    /\ v # w /\ pc[v] = "sending" /\ pc[w] = "sending"
    /\ job[v].id = job[w].id /\ cycle[job[v].id] = 0
    => job[v].item.leaseUntil <= Now \/ job[w].item.leaseUntil <= Now

(* A delivery succeeds only after its destination answered with a 2xx      *)
(* status, and is given up only on a final answer or with its attempts     *)
(* used up, even when an outcome is recorded late or by a restart.         *)
OutcomesHaveCause ==
  \A id \in Live(items) :
    /\ items[id].status = "succeeded" => id \in accepted
    /\ items[id].status = "failed" =>
         \/ cause[id] = "refused"
         \/ items[id].attempts >= LimitOf(items[id].content)

(* Every delivery to a target that answers comes to an end, whatever the   *)
(* bounded number of crashes, shutdowns, journal failures and expired      *)
(* leases, and even while other targets hang for good: no lease, no        *)
(* reservation and no failed store keeps it from moving on.                *)
Open(id) == id \in Live(items) /\ ~Terminal(items[id])
Answering(id) == TargetOf(items[id].content) \notin Hung

EveryDeliveryEnds ==
  \A id \in Ids : Open(id) /\ Answering(id) ~> ~Open(id)

(* Within a cycle a delivery exceeds its attempt limit by no more than the *)
(* faults there were: only a crash, an expired lease or an outcome that    *)
(* could not be written lets ClaimDueMatching, which does not look at the  *)
(* limit, claim a delivery once too often.  Of deliveries to a target that *)
(* answers: a request that hangs past its lease is no fault of the pool.   *)
AttemptsBounded ==
  \A id \in Live(items) : Answering(id) =>
    items[id].attempts <= LimitOf(items[id].content) + (FaultBound - faultsLeft)

-----------------------------------------------------------------------------
(* What the documents say and the code does not keep.                      *)

(* An outcome is recorded for the claim it belongs to: docs/design.md 112, *)
(* "Completion updates include the attempt number; a late worker cannot    *)
(* overwrite a newer claim".  Retry starts the numbers again, so that a    *)
(* worker of an earlier cycle may hold the number of a newer claim.        *)
LateWorkerCannotOverwrite ==
  [][\A w \in Workers :
       /\ pc[w] = "recording" /\ pc'[w] = "releasing"
       /\ items'[job[w].id] # items[job[w].id]
       => job[w].cycle = cycle[job[w].id]]_vars
============================================================================
