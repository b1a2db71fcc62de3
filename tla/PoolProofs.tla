----------------------------- MODULE PoolProofs -----------------------------
(***************************************************************************)
(* The worker pool, for any number of workers, targets, deliveries and     *)
(* faults: it keeps its types, reservations of targets are exactly those of *)
(* the workers that hold a claim, outcomes have a cause, leases exclude and *)
(* attempts are bounded.                                                   *)
(***************************************************************************)
EXTENDS Pool, DeliveryProofs, FiniteSetTheorems

(* The inductive invariant, in the parts the steps disturb one by one.     *)
StoreTyped ==
  /\ items \in Tables /\ healthy \in BOOLEAN
  /\ inDoubt \subseteq [id : Ids, item : Deliveries]
  /\ faultsLeft \in Nat

(* The workers, and which of them have a job.                              *)
WorkersTyped ==
  /\ phase \in {"up", "stopping", "down"}
  /\ pc \in [Workers -> {"waiting", "claiming", "sending", "recording", "releasing",
                         "stopped"}]
  /\ readAt \in [Workers -> Nat]
  /\ job \in [Workers -> Jobs \union {NoJob}]
  /\ \A w \in Workers : (job[w] # NoJob) <=> (Working(w) \/ pc[w] = "releasing")
  /\ activeTargets \in [Targets -> Nat]

(* The histories.                                                          *)
HistoryTyped ==
  /\ cycle \in [Ids -> Nat] /\ accepted \subseteq Ids
  /\ cause \in [Ids -> Replies \union {"none"}]

(* A worker that records has a date at hand for the next attempt, so that  *)
(* rescheduling never writes a pending delivery without one.               *)
Dated == \A w \in Workers : pc[w] = "recording" => job[w].next # ZeroTime

IInv == StoreTyped /\ WorkersTyped /\ HistoryTyped /\ Dated /\ ReservationsMatch

-----------------------------------------------------------------------------
(* Deliveries the pool writes.                                             *)

(* Dates of creation and update do not matter to the shape.                *)
LEMMA UndatedTyped ==
  ASSUME NEW d \in Deliveries
  PROVE  Undated(d) \in Deliveries
BY PoolAssumption DEF Undated, Deliveries, WellFormed, Terminal, ZeroTime

(* What a worker claims has the shape of a delivery in flight, whenever it *)
(* read the clock, and the content it had.                                 *)
LEMMA ClaimTyped ==
  ASSUME NEW d \in Deliveries, NEW now \in Nat, Due(d, now)
  PROVE  /\ Undated(Claimed(d, now)) \in Deliveries
         /\ Undated(Claimed(d, now)).content = d.content
<1> USE DEF Deliveries, WellFormed, Terminal, ZeroTime, Statuses
<1>1. now + LeaseDuration \in Nat \ {0} /\ d.attempts + 1 \in Nat \ {0}
  BY TimeAssumption
<1>2. d.status \in {"pending", "in_flight"} /\ d.nextAttemptAt # ZeroTime
  BY DEF Due
<1>3. ASSUME NEW n \in Nat \ {0}, NEW lease \in Nat \ {0}
      PROVE  LET e == [d EXCEPT !.status = "in_flight", !.attempts = n,
                                !.leaseUntil = lease, !.updatedAt = now]
             IN  Undated(e) \in Deliveries /\ Undated(e).content = d.content
  <2> DEFINE e == Undated([d EXCEPT !.status = "in_flight", !.attempts = n,
                                    !.leaseUntil = lease, !.updatedAt = now])
  <2>1. /\ e.status = "in_flight" /\ e.attempts = n /\ e.leaseUntil = lease
        /\ e.nextAttemptAt = d.nextAttemptAt /\ e.content = d.content
    BY DEF Undated
  <2>2. WellFormed(e)
    BY <1>2, <2>1
  <2>3. e \in [key : Keys \union {NoKey}, content : Contents, status : Statuses,
               attempts : Nat, nextAttemptAt : Nat, leaseUntil : Nat,
               createdAt : Times, updatedAt : Times]
    BY PoolAssumption DEF Undated
  <2> QED BY <2>1, <2>2, <2>3
<1> QED BY <1>1, <1>3 DEF Claimed

(* The outcome of a claim that still holds has the shape of a delivery.    *)
LEMMA OutcomeTyped ==
  ASSUME items \in Tables, NEW j \in Jobs, StillHolds(j), j.next # ZeroTime
  PROVE  Undated(Outcome(j)) \in Deliveries
<1>1. Now \in Times
  BY PoolAssumption
<1>2. items[j.id] \in Deliveries /\ items[j.id].status = "in_flight" /\ j.next \in Nat
  BY DEF StillHolds, Live, Tables, HoldsLease, Jobs
<1>3. /\ Succeeded(items[j.id], Now) \in Deliveries
      /\ FailedForGood(items[j.id], Now) \in Deliveries
  BY <1>1, <1>2, TransitionsTyped
<1>4. Rescheduled(items[j.id], j.next, Now) \in Deliveries
  BY <1>1, <1>2 DEF Rescheduled, Deliveries, WellFormed, Terminal, ZeroTime, Statuses
<1> QED BY <1>3, <1>4, UndatedTyped DEF Outcome

(* Time passing keeps the shape of a delivery and its content.             *)
LEMMA AgedTyped ==
  ASSUME NEW d \in Deliveries
  PROVE  Aged(d) \in Deliveries /\ Aged(d).content = d.content
<1>1. \A t \in Nat : Older(t) \in Nat /\ (Older(t) = 0 <=> t = 0)
  BY DEF Older
<1> USE DEF Deliveries, ZeroTime
<1>2. d.nextAttemptAt \in Nat /\ d.leaseUntil \in Nat
  OBVIOUS
<1>3. ASSUME NEW next \in Nat, NEW lease \in Nat,
             next = 0 <=> d.nextAttemptAt = 0, lease = 0 <=> d.leaseUntil = 0
      PROVE  LET e == [d EXCEPT !.nextAttemptAt = next, !.leaseUntil = lease]
             IN  e \in Deliveries /\ e.content = d.content
  BY <1>3 DEF WellFormed, Terminal
<1> QED BY <1>1, <1>2, <1>3 DEF Aged

-----------------------------------------------------------------------------
(* The store.                                                              *)

(* A mutation of a well-formed delivery, done or failed, keeps the store   *)
(* typed.                                                                  *)
LEMMA MutationTyped ==
  ASSUME StoreTyped, NEW id \in Ids, NEW d, Undated(d) \in Deliveries,
         Persist(id, d) \/ PersistFails(id, d)
  PROVE  StoreTyped'
<1> USE DEF StoreTyped
<1>1. CASE Persist(id, d)
  <2>1. items' \in Tables
    BY <1>1 DEF Persist, Tables
  <2> QED BY <1>1, <2>1 DEF Persist
<1>2. CASE PersistFails(id, d)
  <2>1. [id |-> id, item |-> Undated(d)] \in [id : Ids, item : Deliveries]
    OBVIOUS
  <2>2. CASE ~healthy
    BY <1>2, <2>2 DEF PersistFails
  <2>3. CASE healthy
    <3>1. faultsLeft' \in Nat
      BY <1>2, <2>3 DEF PersistFails
    <3>2. inDoubt' = {[id |-> id, item |-> Undated(d)]}
      BY <1>2, <2>3 DEF PersistFails
    <3>3. healthy' = FALSE /\ items' = items
      BY <1>2, <2>3, Zenon DEF PersistFails
    <3> QED BY <2>1, <3>1, <3>2, <3>3
  <2> QED BY <2>2, <2>3
<1> QED BY <1>1, <1>2

(* Every step writes well-formed deliveries: one case per action.          *)
LEMMA StoreStep ==
  ASSUME IInv, [Next]_vars
  PROVE  StoreTyped'
<1> USE DEF IInv
<1>0. Now \in Times
  BY PoolAssumption
<1>1. \A id \in Live(items) : id \in Ids /\ items[id] \in Deliveries
  BY DEF StoreTyped, Live, Tables
<1>2. ASSUME NEW id \in Ids, NEW content \in Contents, Create(id, content)
      PROVE  StoreTyped'
  BY <1>0, <1>2, TransitionsTyped, UndatedTyped, MutationTyped DEF Create
<1>3. ASSUME NEW id \in Ids, Cancel(id)
      PROVE  StoreTyped'
  BY <1>0, <1>1, <1>3, TransitionsTyped, UndatedTyped, MutationTyped DEF Cancel
<1>4. ASSUME NEW id \in Ids, Retry(id)
      PROVE  StoreTyped'
  BY <1>0, <1>1, <1>4, TransitionsTyped, UndatedTyped, MutationTyped DEF Retry
<1>5. ASSUME NEW w \in Workers, ClaimStep(w)
      PROVE  StoreTyped'
  <2>1. \A id \in Claimable(w) : /\ id \in Ids
                                 /\ Undated(Claimed(items[id], readAt[w])) \in Deliveries
    BY <1>1, ClaimTyped DEF Claimable, WorkersTyped
  <2>2. CASE UNCHANGED <<store, faultsLeft>>
    BY <2>2 DEF StoreTyped, store
  <2>3. ASSUME NEW id \in Claimable(w), PersistFails(id, Claimed(items[id], readAt[w]))
        PROVE  StoreTyped'
    BY <2>1, <2>3, MutationTyped
  <2>4. ASSUME NEW id \in Ids, Claim(w, id)
        PROVE  StoreTyped'
    BY <2>1, <2>4, MutationTyped DEF Claim
  <2> QED BY <1>5, <2>2, <2>3, <2>4 DEF ClaimStep, ClaimNothing
<1>6. ASSUME NEW w \in Workers, Record(w)
      PROVE  StoreTyped'
  <2>1. job[w] \in Jobs /\ job[w].id \in Ids
    BY <1>6 DEF WorkersTyped, Record, Working, Jobs
  <2>2. job[w].next # ZeroTime
    BY <1>6 DEF Dated, Record
  <2>3. CASE StillHolds(job[w])
    BY <1>6, <2>1, <2>2, <2>3, OutcomeTyped, MutationTyped DEF Record, StoreTyped
  <2>4. CASE ~StillHolds(job[w])
    BY <1>6, <2>4 DEF Record, StoreTyped, store
  <2> QED BY <2>3, <2>4
<1>7. ASSUME NEW w \in Workers, Wake(w) \/ Quit(w) \/ Answer(w) \/ Release(w)
      PROVE  StoreTyped'
  BY <1>7 DEF StoreTyped, Wake, Quit, Answer, Reply, Release, store
<1>8. CASE Process
  <2>1. CASE Start
    <3>1. ASSUME NEW r \in inDoubt, items' = [items EXCEPT ![r.id] = r.item]
          PROVE  items' \in Tables
      <4>1. r.id \in Ids /\ r.item \in Deliveries
        BY DEF StoreTyped
      <4> QED BY <3>1, <4>1 DEF StoreTyped, Tables
    <3>2. items' \in Tables
      BY <2>1, <3>1 DEF Start, StoreTyped
    <3>3. healthy' = TRUE /\ inDoubt' = {} /\ faultsLeft' \in Nat
      BY <2>1 DEF Start, StoreTyped
    <3> QED BY <3>2, <3>3 DEF StoreTyped
  <2>2. CASE Repair \/ Stop \/ Stopped \/ Crash
    <3>1. faultsLeft' \in Nat
      BY <2>2 DEF StoreTyped, Repair, Stop, Stopped, Crash
    <3>2. items' = items /\ healthy' \in BOOLEAN
      BY <2>2, Zenon DEF StoreTyped, Repair, Stop, Stopped, Crash, Gone, store
    <3>3. inDoubt' \in {inDoubt, {}}
      BY <2>2 DEF Repair, Stop, Stopped, Crash, Gone, store
    <3> QED BY <3>1, <3>2, <3>3 DEF StoreTyped
  <2> QED BY <1>8, <2>1, <2>2 DEF Process
<1>9. CASE Tick
  <2>1. items' \in Tables
    BY <1>9, AgedTyped DEF StoreTyped, Tick, Tables
  <2>2. inDoubt' \subseteq [id : Ids, item : Deliveries]
    <3> SUFFICES ASSUME NEW r \in inDoubt
                 PROVE  [r EXCEPT !.item = Aged(@)] \in [id : Ids, item : Deliveries]
      BY <1>9 DEF Tick
    <3>1. r \in [id : Ids, item : Deliveries]
      BY DEF StoreTyped
    <3>2. Aged(r.item) \in Deliveries
      BY <3>1, AgedTyped
    <3> QED BY <3>1, <3>2
  <2>3. faultsLeft' \in Nat
    <3>1. \/ faultsLeft' = faultsLeft
          \/ faultsLeft > 0 /\ faultsLeft' = faultsLeft - 1
      BY <1>9, Zenon DEF Tick
    <3> QED BY <3>1 DEF StoreTyped
  <2>4. healthy' \in BOOLEAN
    BY <1>9, Zenon DEF StoreTyped, Tick
  <2> QED BY <2>1, <2>2, <2>3, <2>4 DEF StoreTyped
<1>10. CASE UNCHANGED vars
  BY <1>10 DEF StoreTyped, vars, store
<1> QED
  BY <1>2, <1>3, <1>4, <1>5, <1>6, <1>7, <1>8, <1>9, <1>10 DEF Next, Client, Worker

-----------------------------------------------------------------------------
(* The reservations.                                                       *)

(* Nothing changes for the reservations while every worker keeps its job   *)
(* or has none, and the counters stay.                                     *)
LEMMA SameJobs ==
  ASSUME ReservationsMatch, activeTargets' = activeTargets,
         \A v \in Workers :
           /\ job'[v] # NoJob <=> job[v] # NoJob
           /\ job[v] # NoJob => job'[v].item.content = job[v].item.content
  PROVE  ReservationsMatch'
<1>1. \A t \in Targets : Busy(t)' = Busy(t)
  BY DEF Busy, Origin
<1> QED BY <1>1 DEF ReservationsMatch

(* The workers at a target can be counted.                                 *)
LEMMA BusyFinite == \A t : IsFiniteSet(Busy(t)) /\ Cardinality(Busy(t)) \in Nat
BY WorkersAssumption, FS_Subset, FS_CardinalityType DEF Busy

(* A claim: one worker more, and the counter of its target with it.        *)
LEMMA OneMore ==
  ASSUME ReservationsMatch, activeTargets \in [Targets -> Nat],
         NEW w \in Workers, NEW t0 \in Targets,
         activeTargets[t0] < PerTarget,
         activeTargets' = [activeTargets EXCEPT ![t0] = @ + 1],
         job[w] = NoJob, job'[w] # NoJob, TargetOf(job'[w].item.content) = t0,
         \A v \in Workers \ {w} : job'[v] = job[v]
  PROVE  ReservationsMatch'
<1>1. Busy(t0)' = Busy(t0) \union {w} /\ w \notin Busy(t0)
  BY DEF Busy, Origin
<1>2. \A t \in Targets \ {t0} : Busy(t)' = Busy(t)
  BY DEF Busy, Origin
<1>3. Cardinality(Busy(t0)') = Cardinality(Busy(t0)) + 1
  BY <1>1, BusyFinite, FS_AddElement
<1>4. activeTargets'[t0] = activeTargets[t0] + 1 /\ activeTargets[t0] + 1 <= PerTarget
  BY PoolAssumption
<1>5. \A t \in Targets \ {t0} : activeTargets'[t] = activeTargets[t]
  OBVIOUS
<1> QED BY <1>2, <1>3, <1>4, <1>5 DEF ReservationsMatch

(* A release: one worker less.                                             *)
LEMMA OneLess ==
  ASSUME ReservationsMatch, activeTargets \in [Targets -> Nat],
         NEW w \in Workers, NEW t0 \in Targets,
         activeTargets' = [activeTargets EXCEPT ![t0] = @ - 1],
         job[w] # NoJob, job'[w] = NoJob, Origin(w) = t0,
         \A v \in Workers \ {w} : job'[v] = job[v]
  PROVE  ReservationsMatch' /\ activeTargets' \in [Targets -> Nat]
<1>1. Busy(t0)' = Busy(t0) \ {w} /\ w \in Busy(t0)
  BY DEF Busy, Origin
<1>2. \A t \in Targets \ {t0} : Busy(t)' = Busy(t)
  BY DEF Busy, Origin
<1>3. Cardinality(Busy(t0)') = Cardinality(Busy(t0)) - 1
  BY <1>1, BusyFinite, FS_RemoveElement
<1>4. Cardinality(Busy(t0)) > 0
  <2>1. Cardinality(Busy(t0)) # 0
    BY <1>1, BusyFinite, FS_EmptySet
  <2> QED BY <2>1, BusyFinite
<1>5. activeTargets[t0] = Cardinality(Busy(t0)) /\ activeTargets[t0] <= PerTarget
  BY DEF ReservationsMatch
<1>6. /\ activeTargets'[t0] = activeTargets[t0] - 1
      /\ activeTargets[t0] - 1 \in Nat /\ activeTargets[t0] - 1 <= PerTarget
  BY <1>4, <1>5, PoolAssumption
<1>7. \A t \in Targets \ {t0} : activeTargets'[t] = activeTargets[t]
  OBVIOUS
<1>8. activeTargets' \in [Targets -> Nat]
  BY <1>6
<1>9. ReservationsMatch'
  BY <1>2, <1>3, <1>5, <1>6, <1>7 DEF ReservationsMatch
<1> QED BY <1>8, <1>9

(* Nobody at work, nothing reserved.                                       *)
LEMMA NoneBusy ==
  ASSUME activeTargets = NoTargets, \A w \in Workers : job[w] = NoJob
  PROVE  ReservationsMatch
<1> SUFFICES ASSUME NEW t \in Targets
             PROVE  activeTargets[t] = Cardinality(Busy(t)) /\ activeTargets[t] <= PerTarget
  BY DEF ReservationsMatch
<1>1. Busy(t) = {} /\ activeTargets[t] = 0
  BY DEF Busy, NoTargets
<1>2. Cardinality({}) = 0
  BY FS_EmptySet
<1>3. 0 <= PerTarget
  BY PoolAssumption
<1> QED BY <1>1, <1>2, <1>3

(* What a worker gives up is reserved.                                     *)
LEMMA ReleaseReserved ==
  ASSUME WorkersTyped, NEW w \in Workers, Release(w)
  PROVE  /\ job[w] # NoJob /\ Origin(w) \in Targets
         /\ activeTargets' = [activeTargets EXCEPT ![Origin(w)] = @ - 1]
         /\ job' = [job EXCEPT ![w] = NoJob]
         /\ job'[w] = NoJob /\ \A v \in Workers \ {w} : job'[v] = job[v]
<1>1. job[w] \in Jobs /\ job[w] # NoJob
  BY DEF Release, WorkersTyped
<1>2. Origin(w) \in Targets
  BY <1>1, PoolAssumption DEF Origin, Jobs, Deliveries
<1> QED BY <1>1, <1>2 DEF Release, WorkersTyped

-----------------------------------------------------------------------------
(* The workers.                                                            *)

(* Every step keeps the workers typed, and their dates at hand.            *)
LEMMA WorkersStep ==
  ASSUME IInv, [Next]_vars
  PROVE  WorkersTyped' /\ Dated'
<1> USE DEF IInv, WorkersTyped, Dated, Working
<1>0. Now \in Nat \ {0}
  BY PoolAssumption, TimeAssumption
<1>1. ASSUME Client \/ Repair \/ Stop \/ Start
      PROVE  WorkersTyped' /\ Dated'
  BY <1>1, Zenon DEF Client, Create, Cancel, Retry, Repair, Stop, Start, workers
<1>2. ASSUME NEW w \in Workers, Wake(w) \/ Quit(w) \/ ClaimNothing(w) \/ Record(w)
      PROVE  WorkersTyped' /\ Dated'
  <2>1. CASE Wake(w)
    BY <1>0, <2>1 DEF Wake
  <2>2. CASE Quit(w)
    BY <2>2 DEF Quit
  <2>3. CASE ClaimNothing(w)
    BY <2>3 DEF ClaimNothing
  <2>4. CASE Record(w)
    BY <2>4 DEF Record
  <2> QED BY <1>2, <2>1, <2>2, <2>3, <2>4
<1>3. ASSUME NEW w \in Workers, NEW id \in Ids, Claim(w, id)
      PROVE  WorkersTyped' /\ Dated'
  <2>1. /\ items[id] \in Deliveries
        /\ Undated(Claimed(items[id], readAt[w])) \in Deliveries
    BY <1>3, ClaimTyped DEF StoreTyped, Claim, Claimable, Live, Tables
  <2>2. job'[w] \in Jobs
    BY <1>3, <2>1 DEF Claim, Jobs, HistoryTyped, ZeroTime
  <2>3. job' \in [Workers -> Jobs \union {NoJob}] /\ job'[w] # NoJob
    BY <1>3, <2>2, NoJobAssumption DEF Claim
  <2>4. /\ pc' = [pc EXCEPT ![w] = "sending"] /\ UNCHANGED <<phase, readAt>>
        /\ \A v \in Workers \ {w} : job'[v] = job[v] /\ pc'[v] = pc[v]
    BY <1>3 DEF Claim
  <2>5. activeTargets' \in [Targets -> Nat]
    <3>1. ASSUME NEW t
          PROVE  [activeTargets EXCEPT ![t] = @ + 1] \in [Targets -> Nat]
      <4>1. CASE t \in Targets
        BY <4>1
      <4>2. CASE t \notin Targets
        BY <4>2
      <4> QED BY <4>1, <4>2
    <3> QED BY <1>3, <3>1 DEF Claim
  <2> QED BY <2>3, <2>4, <2>5
<1>4. ASSUME NEW w \in Workers, Answer(w)
      PROVE  WorkersTyped' /\ Dated'
  <2>1. PICK reply \in Replies, backoff \in Backoffs : Reply(w, reply, backoff)
    BY <1>4 DEF Answer
  <2>2. Now + backoff \in Nat \ {0}
    BY <1>0, PoolAssumption
  <2>3. job[w] \in Jobs
    BY <2>1 DEF Reply
  <2>4. job'[w] \in Jobs /\ job'[w].next = Now + backoff
    BY <2>1, <2>2, <2>3 DEF Reply, Jobs
  <2>5. job' \in [Workers -> Jobs \union {NoJob}] /\ job'[w] # NoJob
    BY <2>1, <2>4, NoJobAssumption DEF Reply
  <2>6. /\ pc' = [pc EXCEPT ![w] = "recording"]
        /\ UNCHANGED <<phase, readAt, activeTargets>>
        /\ \A v \in Workers \ {w} : job'[v] = job[v] /\ pc'[v] = pc[v]
    BY <2>1 DEF Reply
  <2> QED BY <2>2, <2>4, <2>5, <2>6 DEF ZeroTime
<1>5. ASSUME NEW w \in Workers, Release(w)
      PROVE  WorkersTyped' /\ Dated'
  <2>1. activeTargets' \in [Targets -> Nat]
    BY <1>5, ReleaseReserved, OneLess
  <2>2. /\ pc' = [pc EXCEPT ![w] = "waiting"] /\ job' = [job EXCEPT ![w] = NoJob]
        /\ UNCHANGED <<phase, readAt>>
    BY <1>5 DEF Release
  <2> QED BY <2>1, <2>2
<1>6. CASE Gone
  BY <1>0, <1>6 DEF Gone, NoTargets
<1>7. CASE Tick
  <2>1. readAt' \in [Workers -> Nat]
    <3>1. \A t \in Nat : Older(t) \in Nat
      BY DEF Older
    <3> QED BY <1>7, <3>1 DEF Tick
  <2>2. ASSUME NEW w \in Workers
        PROVE  /\ job'[w] \in Jobs \union {NoJob}
               /\ job'[w] # NoJob <=> job[w] # NoJob
               /\ job[w] # NoJob /\ job[w].next # ZeroTime => job'[w].next # ZeroTime
    <3>1. CASE job[w] = NoJob
      BY <1>7, <3>1 DEF Tick
    <3>2. CASE job[w] # NoJob
      <4>1. job[w] \in Jobs
        BY <3>2
      <4>2. Aged(job[w].item) \in Deliveries
        BY <4>1, AgedTyped DEF Jobs
      <4>3. /\ Older(job[w].next) \in Nat
            /\ job[w].next # ZeroTime => Older(job[w].next) # ZeroTime
        BY <4>1 DEF Older, Jobs, ZeroTime
      <4>4. job'[w] = [job[w] EXCEPT !.item = Aged(@), !.next = Older(@)]
        BY <1>7, <3>2 DEF Tick
      <4>5. job'[w] \in Jobs /\ job'[w].next = Older(job[w].next)
        BY <4>1, <4>2, <4>3, <4>4 DEF Jobs
      <4> QED BY <3>2, <4>3, <4>5, NoJobAssumption
    <3> QED BY <3>1, <3>2
  <2>3. job' \in [Workers -> Jobs \union {NoJob}]
    BY <1>7, <2>2 DEF Tick
  <2> QED BY <1>7, <2>1, <2>2, <2>3 DEF Tick
<1>8. CASE UNCHANGED vars
  BY <1>8 DEF vars, workers
<1> QED
  BY <1>1, <1>2, <1>3, <1>4, <1>5, <1>6, <1>7, <1>8
  DEF Next, Worker, ClaimStep, Process, Stopped, Crash

(* Retry, Reply and Record alone write the histories.                      *)
LEMMA HistoryStep ==
  ASSUME IInv, [Next]_vars
  PROVE  HistoryTyped'
<1> USE DEF IInv, HistoryTyped
<1>1. ASSUME NEW id \in Ids, Retry(id)
      PROVE  HistoryTyped'
  BY <1>1 DEF Retry
<1>2. ASSUME NEW w \in Workers, Answer(w) \/ Record(w)
      PROVE  HistoryTyped'
  <2>1. job[w] \in Jobs
    BY <1>2 DEF WorkersTyped, Working, Answer, Reply, Record
  <2>2. job[w].id \in Ids /\ job[w].reply \in Replies \union {"none"}
    BY <2>1 DEF Jobs
  <2>3. CASE Answer(w)
    BY <2>2, <2>3 DEF Answer, Reply
  <2>4. CASE Record(w)
    BY <2>2, <2>4 DEF Record
  <2> QED BY <1>2, <2>3, <2>4
<1>3. CASE UNCHANGED history
  BY <1>3 DEF history
<1> QED
  <2>1. ASSUME Client, ~\E id \in Ids : Retry(id)
        PROVE  UNCHANGED history
    BY <2>1 DEF Client, Create, Cancel
  <2>2. ASSUME NEW w \in Workers, Wake(w) \/ Quit(w) \/ ClaimStep(w) \/ Release(w)
        PROVE  UNCHANGED history
    BY <2>2 DEF Wake, Quit, ClaimStep, Claim, ClaimNothing, Release
  <2>3. ASSUME Process \/ Tick \/ UNCHANGED vars
        PROVE  UNCHANGED history
    BY <2>3 DEF Process, Repair, Stop, Stopped, Crash, Gone, Start, Tick, vars
  <2> QED BY <1>1, <1>2, <1>3, <2>1, <2>2, <2>3 DEF Next, Worker

(* Only a claim, a release and the end of the process change who is busy.  *)
LEMMA ReservationsStep ==
  ASSUME IInv, [Next]_vars
  PROVE  ReservationsMatch'
<1> USE DEF IInv, WorkersTyped
<1>1. ASSUME NEW w \in Workers, NEW id \in Ids, Claim(w, id)
      PROVE  ReservationsMatch'
  <2> DEFINE d == items[id]
             t0 == TargetOf(d.content)
  <2>1. d \in Deliveries /\ Due(d, readAt[w]) /\ activeTargets[t0] < PerTarget
    BY <1>1 DEF StoreTyped, Claim, Claimable, Live, Tables
  <2>2. /\ Undated(Claimed(d, readAt[w])) \in Deliveries
        /\ Undated(Claimed(d, readAt[w])).content = d.content
        /\ Claimed(d, readAt[w]).content = d.content
    BY <2>1, ClaimTyped DEF Claimed, Deliveries
  <2>3. t0 \in Targets
    BY <2>1, PoolAssumption DEF Deliveries
  <2>4. job[w] = NoJob
    BY <1>1 DEF Claim, Working
  <2>5. activeTargets' = [activeTargets EXCEPT ![t0] = @ + 1]
    BY <1>1, <2>2 DEF Claim
  <2>6. job'[w] \in Jobs /\ job'[w].item.content = d.content
    BY <1>1, <2>2 DEF Claim, Jobs, HistoryTyped, ZeroTime
  <2>7. job'[w] # NoJob /\ \A v \in Workers \ {w} : job'[v] = job[v]
    BY <1>1, <2>6, NoJobAssumption DEF Claim
  <2> HIDE DEF t0, d
  <2> QED BY <2>1, <2>3, <2>4, <2>5, <2>6, <2>7, OneMore DEF t0
<1>2. ASSUME NEW w \in Workers, Release(w)
      PROVE  ReservationsMatch'
  BY <1>2, ReleaseReserved, OneLess
<1>3. CASE Gone
  <2> SUFFICES ASSUME NEW t \in Targets
               PROVE  /\ activeTargets'[t] = Cardinality(Busy(t)')
                      /\ activeTargets'[t] <= PerTarget
    BY DEF ReservationsMatch
  <2>1. Busy(t)' = {} /\ activeTargets'[t] = 0
    BY <1>3 DEF Gone, Busy, NoTargets
  <2>2. Cardinality({}) = 0 /\ 0 <= PerTarget
    BY FS_EmptySet, PoolAssumption
  <2> QED BY <2>1, <2>2
<1>4. ASSUME NEW w \in Workers, Answer(w)
      PROVE  ReservationsMatch'
  <2>1. PICK reply \in Replies, backoff \in Backoffs : Reply(w, reply, backoff)
    BY <1>4 DEF Answer
  <2>2. job[w] \in Jobs /\ job[w] # NoJob
    BY <2>1 DEF Reply, Working
  <2>3. job'[w] # NoJob /\ job'[w].item.content = job[w].item.content
    <3>1. job'[w] = [job[w] EXCEPT !.reply = reply, !.next = Now + backoff]
      BY <2>1, <2>2 DEF Reply, Jobs
    <3>2. Now + backoff \in Nat
      BY PoolAssumption, TimeAssumption
    <3>3. job'[w] \in Jobs /\ job'[w].item = job[w].item
      BY <2>2, <3>1, <3>2 DEF Jobs
    <3> QED BY <3>3, NoJobAssumption
  <2>4. \A v \in Workers \ {w} : job'[v] = job[v]
    BY <2>1 DEF Reply
  <2>5. activeTargets' = activeTargets
    BY <2>1 DEF Reply
  <2> QED BY <2>2, <2>3, <2>4, <2>5, SameJobs
<1>5. CASE Tick
  <2>1. ASSUME NEW v \in Workers, job[v] # NoJob
        PROVE  job'[v] # NoJob /\ job'[v].item.content = job[v].item.content
    <3>1. job[v] \in Jobs
      BY <2>1
    <3>2. /\ Aged(job[v].item) \in Deliveries
          /\ Aged(job[v].item).content = job[v].item.content
      BY <3>1, AgedTyped DEF Jobs
    <3>3. job'[v] = [job[v] EXCEPT !.item = Aged(@), !.next = Older(@)]
      BY <1>5, <2>1 DEF Tick
    <3>4. Older(job[v].next) \in Nat
      BY <3>1 DEF Older, Jobs
    <3>5. job'[v] \in Jobs /\ job'[v].item = Aged(job[v].item)
      BY <3>1, <3>2, <3>3, <3>4 DEF Jobs
    <3> QED BY <3>2, <3>5, NoJobAssumption
  <2>2. \A v \in Workers : job[v] = NoJob => job'[v] = NoJob
    BY <1>5 DEF Tick
  <2>3. activeTargets' = activeTargets
    BY <1>5 DEF Tick
  <2> QED BY <2>1, <2>2, <2>3, SameJobs
<1>6. CASE UNCHANGED <<job, activeTargets>>
  BY <1>6, SameJobs
<1> QED
  <2>1. ASSUME Client \/ Repair \/ Stop \/ Start \/ UNCHANGED vars
        PROVE  UNCHANGED <<job, activeTargets>>
    BY <2>1 DEF Client, Create, Cancel, Retry, Repair, Stop, Start, vars, workers
  <2>2. ASSUME NEW w \in Workers, Wake(w) \/ Quit(w) \/ ClaimNothing(w) \/ Record(w)
        PROVE  UNCHANGED <<job, activeTargets>>
    BY <2>2 DEF Wake, Quit, ClaimNothing, Record
  <2> QED
    BY <1>1, <1>2, <1>3, <1>4, <1>5, <1>6, <2>1, <2>2
    DEF Next, Worker, ClaimStep, Process, Stopped, Crash

-----------------------------------------------------------------------------
(* The first process starts with an empty table and idle workers.          *)
LEMMA InitHolds == Init => IInv
<1> SUFFICES ASSUME Init PROVE IInv
  OBVIOUS
<1> USE DEF Init
<1>1. StoreTyped
  <2>1. items \in Tables /\ inDoubt = {} /\ healthy \in BOOLEAN
    BY Zenon DEF EmptyTable, Tables
  <2>2. faultsLeft \in Nat
    BY WorkersAssumption
  <2> QED BY <2>1, <2>2 DEF StoreTyped
<1>2. WorkersTyped /\ Dated
  BY PoolAssumption, TimeAssumption DEF WorkersTyped, Dated, Working, NoTargets
<1>3. HistoryTyped
  BY DEF HistoryTyped
<1>4. ReservationsMatch
  BY NoneBusy
<1> QED BY <1>1, <1>2, <1>3, <1>4 DEF IInv

(* The invariant holds in every behaviour.                                 *)
LEMMA InvariantHolds == Spec => []IInv
<1>1. IInv /\ [Next]_vars => IInv'
  BY StoreStep, WorkersStep, HistoryStep, ReservationsStep DEF IInv
<1> QED BY <1>1, InitHolds, PTL DEF Spec

(* Every variable of the pool keeps its type, and what the workers write   *)
(* is always a well-formed delivery: ClaimDueMatching, Succeed and Fail as *)
(* worker.go calls them.                                                   *)
THEOREM PoolTypeCorrect == Spec => []TypeOK
<1>1. IInv => TypeOK
  BY DEF IInv, StoreTyped, WorkersTyped, HistoryTyped, TypeOK
<1> QED BY <1>1, InvariantHolds, PTL

(* claimDue and releaseTarget count exactly, and never above PerTarget:    *)
(* whatever fails, expires, stops or crashes, no reservation is leaked and *)
(* none is given back twice.                                               *)
THEOREM ReservationsExact == Spec => []ReservationsMatch
<1>1. IInv => ReservationsMatch
  BY DEF IInv
<1> QED BY <1>1, InvariantHolds, PTL

-----------------------------------------------------------------------------
(* What workers may do to each other and to a delivery.                    *)

(* A claim or a doubtful record is about a delivery the store has.         *)
About(id, d) == id \in Live(items) /\ items[id].content = d.content

Known ==
  /\ healthy => inDoubt = {}
  /\ phase = "down" => \A w \in Workers : pc[w] = "waiting"
  /\ \A w \in Workers : job[w] # NoJob => About(job[w].id, job[w].item)
  /\ \A r \in inDoubt : About(r.id, r.item)

-----------------------------------------------------------------------------
(* What the steps do to the parts of the state, case by case.              *)

(* The fields that the transitions of a delivery set.                      *)
LEMMA NewFields ==
  ASSUME NEW content \in Contents
  PROVE  LET e == Undated(New(NoKey, content, Now))
         IN  e.content = content /\ e.status = "pending" /\ e.attempts = 0
BY DEF New, Undated

(* What a cancellation and a manual retry leave.                           *)
LEMMA ClientFields ==
  ASSUME NEW d \in Deliveries
  PROVE  /\ LET e == Undated(Canceled(d, Now))
            IN  e.content = d.content /\ e.status = "canceled" /\ e.attempts = d.attempts
         /\ LET e == Undated(Retried(d, Now))
            IN  e.content = d.content /\ e.status = "pending" /\ e.attempts = 0
BY DEF Canceled, Retried, Undated, Deliveries

(* What a claim leaves.                                                    *)
LEMMA ClaimFields ==
  ASSUME NEW d \in Deliveries, NEW now \in Nat
  PROVE  LET e == Undated(Claimed(d, now))
         IN  /\ e.content = d.content /\ e.status = "in_flight"
             /\ e.attempts = d.attempts + 1 /\ e.leaseUntil = now + LeaseDuration
BY DEF Claimed, Undated, Deliveries

(* What an outcome leaves.                                                 *)
LEMMA OutcomeFields ==
  ASSUME NEW d \in Deliveries, NEW next
  PROVE  /\ LET e == Undated(Succeeded(d, Now))
            IN  e.content = d.content /\ e.status = "succeeded" /\ e.attempts = d.attempts
         /\ LET e == Undated(FailedForGood(d, Now))
            IN  e.content = d.content /\ e.status = "failed" /\ e.attempts = d.attempts
         /\ LET e == Undated(Rescheduled(d, next, Now))
            IN  e.content = d.content /\ e.status = "pending" /\ e.attempts = d.attempts
BY DEF Succeeded, FailedForGood, Rescheduled, Undated, Deliveries

(* What time leaves.                                                       *)
LEMMA AgedFields ==
  ASSUME NEW d \in Deliveries
  PROVE  LET e == Aged(d)
         IN  /\ e.content = d.content /\ e.status = d.status
             /\ e.attempts = d.attempts /\ e.leaseUntil = Older(d.leaseUntil)
BY DEF Aged, Deliveries

(* A mutation is done, or refused, or fails and leaves its record in doubt.*)
LEMMA MutationCases ==
  ASSUME IInv, NEW id \in Ids, NEW d, Persist(id, d) \/ PersistFails(id, d)
  PROVE  \/ /\ healthy /\ healthy' /\ items' = [items EXCEPT ![id] = Undated(d)]
            /\ UNCHANGED <<inDoubt, faultsLeft>>
         \/ /\ ~healthy /\ ~healthy'
            /\ UNCHANGED <<items, inDoubt, faultsLeft>>
         \/ /\ healthy /\ ~healthy' /\ UNCHANGED items
            /\ inDoubt' = {[id |-> id, item |-> Undated(d)]}
            /\ faultsLeft > 0 /\ faultsLeft' = faultsLeft - 1
<1>1. CASE Persist(id, d)
  BY <1>1, Zenon DEF Persist
<1>2. CASE PersistFails(id, d) /\ ~healthy
  BY <1>2, Zenon DEF PersistFails
<1>3. CASE PersistFails(id, d) /\ healthy
  BY <1>3, Zenon DEF PersistFails
<1> QED BY <1>1, <1>2, <1>3

(* Every worker with a claim has a job.                                    *)
LEMMA JobTyped ==
  ASSUME IInv, NEW w \in Workers, job[w] # NoJob
  PROVE  /\ job[w] \in Jobs /\ job[w].id \in Ids /\ job[w].item \in Deliveries
         /\ job[w].item.attempts \in Nat /\ job[w].item.leaseUntil \in Nat
<1>1. job[w] \in Jobs
  BY DEF IInv, WorkersTyped
<1> QED BY <1>1 DEF Jobs, Deliveries

(* Every live delivery is one.                                             *)
LEMMA LiveTyped ==
  ASSUME IInv, NEW id \in Live(items)
  PROVE  id \in Ids /\ items[id] \in Deliveries /\ items[id].content \in Contents
         /\ items[id].attempts \in Nat /\ items[id].leaseUntil \in Nat
<1>1. id \in Ids /\ items[id] \in Deliveries
  BY DEF IInv, StoreTyped, Live, Tables
<1> QED BY <1>1 DEF Deliveries

(* A claim gives a worker the very copy the table has.                     *)
LEMMA ClaimJob ==
  ASSUME IInv, NEW w \in Workers, NEW id \in Ids, Claim(w, id)
  PROVE  /\ id \in Live(items) /\ Due(items[id], readAt[w]) /\ readAt[w] \in Nat
         /\ job[w] = NoJob /\ job'[w] # NoJob
         /\ job'[w].id = id /\ job'[w].item = Undated(Claimed(items[id], readAt[w]))
         /\ items' = [items EXCEPT ![id] = Undated(Claimed(items[id], readAt[w]))]
         /\ healthy /\ healthy' /\ inDoubt' = inDoubt /\ faultsLeft' = faultsLeft
         /\ pc[w] = "claiming" /\ pc'[w] = "sending"
         /\ \A v \in Workers \ {w} : job'[v] = job[v] /\ pc'[v] = pc[v]
<1>1. id \in Live(items) /\ Due(items[id], readAt[w]) /\ readAt[w] \in Nat
  BY DEF IInv, WorkersTyped, Claim, Claimable
<1>2. Undated(Claimed(items[id], readAt[w])) \in Deliveries
  BY <1>1, LiveTyped, ClaimTyped
<1>3. job[w] = NoJob
  BY DEF Claim, IInv, WorkersTyped, Working
<1>4. /\ job'[w] = [id |-> id, item |-> Undated(Claimed(items[id], readAt[w])),
                    cycle |-> cycle[id], reply |-> "none", next |-> ZeroTime]
      /\ \A v \in Workers \ {w} : job'[v] = job[v] /\ pc'[v] = pc[v]
      /\ pc[w] = "claiming" /\ pc'[w] = "sending"
  BY DEF Claim, IInv, WorkersTyped
<1>5. job'[w] # NoJob
  <2>1. job'[w] \in Jobs
    BY <1>2, <1>4 DEF Jobs, IInv, HistoryTyped, ZeroTime
  <2> QED BY <2>1, NoJobAssumption
<1>6. /\ items' = [items EXCEPT ![id] = Undated(Claimed(items[id], readAt[w]))]
      /\ healthy /\ healthy' /\ inDoubt' = inDoubt /\ faultsLeft' = faultsLeft
  BY Zenon DEF Claim, Persist
<1> QED BY <1>1, <1>3, <1>4, <1>5, <1>6

(* An answer changes nothing but the reply of one worker.                  *)
LEMMA ReplyJob ==
  ASSUME IInv, NEW w \in Workers, NEW reply \in Replies, NEW backoff \in Backoffs,
         Reply(w, reply, backoff)
  PROVE  /\ job[w] # NoJob /\ job'[w] # NoJob
         /\ job'[w].id = job[w].id /\ job'[w].item = job[w].item
         /\ job'[w].reply = reply
         /\ pc[w] = "sending" /\ pc'[w] = "recording"
         /\ \A v \in Workers \ {w} : job'[v] = job[v] /\ pc'[v] = pc[v]
<1>1. job[w] \in Jobs /\ job[w] # NoJob
  BY DEF Reply, Working, IInv, WorkersTyped
<1>2. Now + backoff \in Nat
  BY PoolAssumption, TimeAssumption
<1>3. /\ job'[w] = [job[w] EXCEPT !.reply = reply, !.next = Now + backoff]
      /\ pc[w] = "sending" /\ pc'[w] = "recording"
      /\ \A v \in Workers \ {w} : job'[v] = job[v] /\ pc'[v] = pc[v]
  BY <1>1 DEF Reply, IInv, WorkersTyped
<1>4. job'[w] \in Jobs /\ job'[w].id = job[w].id /\ job'[w].item = job[w].item
      /\ job'[w].reply = reply
  BY <1>1, <1>2, <1>3 DEF Jobs
<1> QED BY <1>1, <1>3, <1>4, NoJobAssumption

(* Time ages what a worker holds ...                                       *)
LEMMA TickJob ==
  ASSUME IInv, Tick, NEW v \in Workers, job[v] # NoJob
  PROVE  /\ job'[v] # NoJob /\ job'[v].id = job[v].id /\ job'[v].reply = job[v].reply
         /\ job'[v].item = Aged(job[v].item)
<1>1. job[v] \in Jobs /\ job[v].item \in Deliveries
  BY JobTyped
<1>2. Aged(job[v].item) \in Deliveries /\ Older(job[v].next) \in Nat
  BY <1>1, AgedTyped DEF Jobs, Older
<1>3. job'[v] = [job[v] EXCEPT !.item = Aged(@), !.next = Older(@)]
  BY DEF Tick
<1>4. /\ job'[v] \in Jobs /\ job'[v].id = job[v].id /\ job'[v].reply = job[v].reply
      /\ job'[v].item = Aged(job[v].item)
  BY <1>1, <1>2, <1>3 DEF Jobs
<1> QED BY <1>4, NoJobAssumption

(* ... and what the table has.                                             *)
LEMMA TickItems ==
  ASSUME IInv, Tick
  PROVE  /\ Live(items)' = Live(items)
         /\ \A id \in Live(items) : items'[id] = Aged(items[id])
<1>1. \A id \in Ids : items[id] # Absent => Aged(items[id]) # Absent
  BY AgedTyped, AbsentAssumption DEF IInv, StoreTyped, Tables
<1> QED BY <1>1 DEF Tick, Live

(* A recording worker finds the delivery it claimed, or has lost it.       *)
LEMMA RecordCases ==
  ASSUME IInv, NEW w \in Workers, Record(w)
  PROVE  /\ job[w] # NoJob /\ pc[w] = "recording" /\ pc'[w] = "releasing"
         /\ \A v \in Workers \ {w} : pc'[v] = pc[v]
         /\ job' = job /\ phase' = phase /\ cycle' = cycle /\ accepted' = accepted
         /\ \/ /\ StillHolds(job[w])
               /\ \/ Persist(job[w].id, Outcome(job[w]))
                  \/ PersistFails(job[w].id, Outcome(job[w]))
               /\ healthy => cause' = [cause EXCEPT ![job[w].id] = job[w].reply]
               /\ ~healthy => cause' = cause
            \/ ~StillHolds(job[w]) /\ UNCHANGED <<store, faultsLeft, cause>>
<1>1. pc[w] = "recording" /\ pc' = [pc EXCEPT ![w] = "releasing"]
      /\ job' = job /\ phase' = phase /\ cycle' = cycle /\ accepted' = accepted
  BY DEF Record
<1>2. job[w] # NoJob
  BY <1>1 DEF IInv, WorkersTyped, Working
<1>3. \/ /\ StillHolds(job[w])
         /\ \/ Persist(job[w].id, Outcome(job[w]))
            \/ PersistFails(job[w].id, Outcome(job[w]))
         /\ cause' = IF healthy THEN [cause EXCEPT ![job[w].id] = job[w].reply] ELSE cause
      \/ ~StillHolds(job[w]) /\ UNCHANGED <<store, faultsLeft, cause>>
  BY Zenon DEF Record, store
<1>4. pc'[w] = "releasing" /\ \A v \in Workers \ {w} : pc'[v] = pc[v]
  BY <1>1 DEF IInv, WorkersTyped
<1> QED BY <1>1, <1>2, <1>3, <1>4, Zenon

(* What Record writes: the delivery as it was claimed, with one of the     *)
(* outcomes, each for its reason.                                          *)
LEMMA OutcomeCases ==
  ASSUME IInv, Known, NEW w \in Workers, Record(w), StillHolds(job[w])
  PROVE  LET j == job[w]
             e == Undated(Outcome(j))
         IN  /\ j.id \in Live(items) /\ items[j.id].status = "in_flight"
             /\ items[j.id].attempts = j.item.attempts
             /\ e \in Deliveries
             /\ e.content = items[j.id].content /\ e.attempts = items[j.id].attempts
             /\ \/ e.status = "succeeded" /\ j.reply = "accepted"
                \/ /\ e.status = "failed"
                   /\ j.reply = "refused" \/ e.attempts >= LimitOf(e.content)
                \/ e.status = "pending" /\ ~(e.attempts >= LimitOf(e.content))
<1> DEFINE j == job[w]
           d == items[j.id]
           e == Undated(Outcome(j))
<1>1. j # NoJob /\ j \in Jobs
  BY RecordCases, JobTyped
<1>2. j.id \in Live(items) /\ d.status = "in_flight" /\ d.attempts = j.item.attempts
  BY DEF StillHolds, HoldsLease
<1>3. d.content = j.item.content
  BY <1>1 DEF Known, About
<1>4. d \in Deliveries
  BY <1>2, LiveTyped
<1>5. e \in Deliveries
  <2>1. j.next # ZeroTime
    BY DEF Record, IInv, Dated
  <2> QED BY <1>1, <2>1, OutcomeTyped DEF IInv, StoreTyped
<1>6. CASE j.reply = "accepted"
  <2>1. Outcome(j) = Succeeded(d, Now)
    BY <1>6 DEF Outcome
  <2> HIDE DEF j, d
  <2>2. e.status = "succeeded" /\ e.content = d.content /\ e.attempts = d.attempts
    BY <1>4, <2>1, OutcomeFields
  <2> QED BY <1>2, <1>5, <1>6, <2>2 DEF j, d
<1>7. CASE j.reply # "accepted" /\ GivesUp(j)
  <2>1. Outcome(j) = FailedForGood(d, Now)
    BY <1>7 DEF Outcome
  <2>2. j.reply = "refused" \/ d.attempts >= LimitOf(d.content)
    BY <1>2, <1>3, <1>7 DEF GivesUp
  <2> HIDE DEF j, d
  <2>3. e.status = "failed" /\ e.content = d.content /\ e.attempts = d.attempts
    BY <1>4, <2>1, OutcomeFields
  <2> QED BY <1>2, <1>5, <2>2, <2>3 DEF j, d
<1>8. CASE j.reply # "accepted" /\ ~GivesUp(j)
  <2>1. Outcome(j) = Rescheduled(d, j.next, Now)
    BY <1>8 DEF Outcome
  <2>2. ~(d.attempts >= LimitOf(d.content))
    BY <1>2, <1>3, <1>8 DEF GivesUp
  <2> HIDE DEF j, d
  <2>3. e.status = "pending" /\ e.content = d.content /\ e.attempts = d.attempts
    BY <1>4, <2>1, OutcomeFields
  <2> QED BY <1>2, <1>5, <2>2, <2>3 DEF j, d
<1> QED BY <1>6, <1>7, <1>8

-----------------------------------------------------------------------------
(* Deliveries stay, with what was asked of them.                           *)

(* A mutation that keeps the content keeps what is known of deliveries.    *)
LEMMA MutationKeeps ==
  ASSUME IInv, Known, NEW id \in Ids, NEW d, Persist(id, d) \/ PersistFails(id, d),
         Undated(d) \in Deliveries,
         id \in Live(items) => Undated(d).content = items[id].content
  PROVE  /\ \A k \in Live(items) : k \in Live(items)' /\ items'[k].content = items[k].content
         /\ healthy' => inDoubt' = {}
         /\ id \in Live(items) => \A r \in inDoubt' : About(r.id, r.item)'
<1>1. items \in [Ids -> Deliveries \union {Absent}]
  BY DEF IInv, StoreTyped, Tables
<1>2. \A k \in Live(items) : k \in Live(items)' /\ items'[k].content = items[k].content
  BY <1>1, MutationCases, AbsentAssumption DEF Live
<1>3. healthy' => inDoubt' = {}
  BY MutationCases DEF Known
<1>4. ASSUME id \in Live(items), NEW r \in inDoubt'
      PROVE  About(r.id, r.item)'
  <2>1. CASE r \in inDoubt
    BY <1>2, <2>1 DEF Known, About
  <2>2. CASE r = [id |-> id, item |-> Undated(d)]
    BY <1>2, <1>4, <2>2 DEF About
  <2> QED BY <2>1, <2>2, MutationCases
<1> QED BY <1>2, <1>3, <1>4

(* What is known when nothing but the workers' places changes.             *)
LEMMA KnownSame ==
  ASSUME IInv, Known, healthy' => inDoubt' = {},
         \A k \in Live(items) : k \in Live(items)' /\ items'[k].content = items[k].content,
         \A r \in inDoubt' : About(r.id, r.item)',
         \A w \in Workers : job'[w] # NoJob =>
           \/ /\ job[w] # NoJob /\ job'[w].id = job[w].id
              /\ job'[w].item.content = job[w].item.content
           \/ About(job'[w].id, job'[w].item),
         phase' = "down" => \A w \in Workers : pc'[w] = "waiting"
  PROVE  Known'
BY DEF Known, About

(* Every step keeps what is spoken of in the table.                        *)
LEMMA KnownStep ==
  ASSUME IInv, Known, [Next]_vars
  PROVE  Known'
<1>1. ASSUME NEW id \in Ids, NEW content \in Contents, Create(id, content)
      PROVE  Known'
  <2>1. id \notin Live(items) /\ UNCHANGED <<phase, pc, job, inDoubt>>
    BY <1>1 DEF Create, Live, Persist, workers
  <2>2. Undated(New(NoKey, content, Now)) \in Deliveries
    BY PoolAssumption, TransitionsTyped, UndatedTyped
  <2>3. /\ healthy' => inDoubt' = {}
        /\ \A k \in Live(items) :
             k \in Live(items)' /\ items'[k].content = items[k].content
    BY <1>1, <2>1, <2>2, MutationKeeps DEF Create
  <2>4. phase # "down"
    BY <1>1 DEF Create
  <2> QED BY <2>1, <2>3, <2>4, KnownSame DEF Known, About
<1>2. ASSUME NEW id \in Ids, Cancel(id) \/ Retry(id)
      PROVE  Known'
  <2>1. id \in Live(items) /\ UNCHANGED <<phase, pc, job>> /\ phase # "down"
    BY <1>2 DEF Cancel, Retry, workers
  <2>2. items[id] \in Deliveries /\ Now \in Times
    BY <2>1, LiveTyped, PoolAssumption
  <2>3. PICK d \in {Canceled(items[id], Now), Retried(items[id], Now)} :
          Persist(id, d) /\ Undated(d) \in Deliveries
    BY <1>2, <2>2, TransitionsTyped, UndatedTyped DEF Cancel, Retry
  <2>4. Undated(d).content = items[id].content
    BY <2>2, <2>3, ClientFields
  <2>5. /\ healthy' => inDoubt' = {}
        /\ \A r \in inDoubt' : About(r.id, r.item)'
        /\ \A k \in Live(items) :
             k \in Live(items)' /\ items'[k].content = items[k].content
    BY <2>1, <2>3, <2>4, MutationKeeps
  <2> QED BY <2>1, <2>5, KnownSame
<1>3. ASSUME NEW w \in Workers, NEW id \in Ids, Claim(w, id)
      PROVE  Known'
  <2> DEFINE d == Claimed(items[id], readAt[w])
  <2>1. /\ id \in Live(items) /\ Due(items[id], readAt[w]) /\ readAt[w] \in Nat
        /\ job'[w].id = id /\ job'[w].item = Undated(d)
        /\ \A v \in Workers \ {w} : job'[v] = job[v] /\ pc'[v] = pc[v]
        /\ pc[w] = "claiming" /\ pc'[w] = "sending"
    BY <1>3, ClaimJob
  <2>2. items[id] \in Deliveries
    BY <2>1, LiveTyped
  <2>3. Undated(d) \in Deliveries /\ Undated(d).content = items[id].content
    BY <2>1, <2>2, ClaimTyped
  <2>4. Persist(id, d)
    BY <1>3 DEF Claim
  <2> HIDE DEF d
  <2>5. /\ healthy' => inDoubt' = {}
        /\ \A r \in inDoubt' : About(r.id, r.item)'
        /\ \A k \in Live(items) :
             k \in Live(items)' /\ items'[k].content = items[k].content
    BY <2>1, <2>3, <2>4, MutationKeeps
  <2>6. About(job'[w].id, job'[w].item)
    BY <2>1, <2>3 DEF About
  <2>7. phase' = phase /\ phase # "down"
    BY <1>3, <2>1 DEF Claim, Known
  <2> QED BY <2>1, <2>5, <2>6, <2>7, KnownSame
<1>4. ASSUME NEW w \in Workers, ClaimNothing(w)
      PROVE  Known'
  <2>1. UNCHANGED <<phase, job>> /\ pc[w] = "claiming"
    BY <1>4 DEF ClaimNothing
  <2>2. phase # "down"
    BY <2>1 DEF Known
  <2>3. CASE UNCHANGED <<store, faultsLeft>>
    BY <2>1, <2>2, <2>3, KnownSame DEF Known, About, store, Live
  <2>4. ASSUME NEW id \in Claimable(w), PersistFails(id, Claimed(items[id], readAt[w]))
        PROVE  Known'
    <3> DEFINE d == Claimed(items[id], readAt[w])
    <3>1. id \in Live(items) /\ Due(items[id], readAt[w]) /\ readAt[w] \in Nat
      BY DEF Claimable, IInv, WorkersTyped
    <3>2. id \in Ids /\ items[id] \in Deliveries
      BY <3>1, LiveTyped
    <3>3. Undated(d) \in Deliveries /\ Undated(d).content = items[id].content
      BY <3>1, <3>2, ClaimTyped
    <3>4. PersistFails(id, d)
      BY <2>4
    <3> HIDE DEF d
    <3>5. /\ healthy' => inDoubt' = {}
          /\ \A r \in inDoubt' : About(r.id, r.item)'
          /\ \A k \in Live(items) :
               k \in Live(items)' /\ items'[k].content = items[k].content
      BY <3>1, <3>2, <3>3, <3>4, MutationKeeps
    <3> QED BY <2>1, <2>2, <3>5, KnownSame
  <2> QED BY <1>4, <2>3, <2>4 DEF ClaimNothing
<1>5. ASSUME NEW w \in Workers, Answer(w)
      PROVE  Known'
  <2>1. PICK reply \in Replies, backoff \in Backoffs : Reply(w, reply, backoff)
    BY <1>5 DEF Answer
  <2>2. UNCHANGED <<phase, items, healthy, inDoubt>>
    BY <2>1 DEF Reply, store
  <2>3. /\ job[w] # NoJob /\ job'[w].id = job[w].id /\ job'[w].item = job[w].item
        /\ \A v \in Workers \ {w} : job'[v] = job[v]
        /\ pc[w] = "sending"
    BY <2>1, ReplyJob
  <2> QED BY <2>2, <2>3, KnownSame DEF Known, About, Live
<1>6. ASSUME NEW w \in Workers, Record(w)
      PROVE  Known'
  <2>1. /\ UNCHANGED <<phase, job>> /\ pc[w] = "recording" /\ job[w] # NoJob
    BY <1>6, RecordCases
  <2>2. phase # "down"
    BY <2>1 DEF Known
  <2>3. CASE StillHolds(job[w])
    <3> DEFINE d == Outcome(job[w])
               id == job[w].id
    <3>1. /\ id \in Live(items) /\ Undated(d) \in Deliveries
          /\ Undated(d).content = items[id].content
      BY <1>6, <2>3, OutcomeCases
    <3>2. Persist(id, d) \/ PersistFails(id, d)
      BY <1>6, <2>3, RecordCases
    <3>3. id \in Ids
      BY <3>1, LiveTyped
    <3> HIDE DEF d, id
    <3>4. /\ healthy' => inDoubt' = {}
          /\ \A r \in inDoubt' : About(r.id, r.item)'
          /\ \A k \in Live(items) :
               k \in Live(items)' /\ items'[k].content = items[k].content
      BY <3>1, <3>2, <3>3, MutationKeeps
    <3> QED BY <2>1, <2>2, <3>4, KnownSame
  <2>4. CASE ~StillHolds(job[w])
    <3>1. UNCHANGED store
      BY <1>6, <2>4, RecordCases
    <3> QED BY <2>1, <2>2, <3>1, KnownSame DEF Known, About, store, Live
  <2> QED BY <2>3, <2>4
<1>7. ASSUME NEW w \in Workers, Wake(w) \/ Quit(w) \/ Release(w)
      PROVE  Known'
  <2>1. UNCHANGED <<phase, store>>
    BY <1>7 DEF Wake, Quit, Release
  <2>2. phase # "down"
    BY <1>7 DEF Wake, Quit, Release, Known
  <2>3. \A v \in Workers : job'[v] # NoJob => job'[v] = job[v]
    BY <1>7 DEF Wake, Quit, Release, IInv, WorkersTyped
  <2> QED BY <2>1, <2>2, <2>3, KnownSame DEF Known, About, store, Live
<1>8. CASE Gone
  BY <1>8, KnownSame DEF Gone, Known, About, store, Live
<1>9. CASE Start
  <2>1. /\ UNCHANGED <<pc, job>> /\ inDoubt' = {} /\ phase' = "up"
        /\ \/ UNCHANGED items
           \/ \E r \in inDoubt : items' = [items EXCEPT ![r.id] = r.item]
    BY <1>9 DEF Start, workers
  <2>2. \A k \in Live(items) : k \in Live(items)' /\ items'[k].content = items[k].content
    <3>1. ASSUME NEW r \in inDoubt, items' = [items EXCEPT ![r.id] = r.item],
                 NEW k \in Live(items)
          PROVE  k \in Live(items)' /\ items'[k].content = items[k].content
      <4>1. About(r.id, r.item) /\ r.item \in Deliveries
        BY DEF Known, IInv, StoreTyped
      <4> QED BY <3>1, <4>1, AbsentAssumption DEF About, IInv, StoreTyped, Tables, Live
    <3> QED BY <2>1, <3>1 DEF Live
  <2> QED BY <2>1, <2>2, KnownSame DEF Known, About, Live
<1>10. CASE Repair
  BY <1>10, KnownSame DEF Repair, Known, About, workers, Live
<1>11. CASE Stop
  BY <1>11, KnownSame DEF Stop, Known, About, workers, store, Live
<1>12. CASE Tick
  <2>1. \A k \in Live(items) : k \in Live(items)' /\ items'[k].content = items[k].content
    BY <1>12, TickItems, LiveTyped, AgedFields
  <2>2. ASSUME NEW w \in Workers, job'[w] # NoJob
        PROVE  /\ job[w] # NoJob /\ job'[w].id = job[w].id
               /\ job'[w].item.content = job[w].item.content
    <3>1. job[w] # NoJob
      BY <1>12, <2>2 DEF Tick
    <3> QED BY <1>12, <3>1, TickJob, JobTyped, AgedFields
  <2>3. \A r \in inDoubt' : About(r.id, r.item)'
    <3> SUFFICES ASSUME NEW r \in inDoubt
                 PROVE  LET q == [r EXCEPT !.item = Aged(@)] IN About(q.id, q.item)'
      BY <1>12 DEF Tick
    <3> DEFINE q == [r EXCEPT !.item = Aged(@)]
    <3>1. r \in [id : Ids, item : Deliveries] /\ About(r.id, r.item)
      BY DEF IInv, StoreTyped, Known
    <3>2. q.id = r.id /\ q.item = Aged(r.item)
      BY <3>1
    <3>3. q.item.content = r.item.content
      BY <3>1, <3>2, AgedFields
    <3> QED BY <2>1, <3>1, <3>2, <3>3 DEF About
  <2>4. UNCHANGED <<phase, healthy, pc>> /\ (inDoubt = {} => inDoubt' = {})
    BY <1>12, Zenon DEF Tick
  <2> QED BY <2>1, <2>2, <2>3, <2>4, KnownSame DEF Known
<1>13. CASE UNCHANGED vars
  BY <1>13, KnownSame DEF vars, workers, store, Known, About, Live
<1> QED
  BY <1>1, <1>2, <1>3, <1>4, <1>5, <1>6, <1>7, <1>8, <1>9, <1>10, <1>11, <1>12, <1>13
  DEF Next, Client, Worker, ClaimStep, Process, Stopped, Crash

-----------------------------------------------------------------------------
(* Outcomes and their causes.                                              *)

(* OutcomesHaveCause, of what the store has and of what may come back.     *)
Caused(id, d) ==
  /\ d.status = "succeeded" => id \in accepted
  /\ d.status = "failed" => cause[id] = "refused" \/ d.attempts >= LimitOf(d.content)

CauseInv ==
  /\ \A w \in Workers : pc[w] = "recording" /\ job[w].reply = "accepted" =>
       job[w].id \in accepted
  /\ \A id \in Live(items) : Caused(id, items[id])
  /\ \A r \in inDoubt : Caused(r.id, r.item)

(* A mutation that writes, or leaves in doubt, a delivery with its cause.  *)
LEMMA MutationCaused ==
  ASSUME IInv, Known, CauseInv, NEW id \in Ids, NEW d,
         Persist(id, d) \/ PersistFails(id, d),
         accepted' = accepted, \A k \in Ids \ {id} : cause'[k] = cause[k],
         cause' = cause \/ (healthy /\ id \in Live(items) /\ items[id].status = "in_flight"),
         healthy => Caused(id, Undated(d))'
  PROVE  /\ \A k \in Live(items)' : Caused(k, items[k])'
         /\ \A r \in inDoubt' : Caused(r.id, r.item)'
<1>0. items \in [Ids -> Deliveries \union {Absent}]
  BY DEF IInv, StoreTyped, Tables
<1>2. \A k \in Live(items) : Caused(k, items[k]) /\ (k # id => cause'[k] = cause[k])
  BY DEF CauseInv, Live
<1>3. CASE /\ healthy /\ healthy' /\ items' = [items EXCEPT ![id] = Undated(d)]
           /\ UNCHANGED <<inDoubt, faultsLeft>>
  <2>1. inDoubt' = {}
    BY <1>3 DEF Known
  <2>2. ASSUME NEW k \in Live(items)'
        PROVE  Caused(k, items[k])'
    <3>1. CASE k = id
      BY <1>0, <1>3, <3>1 DEF Caused
    <3>2. CASE k # id
      <4>1. k \in Live(items) /\ items'[k] = items[k] /\ cause'[k] = cause[k]
        BY <1>0, <1>3, <3>2 DEF Live
      <4> QED BY <1>2, <4>1 DEF Caused
    <3> QED BY <3>1, <3>2
  <2> QED BY <2>1, <2>2
<1>4. CASE ~healthy /\ ~healthy' /\ UNCHANGED <<items, inDoubt, faultsLeft>>
  <2>1. cause' = cause
    BY <1>4
  <2> QED BY <1>4, <2>1 DEF CauseInv, Caused, Live
<1>5. CASE /\ healthy /\ ~healthy' /\ UNCHANGED items
           /\ inDoubt' = {[id |-> id, item |-> Undated(d)]}
  <2>1. \A r \in inDoubt' : Caused(r.id, r.item)'
    BY <1>5 DEF Caused
  <2>2. ASSUME NEW k \in Live(items)'
        PROVE  Caused(k, items[k])'
    <3>1. k \in Live(items) /\ items'[k] = items[k]
      BY <1>5 DEF Live
    <3> QED BY <1>2, <3>1 DEF Caused
  <2> QED BY <2>1, <2>2
<1> QED BY <1>3, <1>4, <1>5, MutationCases

(* What is caused stays so while nobody writes a delivery or a cause.      *)
LEMMA CauseSame ==
  ASSUME CauseInv, accepted \subseteq accepted', cause' = cause,
         \A w \in Workers : pc'[w] = "recording" =>
           \/ pc[w] = "recording" /\ job'[w].id = job[w].id /\ job'[w].reply = job[w].reply
           \/ job'[w].reply = "accepted" => job'[w].id \in accepted',
         UNCHANGED items \/ \E r \in inDoubt : items' = [items EXCEPT ![r.id] = r.item],
         inDoubt' \subseteq inDoubt, IInv
  PROVE  CauseInv'
<1>0. items \in [Ids -> Deliveries \union {Absent}]
  BY DEF IInv, StoreTyped, Tables
<1>1. \A w \in Workers : pc'[w] = "recording" /\ job'[w].reply = "accepted" =>
        job'[w].id \in accepted'
  BY DEF CauseInv
<1>2. \A k, d : Caused(k, d) => Caused(k, d)'
  BY DEF Caused
<1>3. \A k \in Live(items)' : Caused(k, items'[k])
  <2>1. CASE UNCHANGED items
    BY <2>1 DEF CauseInv, Live
  <2>2. ASSUME NEW r \in inDoubt, items' = [items EXCEPT ![r.id] = r.item],
               NEW k \in Live(items)'
        PROVE  Caused(k, items'[k])
    <3>1. CASE k = r.id
      BY <1>0, <2>2, <3>1 DEF CauseInv, Live
    <3>2. CASE k # r.id
      BY <1>0, <2>2, <3>2 DEF CauseInv, Live
    <3> QED BY <3>1, <3>2
  <2> QED BY <2>1, <2>2
<1>4. \A k \in Live(items)' : Caused(k, items[k])'
  BY <1>3 DEF Caused
<1>5. \A r \in inDoubt' : Caused(r.id, r.item)'
  BY <1>2 DEF CauseInv
<1> QED BY <1>1, <1>4, <1>5 DEF CauseInv

(* Every step keeps the causes of outcomes.                                *)
LEMMA CauseStep ==
  ASSUME IInv, Known, CauseInv, [Next]_vars
  PROVE  CauseInv'
<1>0. Now \in Times
  BY PoolAssumption
<1>1. ASSUME NEW id \in Ids, Cancel(id) \/ Retry(id) \/ \E c \in Contents : Create(id, c)
      PROVE  CauseInv'
  <2>1. UNCHANGED <<pc, job, accepted, cause>>
    BY <1>1 DEF Cancel, Retry, Create, workers, history
  <2>2. PICK d : Persist(id, d) /\ Undated(d).status \in {"pending", "canceled"}
    <3>1. CASE \E c \in Contents : Create(id, c)
      BY <3>1, NewFields DEF Create
    <3>2. CASE Cancel(id)
      BY <3>2, LiveTyped, ClientFields DEF Cancel
    <3>3. CASE Retry(id)
      BY <3>3, LiveTyped, ClientFields DEF Retry
    <3> QED BY <1>1, <3>1, <3>2, <3>3
  <2>3. Caused(id, Undated(d))'
    BY <2>2 DEF Caused
  <2>4. /\ \A k \in Live(items)' : Caused(k, items[k])'
        /\ \A r \in inDoubt' : Caused(r.id, r.item)'
    BY <2>1, <2>2, <2>3, MutationCaused
  <2> QED BY <2>1, <2>4 DEF CauseInv
<1>2. ASSUME NEW w \in Workers, ClaimStep(w)
      PROVE  CauseInv'
  <2>1. /\ accepted' = accepted /\ cause' = cause
        /\ \A v \in Workers : pc'[v] = "recording" => pc[v] = "recording" /\ job'[v] = job[v]
    <3>1. CASE ClaimNothing(w)
      BY <3>1 DEF ClaimNothing, history, IInv, WorkersTyped
    <3>2. ASSUME NEW id \in Ids, Claim(w, id)
          PROVE  /\ accepted' = accepted /\ cause' = cause
                 /\ \A v \in Workers : pc'[v] = "recording" =>
                      pc[v] = "recording" /\ job'[v] = job[v]
      <4>1. accepted' = accepted /\ cause' = cause
        BY <3>2 DEF Claim, history
      <4> QED BY <3>2, <4>1, ClaimJob
    <3> QED BY <1>2, <3>1, <3>2 DEF ClaimStep
  <2>2. CASE UNCHANGED <<store, faultsLeft>>
    BY <2>1, <2>2, CauseSame DEF store
  <2>3. ASSUME NEW id \in Claimable(w),
               \/ Persist(id, Claimed(items[id], readAt[w]))
               \/ PersistFails(id, Claimed(items[id], readAt[w]))
        PROVE  CauseInv'
    <3>0. PICK d : d = Claimed(items[id], readAt[w])
      OBVIOUS
    <3>1. id \in Ids /\ items[id] \in Deliveries /\ readAt[w] \in Nat
      BY LiveTyped DEF Claimable, IInv, WorkersTyped
    <3>2. Undated(d).status = "in_flight"
      BY <3>0, <3>1, ClaimFields
    <3>3. Persist(id, d) \/ PersistFails(id, d)
      BY <2>3, <3>0
    <3>4. Caused(id, Undated(d))'
      BY <3>2 DEF Caused
    <3>5. /\ \A k \in Live(items)' : Caused(k, items[k])'
          /\ \A r \in inDoubt' : Caused(r.id, r.item)'
      BY <2>1, <3>1, <3>3, <3>4, MutationCaused
    <3> QED BY <2>1, <3>5 DEF CauseInv
  <2> QED BY <1>2, <2>2, <2>3 DEF ClaimStep, ClaimNothing, Claim
<1>3. ASSUME NEW w \in Workers, Answer(w)
      PROVE  CauseInv'
  <2>1. PICK reply \in Replies, backoff \in Backoffs : Reply(w, reply, backoff)
    BY <1>3 DEF Answer
  <2>2. /\ UNCHANGED <<items, inDoubt, cause>>
        /\ accepted' = IF reply = "accepted" THEN accepted \union {job[w].id} ELSE accepted
    BY <2>1 DEF Reply, store
  <2>3. /\ job'[w].id = job[w].id /\ job'[w].reply = reply
        /\ \A v \in Workers \ {w} : job'[v] = job[v] /\ pc'[v] = pc[v]
    BY <2>1, ReplyJob
  <2> QED BY <2>2, <2>3, CauseSame
<1>4. ASSUME NEW w \in Workers, Record(w)
      PROVE  CauseInv'
  <2>1. /\ job[w] # NoJob /\ pc[w] = "recording" /\ pc'[w] = "releasing"
        /\ \A v \in Workers \ {w} : pc'[v] = pc[v]
        /\ job' = job /\ accepted' = accepted
    BY <1>4, RecordCases
  <2>2. CASE StillHolds(job[w])
    <3>0. PICK id, d : id = job[w].id /\ d = Outcome(job[w])
      OBVIOUS
    <3>1. /\ id \in Live(items) /\ items[id].status = "in_flight"
          /\ \/ Undated(d).status = "succeeded" /\ job[w].reply = "accepted"
             \/ /\ Undated(d).status = "failed"
                /\ \/ job[w].reply = "refused"
                   \/ Undated(d).attempts >= LimitOf(Undated(d).content)
             \/ Undated(d).status = "pending"
      BY <1>4, <2>2, <3>0, OutcomeCases
    <3>2. /\ Persist(id, d) \/ PersistFails(id, d)
          /\ healthy => cause' = [cause EXCEPT ![id] = job[w].reply]
          /\ ~healthy => cause' = cause
      BY <1>4, <2>2, <3>0, RecordCases
    <3>3. cause \in [Ids -> Replies \union {"none"}] /\ id \in Ids
      BY <3>1, LiveTyped DEF IInv, HistoryTyped
    <3>4. job[w].reply = "accepted" => id \in accepted
      BY <2>1, <3>0 DEF CauseInv
    <3>5. healthy => Caused(id, Undated(d))'
      BY <2>1, <3>1, <3>2, <3>3, <3>4 DEF Caused
    <3>6. \A k \in Ids \ {id} : cause'[k] = cause[k]
      BY <3>2, <3>3
    <3>7. /\ \A k \in Live(items)' : Caused(k, items[k])'
          /\ \A r \in inDoubt' : Caused(r.id, r.item)'
      BY <2>1, <3>1, <3>2, <3>3, <3>5, <3>6, MutationCaused
    <3> QED BY <2>1, <3>7 DEF CauseInv
  <2>3. CASE ~StillHolds(job[w])
    <3>1. UNCHANGED <<store, faultsLeft, cause>>
      BY <1>4, <2>3, RecordCases
    <3> QED BY <2>1, <3>1, CauseSame DEF store
  <2> QED BY <2>2, <2>3
<1>5. ASSUME NEW w \in Workers, Wake(w) \/ Quit(w) \/ Release(w)
      PROVE  CauseInv'
  <2>1. UNCHANGED <<items, inDoubt, accepted, cause>>
    BY <1>5 DEF Wake, Quit, Release, store, history
  <2>2. \A v \in Workers : pc'[v] = "recording" => pc[v] = "recording" /\ job'[v] = job[v]
    BY <1>5 DEF Wake, Quit, Release, IInv, WorkersTyped
  <2> QED BY <2>1, <2>2, CauseSame
<1>6. CASE Gone
  BY <1>6, CauseSame DEF Gone, store, history
<1>7. CASE Repair \/ Stop \/ Start \/ UNCHANGED vars
  <2>1. UNCHANGED <<pc, job, accepted, cause>> /\ inDoubt' \subseteq inDoubt
    BY <1>7 DEF Repair, Stop, Start, vars, workers, history, store
  <2>2. UNCHANGED items \/ \E r \in inDoubt : items' = [items EXCEPT ![r.id] = r.item]
    BY <1>7 DEF Repair, Stop, Start, vars, store
  <2> QED BY <2>1, <2>2, CauseSame
<1>8. CASE Tick
  <2>1. UNCHANGED <<pc, accepted, cause>>
    BY <1>8 DEF Tick, history
  <2>2. ASSUME NEW v \in Workers, pc'[v] = "recording"
        PROVE  job'[v].id = job[v].id /\ job'[v].reply = job[v].reply
    <3>1. job[v] # NoJob
      BY <2>1, <2>2 DEF IInv, WorkersTyped, Working
    <3> QED BY <1>8, <3>1, TickJob
  <2>3. ASSUME NEW k \in Live(items)'
        PROVE  Caused(k, items[k])'
    <3>1. k \in Live(items) /\ items'[k] = Aged(items[k])
      BY <1>8, TickItems
    <3>2. items[k] \in Deliveries /\ Caused(k, items[k])
      BY <3>1, LiveTyped DEF CauseInv
    <3> QED BY <2>1, <3>1, <3>2, AgedFields DEF Caused
  <2>4. ASSUME NEW r \in inDoubt'
        PROVE  Caused(r.id, r.item)'
    <3>1. PICK q \in inDoubt : r = [q EXCEPT !.item = Aged(@)]
      BY <1>8 DEF Tick
    <3>2. q \in [id : Ids, item : Deliveries] /\ Caused(q.id, q.item)
      BY DEF IInv, StoreTyped, CauseInv
    <3>3. r.id = q.id /\ r.item = Aged(q.item)
      BY <3>1, <3>2
    <3> QED BY <2>1, <3>2, <3>3, AgedFields DEF Caused
  <2> QED BY <2>1, <2>2, <2>3, <2>4 DEF CauseInv
<1> QED
  BY <1>1, <1>2, <1>3, <1>4, <1>5, <1>6, <1>7, <1>8
  DEF Next, Client, Worker, Process, Stopped, Crash

-----------------------------------------------------------------------------
(* Leases.                                                                 *)

(* A claim of a delivery nobody retried by hand: its attempt number is its *)
(* own.  While its lease lasts, the delivery is as it was claimed, or over.*)
First(w) == job[w] # NoJob /\ cycle[job[w].id] = 0
Valid(w) == job[w].item.leaseUntil > Now

Untouched(w) ==
  LET d == items[job[w].id] IN
  /\ d.status = "in_flight"
  /\ d.attempts = job[w].item.attempts /\ d.leaseUntil = job[w].item.leaseUntil

ReadingsPast == \A w \in Workers : 1 <= readAt[w] /\ readAt[w] <= Now

LeaseInv ==
  \A w \in Workers : First(w) =>
    /\ job[w].item.attempts <= items[job[w].id].attempts
    /\ pc[w] = "sending" /\ Valid(w) => Terminal(items[job[w].id]) \/ Untouched(w)
    /\ \A v \in Workers \ {w} : First(v) /\ job[v].id = job[w].id =>
         /\ job[v].item.attempts # job[w].item.attempts
         /\ pc[v] = "sending" /\ pc[w] = "sending" => ~Valid(v) \/ ~Valid(w)

(* No reading of the clock is of the future, or older than times go back.  *)
LEMMA ReadingsStep ==
  ASSUME IInv, ReadingsPast, [Next]_vars
  PROVE  ReadingsPast'
<1>0. Now \in Nat \ {0} /\ \A w \in Workers : readAt[w] \in Nat
  BY PoolAssumption, TimeAssumption DEF IInv, WorkersTyped
<1>1. ASSUME NEW w \in Workers, Wake(w)
      PROVE  ReadingsPast'
  BY <1>0, <1>1 DEF ReadingsPast, Wake, IInv, WorkersTyped
<1>2. CASE Gone
  BY <1>0, <1>2 DEF ReadingsPast, Gone
<1>3. CASE Tick
  <2>1. \A w \in Workers : readAt'[w] \in {readAt[w], Older(readAt[w])}
    BY <1>3 DEF Tick
  <2> QED BY <1>0, <2>1 DEF ReadingsPast, Older
<1>4. CASE UNCHANGED readAt
  BY <1>4 DEF ReadingsPast
<1>5. ASSUME Client \/ Repair \/ Stop \/ Start \/ UNCHANGED vars
      PROVE  UNCHANGED readAt
  BY <1>5 DEF Client, Create, Cancel, Retry, Repair, Stop, Start, vars, workers
<1>6. ASSUME NEW w \in Workers, Quit(w) \/ ClaimStep(w) \/ Answer(w) \/ Record(w) \/ Release(w)
      PROVE  UNCHANGED readAt
  BY <1>6 DEF Quit, ClaimStep, ClaimNothing, Claim, Answer, Reply, Record, Release
<1> QED
  BY <1>1, <1>2, <1>3, <1>4, <1>5, <1>6 DEF Next, Worker, Process, Stopped, Crash

(* Steps that claim nothing: jobs end or stay what they were, and what     *)
(* they are about is left alone, over, or of a later cycle.                *)
LEMMA LeaseSame ==
  ASSUME LeaseInv, IInv, Known,
         \A w \in Workers : job'[w] # NoJob =>
           /\ job[w] # NoJob /\ job'[w].id = job[w].id
           /\ job'[w].item.attempts = job[w].item.attempts
           /\ Valid(w)' => Valid(w)
           /\ pc'[w] = "sending" => pc[w] = "sending",
         \A w \in Workers : First(w)' =>
           /\ cycle[job[w].id] = 0
           /\ items'[job[w].id].attempts = items[job[w].id].attempts
           /\ Terminal(items[job[w].id]) => Terminal(items'[job[w].id])
           /\ pc'[w] = "sending" /\ Valid(w)' /\ Untouched(w) =>
                Terminal(items'[job[w].id]) \/ Untouched(w)'
  PROVE  LeaseInv'
<1>1. \A w \in Workers : First(w)' => First(w)
  BY DEF First
<1> SUFFICES ASSUME NEW w \in Workers, First(w)'
             PROVE  /\ job'[w].item.attempts <= items'[job'[w].id].attempts
                    /\ pc'[w] = "sending" /\ Valid(w)' =>
                         Terminal(items'[job'[w].id]) \/ Untouched(w)'
                    /\ \A v \in Workers \ {w} : First(v)' /\ job'[v].id = job'[w].id =>
                         /\ job'[v].item.attempts # job'[w].item.attempts
                         /\ pc'[v] = "sending" /\ pc'[w] = "sending" =>
                              ~Valid(v)' \/ ~Valid(w)'
  BY DEF LeaseInv
<1>2. /\ First(w) /\ job'[w] # NoJob /\ job'[w].id = job[w].id
      /\ job'[w].item.attempts = job[w].item.attempts
      /\ pc'[w] = "sending" => pc[w] = "sending"
  BY <1>1 DEF First
<1>3. job'[w].item.attempts <= items'[job'[w].id].attempts
  BY <1>2 DEF LeaseInv
<1>4. pc'[w] = "sending" /\ Valid(w)' => Terminal(items'[job'[w].id]) \/ Untouched(w)'
  BY <1>2 DEF LeaseInv
<1>5. ASSUME NEW v \in Workers \ {w}, First(v)', job'[v].id = job'[w].id
      PROVE  /\ job'[v].item.attempts # job'[w].item.attempts
             /\ pc'[v] = "sending" /\ pc'[w] = "sending" => ~Valid(v)' \/ ~Valid(w)'
  <2>1. /\ First(v) /\ job'[v] # NoJob /\ job'[v].id = job[v].id
        /\ job'[v].item.attempts = job[v].item.attempts
        /\ pc'[v] = "sending" => pc[v] = "sending"
    BY <1>1, <1>5 DEF First
  <2> QED BY <1>2, <1>5, <2>1 DEF LeaseInv
<1> QED BY <1>3, <1>4, <1>5

(* A mutation is seen on its own delivery only, if at all.                 *)
LEMMA MutationElsewhere ==
  ASSUME IInv, NEW id \in Ids, NEW d, Persist(id, d) \/ PersistFails(id, d)
  PROVE  /\ \A k \in Ids \ {id} : items'[k] = items[k]
         /\ items'[id] = items[id] \/ items'[id] = Undated(d)
<1>1. items \in [Ids -> Deliveries \union {Absent}]
  BY DEF IInv, StoreTyped, Tables
<1> QED BY <1>1, MutationCases

(* Every step keeps what is known of leases.                               *)
LEMMA LeaseStep ==
  ASSUME IInv, Known, ReadingsPast, LeaseInv, [Next]_vars
  PROVE  LeaseInv'
<1>0. \A w \in Workers : job[w] # NoJob => job[w].id \in Ids /\ job[w].id \in Live(items)
  BY JobTyped DEF Known, About
<1>1. ASSUME NEW id \in Ids, NEW content \in Contents, Create(id, content)
      PROVE  LeaseInv'
  <2>1. UNCHANGED <<pc, job, cycle>> /\ id \notin Live(items)
    BY <1>1 DEF Create, workers, history, Live
  <2>2. \A k \in Live(items) : items'[k] = items[k]
    BY <1>1, <2>1, MutationElsewhere DEF Create, Live
  <2> QED BY <1>0, <2>1, <2>2, LeaseSame DEF First, Valid, Untouched
<1>2. ASSUME NEW id \in Ids, Cancel(id)
      PROVE  LeaseInv'
  <2>1. UNCHANGED <<pc, job, cycle>> /\ id \in Live(items)
    BY <1>2 DEF Cancel, workers, history
  <2>2. \A k \in Ids \ {id} : items'[k] = items[k]
    BY <1>2, MutationElsewhere DEF Cancel
  <2>3. items'[id] = Undated(Canceled(items[id], Now))
    BY <1>2 DEF Cancel, Persist, IInv, StoreTyped, Tables
  <2>4. items'[id].attempts = items[id].attempts /\ Terminal(items'[id])
    BY <2>1, <2>3, LiveTyped, ClientFields DEF Terminal
  <2> QED BY <1>0, <2>1, <2>2, <2>4, LeaseSame DEF First, Valid, Untouched
<1>3. ASSUME NEW id \in Ids, Retry(id)
      PROVE  LeaseInv'
  <2>1. UNCHANGED <<pc, job>> /\ cycle' = [cycle EXCEPT ![id] = @ + 1]
    BY <1>3 DEF Retry, workers
  <2>2. \A k \in Ids \ {id} : items'[k] = items[k] /\ cycle'[k] = cycle[k]
    BY <1>3, <2>1, MutationElsewhere DEF Retry, IInv, HistoryTyped
  <2>3. cycle'[id] # 0
    BY <2>1 DEF IInv, HistoryTyped
  <2> QED BY <1>0, <2>1, <2>2, <2>3, LeaseSame DEF First, Valid, Untouched
<1>4. ASSUME NEW w \in Workers, NEW id \in Ids, Claim(w, id)
      PROVE  LeaseInv'
  <2>0. PICK e : e = Undated(Claimed(items[id], readAt[w]))
    OBVIOUS
  <2>1. /\ id \in Live(items) /\ Due(items[id], readAt[w]) /\ readAt[w] \in Nat
        /\ job[w] = NoJob /\ job'[w] # NoJob
        /\ job'[w].id = id /\ job'[w].item = e
        /\ items' = [items EXCEPT ![id] = e]
        /\ \A v \in Workers \ {w} : job'[v] = job[v] /\ pc'[v] = pc[v]
    BY <1>4, <2>0, ClaimJob
  <2>2. /\ items[id].attempts \in Nat /\ items[id] \in Deliveries
        /\ e.status = "in_flight" /\ e.attempts = items[id].attempts + 1
    BY <2>0, <2>1, LiveTyped, ClaimFields
  <2>3. items'[id] = e /\ \A k \in Ids \ {id} : items'[k] = items[k]
    BY <2>1 DEF IInv, StoreTyped, Tables
  <2>4. cycle' = cycle
    BY <1>4 DEF Claim, history
  <2>5. ASSUME NEW v \in Workers, First(v), job[v].id = id
        PROVE  /\ job[v].item.attempts < e.attempts /\ v # w
               /\ pc[v] = "sending" => ~Valid(v)
    <3>1. v # w /\ job[v].item.attempts \in Nat /\ job[v].item.leaseUntil \in Nat
      BY <2>1, <2>5, JobTyped DEF First
    <3>2. job[v].item.attempts < e.attempts
      BY <2>2, <2>5, <3>1 DEF LeaseInv
    <3>3. ASSUME pc[v] = "sending", Valid(v)
          PROVE  FALSE
      <4>1. Terminal(items[id]) \/ Untouched(v)
        BY <2>5, <3>3 DEF LeaseInv
      <4>2. CASE Terminal(items[id])
        BY <2>1, <4>2 DEF Terminal, Due
      <4>3. CASE Untouched(v)
        <5>1. items[id].leaseUntil <= readAt[w] /\ items[id].leaseUntil > Now
          BY <2>1, <2>5, <3>3, <4>3 DEF Untouched, Due, Valid
        <5>2. readAt[w] <= Now /\ items[id].leaseUntil \in Nat /\ Now \in Nat
          BY <2>1, LiveTyped, PoolAssumption, TimeAssumption DEF ReadingsPast
        <5> QED BY <2>1, <5>1, <5>2
      <4> QED BY <4>1, <4>2, <4>3
    <3> QED BY <3>1, <3>2, <3>3
  <2>6. \A v \in Workers \ {w} :
          /\ First(v)' => First(v)
          /\ Valid(v)' <=> Valid(v)
          /\ First(v) /\ job[v].id # id =>
               items'[job[v].id] = items[job[v].id] /\ (Untouched(v) => Untouched(v)')
    BY <1>0, <2>1, <2>3, <2>4 DEF First, Valid, Untouched
  <2>7. ASSUME NEW u \in Workers, First(u)'
        PROVE  /\ job'[u].item.attempts <= items'[job'[u].id].attempts
               /\ pc'[u] = "sending" /\ Valid(u)' =>
                    Terminal(items'[job'[u].id]) \/ Untouched(u)'
               /\ \A v \in Workers \ {u} : First(v)' /\ job'[v].id = job'[u].id =>
                    /\ job'[v].item.attempts # job'[u].item.attempts
                    /\ pc'[v] = "sending" /\ pc'[u] = "sending" => ~Valid(v)' \/ ~Valid(u)'
    <3>1. CASE u = w
      <4>1. job'[u].item.attempts <= items'[job'[u].id].attempts /\ Untouched(u)'
        BY <2>1, <2>2, <2>3, <3>1 DEF Untouched
      <4>2. ASSUME NEW v \in Workers \ {u}, First(v)', job'[v].id = job'[u].id
            PROVE  job'[v].item.attempts # job'[u].item.attempts
                   /\ (pc'[v] = "sending" => ~Valid(v)')
        <5>1. First(v) /\ job[v].id = id /\ job'[v] = job[v] /\ pc'[v] = pc[v]
          BY <2>1, <2>6, <3>1, <4>2
        <5>2. job[v].item.attempts \in Nat
          BY <5>1, JobTyped DEF First
        <5> QED BY <2>1, <2>2, <2>5, <2>6, <3>1, <5>1, <5>2
      <4> QED BY <4>1, <4>2
    <3>2. CASE u # w
      <4>1. /\ First(u) /\ job'[u] = job[u] /\ pc'[u] = pc[u] /\ (Valid(u)' <=> Valid(u))
            /\ job[u].item.attempts \in Nat
        BY <2>1, <2>6, <2>7, <3>2, JobTyped DEF First
      <4>2. CASE job[u].id = id
        <5>1. job[u].item.attempts < e.attempts /\ (pc[u] = "sending" => ~Valid(u))
          BY <2>5, <4>1, <4>2
        <5>2. \A v \in Workers \ {u} : First(v)' /\ job'[v].id = id =>
                job'[v].item.attempts # job[u].item.attempts
          BY <2>1, <2>2, <2>6, <4>1, <4>2, <5>1 DEF LeaseInv
        <5> QED BY <2>2, <2>3, <4>1, <4>2, <5>1, <5>2
      <4>3. CASE job[u].id # id
        <5>1. \A v \in Workers \ {u} : First(v)' /\ job'[v].id = job[u].id =>
                v # w /\ First(v) /\ job'[v] = job[v] /\ pc'[v] = pc[v]
                /\ (Valid(v)' <=> Valid(v))
          BY <2>1, <2>6, <4>3
        <5>2. items'[job[u].id] = items[job[u].id] /\ (Untouched(u) => Untouched(u)')
          BY <2>6, <3>2, <4>1, <4>3
        <5> QED BY <4>1, <5>1, <5>2 DEF LeaseInv
      <4> QED BY <4>2, <4>3
    <3> QED BY <3>1, <3>2
  <2> QED BY <2>7 DEF LeaseInv
<1>5. ASSUME NEW w \in Workers, Record(w)
      PROVE  LeaseInv'
  <2>1. /\ job[w] # NoJob /\ pc[w] = "recording" /\ pc'[w] = "releasing"
        /\ \A v \in Workers \ {w} : pc'[v] = pc[v]
        /\ job' = job /\ cycle' = cycle
    BY <1>5, RecordCases
  <2>2. CASE StillHolds(job[w])
    <3>0. PICK id, d : id = job[w].id /\ d = Outcome(job[w])
      OBVIOUS
    <3>1. /\ id \in Live(items) /\ items[id].status = "in_flight"
          /\ items[id].attempts = job[w].item.attempts
          /\ Undated(d).attempts = items[id].attempts
      BY <1>5, <2>2, <3>0, OutcomeCases
    <3>2. Persist(id, d) \/ PersistFails(id, d)
      BY <1>5, <2>2, <3>0, RecordCases
    <3>3. /\ \A k \in Ids \ {id} : items'[k] = items[k]
          /\ items'[id].attempts = items[id].attempts
      BY <3>1, <3>2, LiveTyped, MutationElsewhere
    <3>4. ~Terminal(items[id])
      BY <3>1 DEF Terminal
    <3>5. \A v \in Workers : First(v) /\ job[v].id = id /\ pc'[v] = "sending" => ~Untouched(v)
      BY <2>1, <3>0, <3>1 DEF LeaseInv, First, Untouched
    <3> QED BY <1>0, <2>1, <3>3, <3>4, <3>5, LeaseSame DEF First, Valid, Untouched
  <2>3. CASE ~StillHolds(job[w])
    <3>1. UNCHANGED items
      BY <1>5, <2>3, RecordCases DEF store
    <3> QED BY <2>1, <3>1, LeaseSame DEF First, Valid, Untouched
  <2> QED BY <2>2, <2>3
<1>6. ASSUME NEW w \in Workers, Answer(w)
      PROVE  LeaseInv'
  <2>1. PICK reply \in Replies, backoff \in Backoffs : Reply(w, reply, backoff)
    BY <1>6 DEF Answer
  <2>2. UNCHANGED <<items, cycle>>
    BY <2>1 DEF Reply, store
  <2>3. /\ job[w] # NoJob /\ job'[w].id = job[w].id /\ job'[w].item = job[w].item
        /\ pc[w] = "sending" /\ pc'[w] = "recording"
        /\ \A v \in Workers \ {w} : job'[v] = job[v] /\ pc'[v] = pc[v]
    BY <2>1, ReplyJob
  <2>4. \A v \in Workers : job'[v] # NoJob => job[v] # NoJob /\ job'[v].id = job[v].id
                             /\ job'[v].item = job[v].item
    BY <2>3
  <2> QED BY <2>2, <2>3, <2>4, LeaseSame DEF First, Valid, Untouched
<1>7. ASSUME NEW w \in Workers, Wake(w) \/ Quit(w) \/ Release(w) \/ ClaimNothing(w)
      PROVE  LeaseInv'
  <2>1. UNCHANGED cycle
    BY <1>7 DEF Wake, Quit, Release, ClaimNothing, history
  <2>2. UNCHANGED items
    BY <1>7 DEF Wake, Quit, Release, ClaimNothing, PersistFails, store
  <2>3. \A v \in Workers : job'[v] # NoJob =>
          job'[v] = job[v] /\ (pc'[v] = "sending" => pc[v] = "sending")
    BY <1>7 DEF Wake, Quit, Release, ClaimNothing, IInv, WorkersTyped
  <2> QED BY <2>1, <2>2, <2>3, LeaseSame DEF First, Valid, Untouched
<1>8. CASE Gone \/ Start
  <2>1. \A w \in Workers : job'[w] = NoJob
    <3>1. CASE Gone
      BY <3>1 DEF Gone
    <3>2. CASE Start
      BY <3>2 DEF Start, workers, Known, IInv, WorkersTyped, Working
    <3> QED BY <1>8, <3>1, <3>2
  <2> QED BY <2>1 DEF LeaseInv, First
<1>9. CASE Repair \/ Stop \/ UNCHANGED vars
  <2>1. UNCHANGED <<items, pc, job, cycle>>
    BY <1>9 DEF Repair, Stop, vars, workers, history, store
  <2> QED BY <2>1, LeaseSame DEF First, Valid, Untouched
<1>10. CASE Tick
  <2>1. UNCHANGED <<pc, cycle>>
    BY <1>10 DEF Tick, history
  <2>2. \A t \in Nat : Older(t) <= t /\ Older(t) \in Nat
    BY DEF Older
  <2>3. ASSUME NEW v \in Workers, job'[v] # NoJob
        PROVE  /\ job[v] # NoJob /\ job'[v].id = job[v].id
               /\ job'[v].item.attempts = job[v].item.attempts
               /\ job'[v].item.leaseUntil = Older(job[v].item.leaseUntil)
               /\ Valid(v)' => Valid(v)
    <3>1. job[v] # NoJob
      BY <1>10, <2>3 DEF Tick
    <3>2. /\ job'[v].id = job[v].id /\ job'[v].item.attempts = job[v].item.attempts
          /\ job'[v].item.leaseUntil = Older(job[v].item.leaseUntil)
      BY <1>10, <3>1, TickJob, JobTyped, AgedFields
    <3>3. job[v].item.leaseUntil \in Nat /\ Now \in Nat
      BY <3>1, JobTyped, PoolAssumption, TimeAssumption
    <3> QED BY <2>2, <3>1, <3>2, <3>3 DEF Valid
  <2>4. ASSUME NEW k \in Live(items)
        PROVE  /\ items'[k].attempts = items[k].attempts
               /\ items'[k].status = items[k].status
               /\ items'[k].leaseUntil = Older(items[k].leaseUntil)
    BY <1>10, TickItems, LiveTyped, AgedFields
  <2> QED BY <1>0, <2>1, <2>3, <2>4, LeaseSame DEF First, Untouched, Terminal
<1> QED
  BY <1>1, <1>2, <1>3, <1>4, <1>5, <1>6, <1>7, <1>8, <1>9, <1>10
  DEF Next, Client, Worker, ClaimStep, Process, Stopped, Crash

-----------------------------------------------------------------------------
(* Attempts.                                                               *)

(* AttemptsBounded, with what a claim needs.  A delivery may be claimed    *)
(* once more when there is Room: it is short of its limit and the faults   *)
(* so far.  A delivery in flight without Room still has its worker, whose  *)
(* lease is not over and who finds a store that accepts its outcome: it    *)
(* takes one more fault before another may claim it.                       *)
Patient(d) == TargetOf(d.content) \notin Hung
Room(d) == d.attempts + faultsLeft < LimitOf(d.content) + FaultBound
Within(d) == d.attempts + faultsLeft <= LimitOf(d.content) + FaultBound
Short(d) == d.status = "pending" => d.attempts < LimitOf(d.content)

Attended(id) ==
  /\ healthy
  /\ \E w \in Workers :
       Working(w) /\ job[w] # NoJob /\ job[w].id = id /\ Untouched(w) /\ Valid(w)

Counted(id) ==
  LET d == items[id] IN
  Patient(d) => /\ Within(d) /\ Short(d)
                /\ d.status = "in_flight" => Room(d) \/ Attended(id)

CountInv ==
  /\ faultsLeft <= FaultBound
  /\ \A id \in Live(items) : Counted(id)
  /\ \A r \in inDoubt : Patient(r.item) => Room(r.item) /\ Short(r.item)

(* Limits and counts are numbers.                                          *)
LEMMA CountTyped ==
  ASSUME IInv, NEW d \in Deliveries
  PROVE  /\ d.attempts \in Nat /\ LimitOf(d.content) \in Nat \ {0}
         /\ faultsLeft \in Nat /\ FaultBound \in Nat
BY PoolAssumption, WorkersAssumption DEF IInv, StoreTyped, Deliveries

(* A fault makes room, for whatever stayed within its bound.               *)
LEMMA FaultMakesRoom ==
  ASSUME IInv, faultsLeft' = faultsLeft - 1, NEW d \in Deliveries, NEW e \in Deliveries,
         Within(d), e.attempts = d.attempts, e.content = d.content
  PROVE  e.attempts + faultsLeft' < LimitOf(e.content) + FaultBound
BY CountTyped DEF Within

(* After a fault that leaves the deliveries' counts as they were.          *)
LEMMA CountAfterFault ==
  ASSUME IInv, CountInv, faultsLeft > 0, faultsLeft' = faultsLeft - 1,
         IInv',
         \A id \in Live(items)' :
           /\ id \in Live(items) /\ items'[id].attempts = items[id].attempts
           /\ items'[id].content = items[id].content /\ items'[id].status = items[id].status,
         \A r \in inDoubt' : Patient(r.item) => Room(r.item)' /\ Short(r.item)
  PROVE  CountInv'
<1>1. faultsLeft \in Nat /\ FaultBound \in Nat
  BY WorkersAssumption DEF IInv, StoreTyped
<1>2. faultsLeft' <= FaultBound
  BY <1>1 DEF CountInv
<1>3. ASSUME NEW id \in Live(items)'
      PROVE  Counted(id)'
  <2>1. /\ items[id] \in Deliveries /\ items'[id] \in Deliveries
        /\ items'[id].attempts = items[id].attempts
        /\ items'[id].content = items[id].content /\ items'[id].status = items[id].status
    BY LiveTyped DEF IInv, StoreTyped, Live, Tables
  <2>2. Patient(items[id]) => Within(items[id]) /\ Short(items[id])
    BY <1>3 DEF CountInv, Counted
  <2>3. Patient(items'[id]) => Room(items[id])'
    BY <2>1, <2>2, FaultMakesRoom DEF Room, Patient
  <2>4. /\ items'[id].attempts \in Nat /\ LimitOf(items'[id].content) \in Nat
        /\ faultsLeft' \in Nat
    BY <2>1, PoolAssumption DEF Deliveries, IInv, StoreTyped
  <2>5. Patient(items'[id]) => Within(items[id])'
    BY <1>1, <2>3, <2>4 DEF Room, Within
  <2>6. Patient(items'[id]) => Short(items[id])'
    BY <2>1, <2>2 DEF Short, Patient
  <2> QED BY <2>3, <2>5, <2>6 DEF Counted, Patient
<1>4. \A r \in inDoubt' : Patient(r.item)' => Room(r.item)' /\ Short(r.item)'
  BY DEF Patient, Short
<1> QED BY <1>2, <1>3, <1>4 DEF CountInv

(* Without a fault: each delivery keeps its counts, and its room or its    *)
(* attendant, or is counted by its new state.                              *)
LEMMA CountSame ==
  ASSUME IInv, CountInv, faultsLeft' = faultsLeft,
         \A id \in Live(items)' :
           \/ /\ id \in Live(items) /\ items'[id].attempts = items[id].attempts
              /\ items'[id].content = items[id].content
              /\ items'[id].status = items[id].status
              /\ Patient(items[id]) /\ Attended(id) /\ items[id].status = "in_flight"
                   => Room(items[id]) \/ Attended(id)'
           \/ Counted(id)',
         \A r \in inDoubt' : Patient(r.item) => Room(r.item) /\ Short(r.item)
  PROVE  CountInv'
<1>1. ASSUME NEW id \in Live(items)', id \in Live(items),
             items'[id].attempts = items[id].attempts,
             items'[id].content = items[id].content, items'[id].status = items[id].status,
             Patient(items[id]) /\ Attended(id) /\ items[id].status = "in_flight"
               => Room(items[id]) \/ Attended(id)'
      PROVE  Counted(id)'
  <2>1. Counted(id)
    BY <1>1 DEF CountInv
  <2> QED BY <1>1, <2>1 DEF Counted, Patient, Within, Short, Room
<1>2. \A r \in inDoubt' : Patient(r.item)' => Room(r.item)' /\ Short(r.item)'
  BY DEF Patient, Room, Short
<1> QED BY <1>1, <1>2 DEF CountInv

(* Attendants stay while items and workers' places stay what they were.    *)
LEMMA AttendedSame ==
  ASSUME NEW id, Attended(id), healthy', items'[id] = items[id],
         \A w \in Workers : Working(w) /\ job[w] # NoJob /\ job[w].id = id =>
           /\ pc'[w] \in {"sending", "recording"} /\ job'[w] # NoJob
           /\ job'[w].id = job[w].id /\ job'[w].item = job[w].item
  PROVE  Attended(id)'
BY DEF Attended, Untouched, Valid, Working

(* A delivery nobody attends to has room, if it is in flight.              *)
LEMMA Unattended ==
  ASSUME CountInv, NEW id \in Live(items), Patient(items[id]),
         items[id].status = "in_flight", ~Attended(id)
  PROVE  Room(items[id])
BY DEF CountInv, Counted

(* What is due may be claimed once more.                                   *)
LEMMA DueFits ==
  ASSUME IInv, CountInv, ReadingsPast, NEW w \in Workers, NEW id \in Live(items),
         Due(items[id], readAt[w]), Patient(items[id])
  PROVE  items[id].attempts + 1 + faultsLeft <= LimitOf(items[id].content) + FaultBound
<1> DEFINE d == items[id]
<1>0. /\ d.attempts \in Nat /\ LimitOf(d.content) \in Nat \ {0} /\ d.leaseUntil \in Nat
      /\ faultsLeft \in Nat /\ FaultBound \in Nat /\ faultsLeft <= FaultBound
  BY LiveTyped, CountTyped DEF CountInv
<1>1. CASE d.status = "pending"
  <2>1. d.attempts < LimitOf(d.content)
    BY <1>1 DEF CountInv, Counted, Short
  <2> QED BY <1>0, <2>1
<1>2. CASE d.status = "in_flight" /\ d.leaseUntil <= readAt[w]
  <2>1. readAt[w] \in Nat /\ readAt[w] <= Now /\ Now \in Nat
    BY PoolAssumption, TimeAssumption DEF ReadingsPast, IInv, WorkersTyped
  <2>2. ~(d.leaseUntil > Now)
    BY <1>0, <1>2, <2>1
  <2>3. ~Attended(id)
    BY <2>2 DEF Attended, Untouched, Valid
  <2>4. Room(d)
    BY <1>2, <2>3, Unattended
  <2> QED BY <1>0, <2>4 DEF Room
<1> QED BY <1>1, <1>2 DEF Due

(* A client's request leaves every other delivery alone.                   *)
LEMMA CountClient ==
  ASSUME IInv, CountInv, NEW id \in Ids, NEW e \in Deliveries, healthy, healthy',
         items' = [items EXCEPT ![id] = e], UNCHANGED <<inDoubt, faultsLeft, pc, job>>,
         e.status # "in_flight", Patient(e) => Within(e) /\ Short(e)
  PROVE  CountInv'
<1>1. items \in [Ids -> Deliveries \union {Absent}]
  BY DEF IInv, StoreTyped, Tables
<1>2. Counted(id)'
  BY <1>1 DEF Counted, Patient, Within, Short
<1>3. ASSUME NEW k \in Live(items)', k # id
      PROVE  k \in Live(items) /\ items'[k] = items[k] /\ (Attended(k) => Attended(k)')
  <2>1. k \in Live(items) /\ items'[k] = items[k]
    BY <1>1, <1>3 DEF Live
  <2>2. Attended(k) => Attended(k)'
    BY <2>1, AttendedSame DEF Working
  <2> QED BY <2>1, <2>2
<1>4. \A r \in inDoubt' : Patient(r.item) => Room(r.item) /\ Short(r.item)
  BY DEF CountInv
<1> QED BY <1>2, <1>3, <1>4, CountSame

(* Steps that write no delivery and whose workers' jobs stay.              *)
LEMMA CountIdle ==
  ASSUME IInv, CountInv, UNCHANGED <<items, healthy, inDoubt, faultsLeft>>,
         \A w \in Workers : Working(w) /\ job[w] # NoJob =>
           \/ /\ pc'[w] \in {"sending", "recording"} /\ job'[w] # NoJob
              /\ job'[w].id = job[w].id /\ job'[w].item = job[w].item
           \/ ~healthy \/ ~Untouched(w)
  PROVE  CountInv'
<1>1. \A id \in Live(items)' : Attended(id) => Attended(id)'
  BY DEF Attended, Untouched, Valid, Working, Live
<1>2. \A id \in Live(items)' : id \in Live(items)
  BY DEF Live
<1>3. \A r \in inDoubt' : Patient(r.item) => Room(r.item) /\ Short(r.item)
  BY DEF CountInv
<1> QED BY <1>1, <1>2, <1>3, CountSame

(* A claim: one attempt more, with a worker to attend to it.               *)
LEMMA CountClaim ==
  ASSUME IInv, CountInv, ReadingsPast, LeaseDuration >= Now,
         NEW w \in Workers, NEW id \in Ids, Claim(w, id)
  PROVE  CountInv'
<1>0. PICK e : e = Undated(Claimed(items[id], readAt[w]))
  OBVIOUS
<1>1. /\ id \in Live(items) /\ Due(items[id], readAt[w]) /\ readAt[w] \in Nat
      /\ job[w] = NoJob /\ job'[w] # NoJob /\ job'[w].id = id /\ job'[w].item = e
      /\ items' = [items EXCEPT ![id] = e]
      /\ healthy /\ healthy' /\ inDoubt' = inDoubt /\ faultsLeft' = faultsLeft
      /\ pc[w] = "claiming" /\ pc'[w] = "sending"
      /\ \A v \in Workers \ {w} : job'[v] = job[v] /\ pc'[v] = pc[v]
  BY <1>0, ClaimJob
<1>2. /\ items[id] \in Deliveries /\ items[id].attempts \in Nat
      /\ e.content = items[id].content /\ e.status = "in_flight"
      /\ e.attempts = items[id].attempts + 1 /\ e.leaseUntil = readAt[w] + LeaseDuration
  BY <1>0, <1>1, LiveTyped, ClaimFields
<1>3. items'[id] = e /\ \A k \in Ids \ {id} : items'[k] = items[k]
  BY <1>1 DEF IInv, StoreTyped, Tables
<1>4. e.leaseUntil > Now
  <2>1. readAt[w] >= 1 /\ Now \in Nat /\ LeaseDuration \in Nat
    BY PoolAssumption, TimeAssumption DEF ReadingsPast
  <2> QED BY <1>1, <1>2, <2>1
<1>5. Attended(id)'
  BY <1>1, <1>2, <1>3, <1>4 DEF Attended, Untouched, Valid, Working
<1>6. Patient(e) => Within(e)'
  <2>1. Patient(e) => e.attempts + faultsLeft <= LimitOf(e.content) + FaultBound
    BY <1>1, <1>2, DueFits DEF Patient
  <2> QED BY <1>1, <2>1 DEF Within
<1>7. Counted(id)'
  BY <1>1, <1>2, <1>3, <1>5, <1>6 DEF Counted, Patient, Within, Short
<1>8. ASSUME NEW k \in Live(items)', k # id
      PROVE  k \in Live(items) /\ items'[k] = items[k] /\ (Attended(k) => Attended(k)')
  <2>1. k \in Live(items) /\ items'[k] = items[k]
    BY <1>3, <1>8 DEF Live
  <2>2. \A v \in Workers : Working(v) => v # w
    BY <1>1 DEF Working
  <2>3. Attended(k) => Attended(k)'
    BY <1>1, <2>1, <2>2, AttendedSame DEF Working
  <2> QED BY <2>1, <2>3
<1>9. \A r \in inDoubt' : Patient(r.item) => Room(r.item) /\ Short(r.item)
  BY <1>1 DEF CountInv
<1> QED BY <1>1, <1>7, <1>8, <1>9, CountSame

(* A claim that fails, and leaves its attempt in doubt if it was written.  *)
LEMMA CountClaimNothing ==
  ASSUME IInv, IInv', CountInv, ReadingsPast, NEW w \in Workers, ClaimNothing(w)
  PROVE  CountInv'
<1>1. job' = job /\ pc[w] = "claiming" /\ \A v \in Workers \ {w} : pc'[v] = pc[v]
  BY DEF ClaimNothing, IInv, WorkersTyped
<1>2. CASE UNCHANGED <<items, healthy, inDoubt, faultsLeft>>
  BY <1>1, <1>2, CountIdle DEF Working
<1>3. ASSUME NEW id \in Claimable(w), PersistFails(id, Claimed(items[id], readAt[w]))
      PROVE  CountInv'
  <2>0. PICK d, e : d = Claimed(items[id], readAt[w]) /\ e = Undated(d)
    OBVIOUS
  <2>1. id \in Live(items) /\ Due(items[id], readAt[w]) /\ readAt[w] \in Nat
    BY DEF Claimable, IInv, WorkersTyped
  <2>2. /\ items[id] \in Deliveries /\ id \in Ids /\ items[id].attempts \in Nat
        /\ e.content = items[id].content /\ e.status = "in_flight"
        /\ e.attempts = items[id].attempts + 1
    BY <2>0, <2>1, LiveTyped, ClaimFields
  <2>3. PersistFails(id, d)
    BY <1>3, <2>0
  <2>4. CASE ~healthy
    <3>1. UNCHANGED <<items, inDoubt, faultsLeft>> /\ ~healthy'
      BY <2>2, <2>3, <2>4, MutationCases
    <3>2. healthy' = healthy
      BY <2>3, <2>4, Zenon DEF PersistFails
    <3> QED BY <1>2, <3>1, <3>2
  <2>5. CASE healthy
    <3>1. /\ UNCHANGED items /\ inDoubt' = {[id |-> id, item |-> e]}
          /\ faultsLeft > 0 /\ faultsLeft' = faultsLeft - 1
      BY <2>0, <2>3, <2>5, Zenon DEF PersistFails
    <3>2. /\ faultsLeft \in Nat /\ FaultBound \in Nat
          /\ LimitOf(e.content) \in Nat
      BY <2>2, CountTyped
    <3>3. Patient(e) => e.attempts + faultsLeft <= LimitOf(e.content) + FaultBound
      BY <2>1, <2>2, DueFits DEF Patient
    <3>4. Patient(e) => Room(e)' /\ Short(e)
      BY <2>2, <3>1, <3>2, <3>3 DEF Room, Short
    <3> QED BY <3>1, <3>4, CountAfterFault DEF Live
  <2> QED BY <2>4, <2>5
<1> QED BY <1>2, <1>3 DEF ClaimNothing, store

(* An outcome: the worker leaves, and what it attended to is out of flight,*)
(* or the failure to write it makes room, or the store had failed before.  *)
LEMMA CountRecord ==
  ASSUME IInv, IInv', Known, CountInv, NEW w \in Workers, Record(w)
  PROVE  CountInv'
<1>1. /\ job[w] # NoJob /\ pc[w] = "recording" /\ pc'[w] = "releasing"
      /\ \A v \in Workers \ {w} : pc'[v] = pc[v]
      /\ job' = job
  BY RecordCases
<1>2. CASE ~StillHolds(job[w])
  <2>1. UNCHANGED <<items, healthy, inDoubt, faultsLeft>>
    BY <1>2, RecordCases DEF store
  <2>2. ~Untouched(w)
    BY <1>1, <1>2 DEF Untouched, StillHolds, HoldsLease, Known, About
  <2> QED BY <1>1, <2>1, <2>2, CountIdle DEF Working
<1>3. CASE StillHolds(job[w])
  <2>0. PICK id, d, e : id = job[w].id /\ d = Outcome(job[w]) /\ e = Undated(d)
    OBVIOUS
  <2>1. /\ id \in Live(items) /\ items[id].status = "in_flight" /\ e \in Deliveries
        /\ e.content = items[id].content /\ e.attempts = items[id].attempts
        /\ e.status # "in_flight"
        /\ e.status = "pending" => ~(e.attempts >= LimitOf(e.content))
    BY <1>3, <2>0, OutcomeCases
  <2>2. Persist(id, d) \/ PersistFails(id, d)
    BY <1>3, <2>0, RecordCases
  <2>3. id \in Ids /\ items[id] \in Deliveries
    BY <2>1, LiveTyped
  <2>4. Short(e)
    BY <2>1, CountTyped DEF Short
  <2>5. Patient(e) => Within(e) /\ Within(items[id])
    BY <2>1 DEF CountInv, Counted, Patient, Within
  <2>6. CASE /\ healthy /\ healthy' /\ items' = [items EXCEPT ![id] = e]
             /\ UNCHANGED <<inDoubt, faultsLeft>>
    <3>1. items \in [Ids -> Deliveries \union {Absent}]
      BY DEF IInv, StoreTyped, Tables
    <3>2. Counted(id)'
      BY <2>1, <2>3, <2>4, <2>5, <2>6, <3>1 DEF Counted, Patient, Within, Short
    <3>3. ASSUME NEW k \in Live(items)', k # id
          PROVE  k \in Live(items) /\ items'[k] = items[k] /\ (Attended(k) => Attended(k)')
      <4>1. k \in Live(items) /\ items'[k] = items[k]
        BY <2>6, <3>1, <3>3 DEF Live
      <4>2. \A v \in Workers : job[v].id = k => v # w
        BY <2>0, <3>3
      <4>3. Attended(k) => Attended(k)'
        BY <1>1, <2>6, <4>1, <4>2, AttendedSame DEF Working
      <4> QED BY <4>1, <4>3
    <3>4. \A r \in inDoubt' : Patient(r.item) => Room(r.item) /\ Short(r.item)
      BY <2>6 DEF CountInv
    <3> QED BY <2>6, <3>2, <3>3, <3>4, CountSame
  <2>7. CASE ~healthy /\ UNCHANGED <<items, inDoubt, faultsLeft>>
    <3>1. healthy' = healthy
      BY <2>2, <2>7, Zenon DEF Persist, PersistFails
    <3> QED BY <2>7, <3>1, CountIdle
  <2>8. CASE /\ UNCHANGED items /\ inDoubt' = {[id |-> id, item |-> e]}
             /\ faultsLeft > 0 /\ faultsLeft' = faultsLeft - 1
    <3>1. Patient(e) => Room(e)' /\ Short(e)
      BY <2>1, <2>3, <2>4, <2>5, <2>8, FaultMakesRoom DEF Room
    <3> QED BY <2>8, <3>1, CountAfterFault DEF Live
  <2> QED BY <2>0, <2>2, <2>3, <2>6, <2>7, <2>8, MutationCases
<1> QED BY <1>2, <1>3

(* Time passes: a lease that is worked under comes to its end only as a    *)
(* fault, at a target that answers.                                        *)
LEMMA CountTick ==
  ASSUME IInv, IInv', Known, CountInv, Tick
  PROVE  CountInv'
<1>1. ASSUME NEW k \in Live(items)'
      PROVE  /\ k \in Live(items) /\ items'[k].attempts = items[k].attempts
             /\ items'[k].content = items[k].content /\ items'[k].status = items[k].status
             /\ items'[k].leaseUntil = Older(items[k].leaseUntil)
  BY TickItems, LiveTyped, AgedFields
<1>2. ASSUME NEW r \in inDoubt'
      PROVE  \E q \in inDoubt : /\ r.item.attempts = q.item.attempts
                                /\ r.item.content = q.item.content
                                /\ r.item.status = q.item.status
                                /\ q.item \in Deliveries
  <2>1. PICK q \in inDoubt : r = [q EXCEPT !.item = Aged(@)]
    BY DEF Tick
  <2>2. q \in [id : Ids, item : Deliveries]
    BY DEF IInv, StoreTyped
  <2>3. r.item = Aged(q.item)
    BY <2>1, <2>2
  <2> QED BY <2>2, <2>3, AgedFields
<1>3. \A r \in inDoubt' : Patient(r.item) => Room(r.item) /\ Short(r.item)
  BY <1>2 DEF CountInv, Patient, Room, Short
<1>4. healthy' = healthy /\ pc' = pc
  BY Zenon DEF Tick
<1>5. CASE (\A w \in Workers : ~Brink(w)) /\ faultsLeft' = faultsLeft
  <2>1. ASSUME NEW k \in Live(items)', Patient(items[k]), Attended(k)
        PROVE  Attended(k)'
    <3>1. PICK w \in Workers :
            Working(w) /\ job[w] # NoJob /\ job[w].id = k /\ Untouched(w) /\ Valid(w)
      BY <2>1 DEF Attended
    <3>2. Origin(w) \notin Hung
      BY <2>1, <3>1 DEF Known, About, Patient, Origin
    <3>3. job[w].item.leaseUntil # Now + 1
      BY <1>5, <3>1, <3>2 DEF Brink
    <3>4. job[w].item.leaseUntil \in Nat /\ Now \in Nat
      BY <3>1, JobTyped, PoolAssumption, TimeAssumption
    <3>5. Older(job[w].item.leaseUntil) > Now
      BY <3>1, <3>3, <3>4 DEF Valid, Older
    <3>6. /\ job'[w] # NoJob /\ job'[w].id = job[w].id
          /\ job'[w].item.attempts = job[w].item.attempts
          /\ job'[w].item.leaseUntil = Older(job[w].item.leaseUntil)
      BY <3>1, TickJob, JobTyped, AgedFields
    <3>7. Untouched(w)' /\ Valid(w)' /\ Working(w)'
      BY <1>1, <1>4, <3>1, <3>5, <3>6 DEF Untouched, Valid, Working
    <3>8. healthy'
      BY <1>4, <2>1, Zenon DEF Attended
    <3> QED BY <3>1, <3>6, <3>7, <3>8, Zenon DEF Attended
  <2> QED BY <1>1, <1>3, <1>5, <2>1, CountSame
<1>6. CASE faultsLeft > 0 /\ faultsLeft' = faultsLeft - 1
  <2>1. \A r \in inDoubt' : Patient(r.item) => Room(r.item)' /\ Short(r.item)
    <3>1. ASSUME NEW r \in inDoubt', Room(r.item)
          PROVE  Room(r.item)'
      <4>1. /\ r.item.attempts \in Nat /\ LimitOf(r.item.content) \in Nat
            /\ faultsLeft \in Nat /\ FaultBound \in Nat
        BY <1>2, CountTyped
      <4> QED BY <1>6, <3>1, <4>1 DEF Room
    <3> QED BY <1>3, <3>1
  <2> QED BY <1>1, <1>6, <2>1, CountAfterFault
<1> QED
  <2>1. \/ (\A w \in Workers : ~Brink(w)) /\ faultsLeft' = faultsLeft
        \/ faultsLeft > 0 /\ faultsLeft' = faultsLeft - 1
    BY Zenon DEF Tick
  <2> QED BY <1>5, <1>6, <2>1

(* A restart may bring back what was in doubt, to which nobody attends.    *)
LEMMA CountStart ==
  ASSUME IInv, Known, CountInv, Start
  PROVE  CountInv'
<1>0. items \in [Ids -> Deliveries \union {Absent}]
  BY DEF IInv, StoreTyped, Tables
<1>1. /\ inDoubt' = {} /\ faultsLeft' = faultsLeft
      /\ UNCHANGED items \/ \E r \in inDoubt : items' = [items EXCEPT ![r.id] = r.item]
  BY DEF Start
<1>2. \A id : ~Attended(id)
  BY DEF Start, Known, Attended, Working
<1>3. ASSUME NEW r \in inDoubt, items' = [items EXCEPT ![r.id] = r.item]
      PROVE  \A k \in Live(items)' :
               (k \in Live(items) /\ items'[k] = items[k]) \/ Counted(k)'
  <2>1. r.id \in Ids /\ r.item \in Deliveries
    BY DEF IInv, StoreTyped
  <2>2. Patient(r.item) => Room(r.item)' /\ Short(r.item)'
    BY <1>1 DEF CountInv, Patient, Room, Short
  <2>3. Room(r.item)' => Within(r.item)'
    <3>1. r.item.attempts \in Nat /\ LimitOf(r.item.content) \in Nat
          /\ faultsLeft' \in Nat /\ FaultBound \in Nat
      BY <1>1, <2>1, CountTyped
    <3> QED BY <3>1 DEF Room, Within
  <2>4. items'[r.id] = r.item
    BY <1>0, <1>3, <2>1
  <2>5. Counted(r.id)'
    BY <2>2, <2>3, <2>4 DEF Counted, Patient, Room, Within, Short
  <2>6. \A k \in Live(items)' : k # r.id => k \in Live(items) /\ items'[k] = items[k]
    BY <1>0, <1>3, <2>1 DEF Live
  <2> QED BY <2>5, <2>6
<1>4. \A k \in Live(items)' :
        (k \in Live(items) /\ items'[k] = items[k]) \/ Counted(k)'
  BY <1>1, <1>3 DEF Live
<1>5. \A r \in inDoubt' : Patient(r.item) => Room(r.item) /\ Short(r.item)
  BY <1>1
<1> QED BY <1>1, <1>2, <1>4, <1>5, CountSame

(* Every step keeps the count of claims and faults.                        *)
LEMMA CountStep ==
  ASSUME IInv, IInv', Known, CountInv, ReadingsPast, LeaseDuration >= Now, [Next]_vars
  PROVE  CountInv'
<1>0. Now \in Times
  BY PoolAssumption
<1>1. ASSUME NEW id \in Ids, Cancel(id) \/ Retry(id) \/ \E c \in Contents : Create(id, c)
      PROVE  CountInv'
  <2>1. UNCHANGED <<pc, job>>
    BY <1>1 DEF Cancel, Retry, Create, workers
  <2>2. PICK d, e : /\ Persist(id, d) /\ e = Undated(d) /\ e \in Deliveries
                    /\ e.status # "in_flight"
                    /\ \/ e.status = "pending" /\ e.attempts = 0
                       \/ /\ e.status = "canceled" /\ id \in Live(items)
                          /\ e.attempts = items[id].attempts
                          /\ e.content = items[id].content
    <3>1. ASSUME NEW c \in Contents, Create(id, c)
          PROVE  LET d == New(NoKey, c, Now)
                     e == Undated(d)
                 IN  Persist(id, d) /\ e \in Deliveries /\ e.status = "pending" /\ e.attempts = 0
      BY <1>0, <3>1, NewFields, TransitionsTyped, UndatedTyped DEF Create
    <3>2. CASE Cancel(id)
      <4>1. id \in Live(items) /\ Persist(id, Canceled(items[id], Now))
        BY <3>2 DEF Cancel
      <4>2. items[id] \in Deliveries
        BY <4>1, LiveTyped
      <4>3. Undated(Canceled(items[id], Now)) \in Deliveries
        BY <1>0, <4>2, TransitionsTyped, UndatedTyped
      <4> QED BY <4>1, <4>2, <4>3, ClientFields
    <3>3. CASE Retry(id)
      <4>1. id \in Live(items) /\ Persist(id, Retried(items[id], Now)) /\ Retryable(items[id])
        BY <3>3 DEF Retry
      <4>2. items[id] \in Deliveries
        BY <4>1, LiveTyped
      <4>3. Undated(Retried(items[id], Now)) \in Deliveries
        BY <1>0, <4>1, <4>2, TransitionsTyped, UndatedTyped
      <4> QED BY <4>1, <4>2, <4>3, ClientFields
    <3> QED BY <1>1, <3>1, <3>2, <3>3
  <2>3. /\ healthy /\ healthy' /\ items' = [items EXCEPT ![id] = e]
        /\ UNCHANGED <<inDoubt, faultsLeft>>
    BY <2>2, Zenon DEF Persist
  <2>4. Patient(e) => Within(e) /\ Short(e)
    <3>1. /\ e.attempts \in Nat /\ LimitOf(e.content) \in Nat \ {0}
          /\ faultsLeft \in Nat /\ FaultBound \in Nat /\ faultsLeft <= FaultBound
      BY <2>2, CountTyped DEF CountInv
    <3> QED BY <2>2, <3>1 DEF CountInv, Counted, Within, Short, Patient
  <2> QED BY <2>1, <2>2, <2>3, <2>4, CountClient
<1>2. ASSUME NEW w \in Workers, Answer(w)
      PROVE  CountInv'
  <2>1. PICK reply \in Replies, backoff \in Backoffs : Reply(w, reply, backoff)
    BY <1>2 DEF Answer
  <2>2. UNCHANGED <<items, healthy, inDoubt, faultsLeft>>
    BY <2>1 DEF Reply, store
  <2>3. /\ job'[w] # NoJob /\ job'[w].id = job[w].id /\ job'[w].item = job[w].item
        /\ pc'[w] = "recording"
        /\ \A v \in Workers \ {w} : job'[v] = job[v] /\ pc'[v] = pc[v]
    BY <2>1, ReplyJob
  <2> QED BY <2>2, <2>3, CountIdle DEF Working
<1>3. ASSUME NEW w \in Workers, Wake(w) \/ Quit(w) \/ Release(w)
      PROVE  CountInv'
  <2>1. UNCHANGED <<items, healthy, inDoubt, faultsLeft>>
    BY <1>3 DEF Wake, Quit, Release, store
  <2>2. ASSUME NEW v \in Workers, Working(v)
        PROVE  pc'[v] = pc[v] /\ job'[v] = job[v]
    BY <1>3, <2>2 DEF Wake, Quit, Release, IInv, WorkersTyped, Working
  <2> QED BY <2>1, <2>2, CountIdle DEF Working
<1>4. CASE Stopped
  <2>1. UNCHANGED <<items, healthy, inDoubt, faultsLeft>>
    BY <1>4 DEF Stopped, Gone, store
  <2>2. \A v \in Workers : ~Working(v)
    BY <1>4 DEF Stopped, Working
  <2> QED BY <2>1, <2>2, CountIdle
<1>5. CASE Crash \/ Stop
  <2>1. /\ UNCHANGED <<items, inDoubt>>
        /\ faultsLeft > 0 /\ faultsLeft' = faultsLeft - 1
    BY <1>5 DEF Crash, Stop, Gone, store
  <2>2. \A r \in inDoubt' : Patient(r.item) => Room(r.item)' /\ Short(r.item)
    <3>1. ASSUME NEW r \in inDoubt, Room(r.item)
          PROVE  Room(r.item)'
      <4>1. r.item \in Deliveries
        BY DEF IInv, StoreTyped
      <4>2. /\ r.item.attempts \in Nat /\ LimitOf(r.item.content) \in Nat
            /\ faultsLeft \in Nat /\ FaultBound \in Nat
        BY <4>1, CountTyped
      <4> QED BY <2>1, <3>1, <4>2 DEF Room
    <3> QED BY <2>1, <3>1 DEF CountInv
  <2> QED BY <2>1, <2>2, CountAfterFault DEF Live
<1>6. CASE Repair
  <2>1. UNCHANGED <<items, faultsLeft>> /\ inDoubt' = {}
    BY <1>6 DEF Repair
  <2>2. \A id : ~Attended(id)
    BY <1>6, Zenon DEF Repair, Attended
  <2>3. \A id \in Live(items)' : id \in Live(items) /\ items'[id] = items[id]
    BY <2>1 DEF Live
  <2>4. \A r \in inDoubt' : Patient(r.item) => Room(r.item) /\ Short(r.item)
    BY <2>1
  <2> QED BY <2>1, <2>2, <2>3, <2>4, CountSame
<1>7. CASE UNCHANGED vars
  BY <1>7, CountIdle DEF vars, workers, store, Working
<1> QED
  BY <1>1, <1>2, <1>3, <1>4, <1>5, <1>6, <1>7,
     CountClaim, CountClaimNothing, CountRecord, CountTick, CountStart
  DEF Next, Client, Worker, ClaimStep, Process

-----------------------------------------------------------------------------
(* The invariants of this module, for every behaviour.                     *)
SafetyInv == Known /\ CauseInv /\ ReadingsPast /\ LeaseInv

(* The invariants hold at first.                                           *)
LEMMA SafetyStart ==
  ASSUME Init
  PROVE  SafetyInv /\ CountInv
<1>1. Live(items) = {} /\ inDoubt = {} /\ \A w \in Workers : job[w] = NoJob
  BY DEF Init, Live, EmptyTable
<1>2. Known /\ CauseInv
  BY <1>1 DEF Init, Known, CauseInv
<1>3. ReadingsPast
  BY PoolAssumption, TimeAssumption DEF Init, ReadingsPast
<1>4. LeaseInv
  BY <1>1 DEF LeaseInv, First
<1>5. CountInv
  BY <1>1, WorkersAssumption DEF Init, CountInv
<1> QED BY <1>2, <1>3, <1>4, <1>5 DEF SafetyInv

(* They hold for ever, but for the count, which needs its assumption.      *)
LEMMA SafetyHolds == Spec => []SafetyInv
<1>1. IInv /\ SafetyInv /\ [Next]_vars => SafetyInv'
  BY KnownStep, CauseStep, ReadingsStep, LeaseStep DEF SafetyInv
<1>2. Init => SafetyInv
  BY SafetyStart
<1> QED BY <1>1, <1>2, InvariantHolds, PTL DEF Spec

(* Succeed and Fail are called for a reason that holds for the delivery    *)
(* they change, however late, and through failed appends and restarts.     *)
THEOREM OutcomesJustified == Spec => []OutcomesHaveCause
<1>1. SafetyInv => OutcomesHaveCause
  BY DEF SafetyInv, CauseInv, Caused, OutcomesHaveCause
<1> QED BY <1>1, SafetyHolds, PTL

(* ClaimDueMatching grants a lease that excludes other claims while it     *)
(* lasts, whatever late workers, clients, failures and restarts do.        *)
THEOREM ClaimsExclude == Spec => []LeasesExclude
<1>1. IInv /\ SafetyInv => LeasesExclude
  <2> SUFFICES ASSUME IInv, SafetyInv, NEW v \in Workers, NEW w \in Workers,
                      v # w, pc[v] = "sending", pc[w] = "sending",
                      job[v].id = job[w].id, cycle[job[v].id] = 0
               PROVE  job[v].item.leaseUntil <= Now \/ job[w].item.leaseUntil <= Now
    BY DEF LeasesExclude
  <2>1. First(v) /\ First(w)
    BY DEF First, IInv, WorkersTyped, Working
  <2>2. ~Valid(v) \/ ~Valid(w)
    BY <2>1 DEF SafetyInv, LeaseInv
  <2>3. job[v].item.leaseUntil \in Nat /\ job[w].item.leaseUntil \in Nat /\ Now \in Nat
    BY <2>1, JobTyped, PoolAssumption, TimeAssumption DEF First
  <2> QED BY <2>2, <2>3 DEF Valid
<1> QED BY <1>1, InvariantHolds, SafetyHolds, PTL

(* deliver gives up at the limit, and only faults let ClaimDueMatching, to *)
(* which the limit means nothing, go past it: as often as there were       *)
(* faults.  Of workers that wait for claimMu and the store no longer than  *)
(* a lease: a claim must not be granted with its lease already over.       *)
THEOREM AttemptsCounted ==
  ASSUME LeaseDuration >= Now
  PROVE  Spec => []AttemptsBounded
<1>1. IInv /\ IInv' /\ SafetyInv /\ CountInv /\ [Next]_vars => CountInv'
  BY CountStep DEF SafetyInv
<1>2. Init => CountInv
  BY SafetyStart
<1>3. IInv /\ CountInv => AttemptsBounded
  <2> SUFFICES ASSUME IInv, CountInv, NEW id \in Live(items), Answering(id)
               PROVE  items[id].attempts
                        <= LimitOf(items[id].content) + (FaultBound - faultsLeft)
    BY DEF AttemptsBounded
  <2>1. Within(items[id])
    BY DEF CountInv, Counted, Patient, Answering
  <2>2. /\ items[id].attempts \in Nat /\ LimitOf(items[id].content) \in Nat
        /\ faultsLeft \in Nat /\ FaultBound \in Nat
    BY LiveTyped, CountTyped
  <2> QED BY <2>1, <2>2 DEF Within
<1> QED BY <1>1, <1>2, <1>3, InvariantHolds, SafetyHolds, PTL DEF Spec
=============================================================================
