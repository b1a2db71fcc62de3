----------------------------- MODULE Delivery -----------------------------
(***************************************************************************)
(* One delivery: the record of internal/delivery/delivery.go and the       *)
(* transitions internal/store/store.go makes on it.  The operators are     *)
(* pure; Store, Spool and Pool say when and by whom they are applied.      *)
(*                                                                         *)
(* Target URL, method, headers, body and attempt limit never change after  *)
(* delivery.New, so one value of Contents stands for all five, and stands  *)
(* for their fingerprint too (two requests have the same fingerprint only  *)
(* when their contents are equal).  The identifier is the position of the  *)
(* delivery in a table.  lastError and lastResponseCode are only reported  *)
(* to clients and are left out.                                            *)
(***************************************************************************)
EXTENDS Naturals, FiniteSets

CONSTANTS
  Ids,            \* delivery identifiers (128 bits), in the order of their strings
  Keys,           \* client-chosen idempotency keys
  NoKey,          \* the empty idempotency key
  Contents,       \* normalized requests, one per fingerprint
  LeaseDuration,  \* worker.Config.LeaseDuration
  Times,          \* the readings time.Now() may return
  Absent          \* no delivery under this identifier

(* Identifiers compare as the code's strings do; a store holds finitely many.*)
ASSUME IdsAssumption == Ids \subseteq Nat \ {0} /\ IsFiniteSet(Ids)
ASSUME KeysAssumption == NoKey \notin Keys
ASSUME TimeAssumption == Times \subseteq Nat \ {0} /\ LeaseDuration \in Nat \ {0}

ZeroTime == 0    \* time.Time{}, older than every reading of the clock
NoId == 0        \* no identifier: a missing entry of a map

Statuses == {"pending", "in_flight", "succeeded", "failed", "canceled"}

Terminal(d) == d.status \in {"succeeded", "failed", "canceled"}

(* The shapes the transitions keep: a lease exists exactly in flight, a    *)
(* date for the next attempt exactly before the end.                       *)
WellFormed(d) ==
  /\ (d.status = "in_flight") <=> (d.leaseUntil # ZeroTime)
  /\ Terminal(d) <=> (d.nextAttemptAt = ZeroTime)
  /\ d.status \in {"in_flight", "succeeded", "failed"} => d.attempts > 0

Deliveries ==
  {d \in [key : Keys \union {NoKey}, content : Contents, status : Statuses,
          attempts : Nat, nextAttemptAt : Nat, leaseUntil : Nat,
          createdAt : Times, updatedAt : Times] : WellFormed(d)}

(* No delivery is the mark of a missing one.                               *)
ASSUME AbsentAssumption == Absent \notin Deliveries

Tables == [Ids -> Deliveries \union {Absent}]
EmptyTable == [id \in Ids |-> Absent]
Live(tbl) == {id \in Ids : tbl[id] # Absent}

New(key, content, now) ==
  [key |-> key, content |-> content, status |-> "pending", attempts |-> 0,
   nextAttemptAt |-> now, leaseUntil |-> ZeroTime,
   createdAt |-> now, updatedAt |-> now]

(***************************************************************************)
(* ClaimDueMatching: who is a candidate, who comes first, what a claim does.*)
(***************************************************************************)
(* Mutant: a delivery in flight is left to its worker, alive or not.       *)
DuePending(d, now) == d.status = "pending" /\ d.nextAttemptAt <= now

Due(d, now) ==
  \/ d.status = "pending" /\ d.nextAttemptAt <= now
  \/ d.status = "in_flight" /\ d.leaseUntil <= now

(* Mutant: candidates sorted by age alone.                                 *)
SortsByAge(tbl, i, j) ==
  \/ tbl[i].createdAt < tbl[j].createdAt
  \/ tbl[i].createdAt = tbl[j].createdAt /\ i < j

SortsBefore(tbl, i, j) ==
  \/ tbl[i].nextAttemptAt < tbl[j].nextAttemptAt
  \/ /\ tbl[i].nextAttemptAt = tbl[j].nextAttemptAt
     /\ \/ tbl[i].createdAt < tbl[j].createdAt
        \/ tbl[i].createdAt = tbl[j].createdAt /\ i < j

Claimed(d, now) ==
  [d EXCEPT !.status = "in_flight", !.attempts = @ + 1,
            !.leaseUntil = now + LeaseDuration, !.updatedAt = now]

(* currentLeaseLocked: what Succeed and Fail ask of the stored delivery.   *)

(* Mutant: any claim of the delivery will do.                              *)
HoldsAnyLease(d, attempt) == d.status = "in_flight"

HoldsLease(d, attempt) == d.status = "in_flight" /\ d.attempts = attempt

Succeeded(d, now) ==
  [d EXCEPT !.status = "succeeded", !.nextAttemptAt = ZeroTime,
            !.leaseUntil = ZeroTime, !.updatedAt = now]

FailedForGood(d, now) ==
  [d EXCEPT !.status = "failed", !.nextAttemptAt = ZeroTime,
            !.leaseUntil = ZeroTime, !.updatedAt = now]

Rescheduled(d, next, now) ==
  [d EXCEPT !.status = "pending", !.nextAttemptAt = next,
            !.leaseUntil = ZeroTime, !.updatedAt = now]

Cancelable(d) == d.status \in {"pending", "in_flight"}

(* Mutant: Cancel forgets to clear the lease.                              *)
CanceledKeepingLease(d, now) ==
  [d EXCEPT !.status = "canceled", !.nextAttemptAt = ZeroTime, !.updatedAt = now]

Canceled(d, now) ==
  [d EXCEPT !.status = "canceled", !.nextAttemptAt = ZeroTime,
            !.leaseUntil = ZeroTime, !.updatedAt = now]

Retryable(d) == d.status = "failed"

Retried(d, now) ==
  [d EXCEPT !.status = "pending", !.attempts = 0, !.nextAttemptAt = now,
            !.leaseUntil = ZeroTime, !.updatedAt = now]

(* PruneTerminal: the deliveries retention may delete.                     *)

(* Mutant: retention looks at the age alone.                               *)
PrunableByAge(d, before) == d.updatedAt <= before

Prunable(d, before) == Terminal(d) /\ d.updatedAt <= before
============================================================================
