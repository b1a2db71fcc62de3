--------------------------- MODULE DeliveryProofs ---------------------------
(***************************************************************************)
(* Facts about one delivery: what the transitions make of its shape.       *)
(***************************************************************************)
EXTENDS Delivery, TLAPS

(* The transitions of a delivery keep its type and shape: a lease exactly  *)
(* in flight, a date exactly before the end (delivery.New and the          *)
(* assignments of the store's operations).                                 *)
LEMMA TransitionsTyped ==
  ASSUME NEW now \in Times
  PROVE  /\ \A key \in Keys \union {NoKey}, content \in Contents :
              New(key, content, now) \in Deliveries
         /\ \A d \in Deliveries :
              /\ Due(d, now) => Claimed(d, now) \in Deliveries
              /\ d.status = "in_flight" =>
                   /\ Succeeded(d, now) \in Deliveries
                   /\ FailedForGood(d, now) \in Deliveries
                   /\ \A next \in Times : Rescheduled(d, next, now) \in Deliveries
              /\ Canceled(d, now) \in Deliveries
              /\ Retryable(d) => Retried(d, now) \in Deliveries
<1> USE TimeAssumption DEF Deliveries, WellFormed, Terminal, Statuses, ZeroTime
<1>1. \A key \in Keys \union {NoKey}, content \in Contents :
        New(key, content, now) \in Deliveries
  BY DEF New
<1>2. ASSUME NEW d \in Deliveries, Due(d, now)
      PROVE  Claimed(d, now) \in Deliveries
  <2>1. now \in Nat /\ now + LeaseDuration \in Nat \ {0}
    OBVIOUS
  <2>2. d.status \in {"pending", "in_flight"} /\ d.nextAttemptAt # ZeroTime
    BY <1>2 DEF Due
  <2>3. d.attempts + 1 \in Nat \ {0}
    OBVIOUS
  <2>4. ASSUME NEW n \in Nat \ {0}, NEW lease \in Nat \ {0}
        PROVE  [d EXCEPT !.status = "in_flight", !.attempts = n,
                         !.leaseUntil = lease, !.updatedAt = now] \in Deliveries
    <3> DEFINE e == [d EXCEPT !.status = "in_flight", !.attempts = n,
                              !.leaseUntil = lease, !.updatedAt = now]
    <3>1. /\ e.status = "in_flight" /\ e.attempts = n /\ e.leaseUntil = lease
          /\ e.nextAttemptAt = d.nextAttemptAt
      OBVIOUS
    <3>2. WellFormed(e)
      BY <2>2, <3>1
    <3> QED BY <3>2
  <2> QED BY <2>1, <2>3, <2>4 DEF Claimed
<1>3. ASSUME NEW d \in Deliveries, d.status = "in_flight"
      PROVE  /\ Succeeded(d, now) \in Deliveries
             /\ FailedForGood(d, now) \in Deliveries
             /\ \A next \in Times : Rescheduled(d, next, now) \in Deliveries
  <2>1. Succeeded(d, now) \in Deliveries
    BY <1>3 DEF Succeeded
  <2>2. FailedForGood(d, now) \in Deliveries
    BY <1>3 DEF FailedForGood
  <2>3. ASSUME NEW next \in Times
        PROVE  Rescheduled(d, next, now) \in Deliveries
    BY <1>3 DEF Rescheduled
  <2> QED BY <2>1, <2>2, <2>3
<1>4. ASSUME NEW d \in Deliveries
      PROVE  Canceled(d, now) \in Deliveries
  BY DEF Canceled
<1>5. ASSUME NEW d \in Deliveries, Retryable(d)
      PROVE  Retried(d, now) \in Deliveries
  BY <1>5 DEF Retryable, Retried
<1> QED BY <1>1, <1>2, <1>3, <1>4, <1>5
=============================================================================
