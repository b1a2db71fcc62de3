---------------------------- MODULE Maintenance ----------------------------
(***************************************************************************)
(* internal/compactor/compactor.go over the store it maintains: repair of  *)
(* a failed store, retention, and compaction by size and redundancy.       *)
(*                                                                         *)
(* The pass of the loop (maintain) makes several calls of the store, each  *)
(* under the store's mutex, with the mutex free between them: clients and  *)
(* workers change the store between what a pass reads and what it does.    *)
(* Here the contents of the journal do not matter, its length does: bytes  *)
(* (what the thresholds compare) and records (what the ratio compares) are *)
(* counted apart, since a deletion is shorter than a delivery and a failed *)
(* append leaves bytes that no record counts.  Of a delivery the loop sees *)
(* whether it has ended and how long ago it last changed; a slot is reused *)
(* by a later delivery.  What survives a crash is the subject of Store.    *)
(***************************************************************************)
EXTENDS Naturals, FiniteSets

CONSTANTS
  Slots,            \* the deliveries the store may hold at once
  RecordBytes,      \* the length of a delivery's record
  TombstoneBytes,   \* the length of a deletion
  MaxJournalBytes,  \* Options.MaxJournalBytes
  Thresholds,       \* the values of Config.ThresholdBytes to look at; 0: disabled
  Retentions,       \* the values of Config.Retention to look at; 0: for ever
  FaultBound,       \* bound of the exploration: operations of the disk that fail
  RetryBound,       \* bound of the exploration: manual retries
  SizeBound,        \* bound of the exploration: bytes claims and retries may reach
  LagBound          \* bound of the exploration: time that passes within a pass

ASSUME MaintenanceAssumption ==
  /\ IsFiniteSet(Slots)
  /\ RecordBytes \in Nat \ {0} /\ TombstoneBytes \in Nat \ {0}
  /\ MaxJournalBytes \in Nat \ {0}
  /\ Thresholds \subseteq Nat /\ Retentions \subseteq Nat
  /\ {FaultBound, RetryBound, SizeBound, LagBound} \subseteq Nat

VARIABLES
  threshold, retention,  \* the configuration of this process
  status,         \* per slot "absent", "active" or "ended"
  age,            \* per slot, the time since UpdatedAt
  size,           \* the size of the journal file
  records,        \* Store.records
  persistenceErr, \* Store.persistenceErr # nil
  phase,          \* where the pass is: the call of the store it makes next
  lag,            \* the time since the pass read the clock
  faults,         \* the failures so far
  retries         \* the manual retries so far

config == <<threshold, retention>>
journal == <<size, records, persistenceErr>>
bounded == <<faults, retries>>
vars == <<config, status, age, journal, phase, lag, bounded>>

Live == {d \in Slots : status[d] # "absent"}
AgeBound == retention + LagBound   \* older is no different

Init ==
  /\ threshold \in Thresholds /\ retention \in Retentions
  /\ status = [d \in Slots |-> "absent"] /\ age = [d \in Slots |-> 0]
  /\ size = 0 /\ records = 0 /\ persistenceErr = FALSE
  /\ phase = "waiting" /\ lag = 0
  /\ faults = 0 /\ retries = 0

-----------------------------------------------------------------------------
(* appendDataLocked: records are counted once they are synchronized.       *)

(* Mutant: the counter forgets appended records.                           *)
AppendUncounted(bytes, count) ==
  /\ ~persistenceErr
  /\ size' = size + bytes
  /\ UNCHANGED <<records, persistenceErr, faults>>

Appended(bytes, count) ==
  /\ ~persistenceErr
  /\ size' = size + bytes /\ records' = records + count
  /\ UNCHANGED <<persistenceErr, faults>>

AppendFails(bytes) ==
  /\ ~persistenceErr /\ faults < FaultBound
  /\ \E written \in 0 .. bytes : size' = size + written
  /\ persistenceErr' = TRUE /\ faults' = faults + 1
  /\ UNCHANGED records

(* checkAdmissionLocked                                                    *)
Admits == size + RecordBytes <= MaxJournalBytes

Becomes(d, s) ==
  /\ status' = [status EXCEPT ![d] = s]
  /\ age' = [age EXCEPT ![d] = 0]

Create(d) ==
  /\ status[d] = "absent" /\ Admits
  /\ Appended(RecordBytes, 1) /\ Becomes(d, "active")
  /\ UNCHANGED <<config, phase, lag, retries>>

(* A claim or an attempt to be repeated.                                   *)
Progress(d) ==
  /\ status[d] = "active" /\ size + RecordBytes <= SizeBound
  /\ Appended(RecordBytes, 1) /\ Becomes(d, "active")
  /\ UNCHANGED <<config, phase, lag, retries>>

(* Success, failure for good or cancellation.                              *)
End(d) ==
  /\ status[d] = "active"
  /\ Appended(RecordBytes, 1) /\ Becomes(d, "ended")
  /\ UNCHANGED <<config, phase, lag, retries>>

Retry(d) ==
  /\ status[d] = "ended" /\ size + RecordBytes <= SizeBound
  /\ retries < RetryBound /\ retries' = retries + 1
  /\ Appended(RecordBytes, 1) /\ Becomes(d, "active")
  /\ UNCHANGED <<config, phase, lag>>

MutationFails ==
  /\ Live # {} \/ Admits
  /\ AppendFails(RecordBytes)
  /\ UNCHANGED <<config, status, age, phase, lag, retries>>

(* Time passes; ages stop where a pass tells them no longer apart.         *)
Tick ==
  /\ \E d \in Live : age[d] < AgeBound
  /\ phase = "pruning" => lag < LagBound
  /\ lag' = IF phase = "pruning" THEN lag + 1 ELSE lag
  /\ age' = [d \in Slots |->
               IF d \in Live /\ age[d] < AgeBound THEN age[d] + 1 ELSE age[d]]
  /\ UNCHANGED <<config, status, journal, phase, bounded>>

-----------------------------------------------------------------------------
(* Start runs the loop unless there is nothing it would do.                *)

Maintains == threshold > 0 \/ retention > 0

(* maintain: the clock, then Ready.                                        *)

(* Mutant: retention does not ask whether it is on.                        *)
BeginPassPruning ==
  /\ Maintains /\ phase = "waiting"
  /\ lag' = 0
  /\ phase' = IF persistenceErr THEN "compacting" ELSE "pruning"
  /\ UNCHANGED <<config, status, age, journal, bounded>>

(* Mutant: retention waits for the size trigger.                           *)
BeginPassBySize ==
  /\ Maintains /\ phase = "waiting"
  /\ lag' = 0
  /\ phase' = IF persistenceErr THEN "compacting"
              ELSE IF retention > 0 /\ size >= threshold THEN "pruning"
              ELSE "measuring"
  /\ UNCHANGED <<config, status, age, journal, bounded>>

(* Mutant: a store that is not ready is left alone.                        *)
BeginPassIfReady ==
  /\ Maintains /\ phase = "waiting" /\ ~persistenceErr
  /\ lag' = 0
  /\ phase' = IF retention > 0 THEN "pruning" ELSE "measuring"
  /\ UNCHANGED <<config, status, age, journal, bounded>>

BeginPass ==
  /\ Maintains /\ phase = "waiting"
  /\ lag' = 0
  /\ phase' = IF persistenceErr THEN "compacting"
              ELSE IF retention > 0 THEN "pruning" ELSE "measuring"
  /\ UNCHANGED <<config, status, age, journal, bounded>>

(* PruneTerminal(started - retention)                                      *)

Prunable(d) == status[d] = "ended" /\ age[d] >= retention + lag

Gone == {d \in Slots : Prunable(d)}

Prune ==
  /\ phase = "pruning" /\ Gone # {}
  /\ Appended(TombstoneBytes * Cardinality(Gone), Cardinality(Gone))
  /\ status' = [d \in Slots |-> IF d \in Gone THEN "absent" ELSE status[d]]
  /\ age' = [d \in Slots |-> IF d \in Gone THEN 0 ELSE age[d]]
  /\ phase' = "compacting" /\ lag' = 0
  /\ UNCHANGED <<config, retries>>

PruneNothing ==
  /\ phase = "pruning" /\ Gone = {}
  /\ phase' = "measuring" /\ lag' = 0
  /\ UNCHANGED <<config, status, age, journal, bounded>>

(* The store failed since Ready, or fails now.                             *)
PruneFails ==
  /\ phase = "pruning" /\ Gone # {}
  /\ \/ persistenceErr /\ UNCHANGED <<journal, faults>>
     \/ AppendFails(TombstoneBytes * Cardinality(Gone))
  /\ phase' = "waiting" /\ lag' = 0
  /\ UNCHANGED <<config, status, age, retries>>

(* compactIfNeeded, on Stats that may be old when the compaction begins.   *)

(* Mutant: more than twice as many records.                                *)
WorthwhileAboveTwice ==
  /\ threshold > 0 /\ size >= threshold
  /\ records \div 2 > Cardinality(Live)

(* Mutant: the size is compared with the admission limit.                  *)
WorthwhileWhenFull ==
  /\ threshold > 0 /\ size >= MaxJournalBytes
  /\ records \div 2 >= Cardinality(Live)

Worthwhile ==
  /\ threshold > 0 /\ size >= threshold
  /\ records \div 2 >= Cardinality(Live)

Measure ==
  /\ phase = "measuring"
  /\ phase' = IF Worthwhile THEN "compacting" ELSE "waiting"
  /\ UNCHANGED <<config, status, age, journal, lag, bounded>>

(* Compact, which holds the mutex throughout.  An error after the fsync of *)
(* the directory is only reported.                                         *)
Adopted ==
  /\ size' = RecordBytes * Cardinality(Live)
  /\ records' = Cardinality(Live)

Compact ==
  /\ phase = "compacting"
  /\ Adopted /\ persistenceErr' = FALSE
  /\ phase' = "waiting"
  /\ UNCHANGED <<config, status, age, lag, bounded>>

(* Before the rename nothing has changed; between the rename and the fsync *)
(* of the directory the new journal is adopted, and not relied on.         *)
CompactFails ==
  /\ phase = "compacting" /\ faults < FaultBound
  /\ \/ UNCHANGED journal
     \/ Adopted /\ persistenceErr' = TRUE
  /\ phase' = "waiting" /\ faults' = faults + 1
  /\ UNCHANGED <<config, status, age, lag, retries>>

-----------------------------------------------------------------------------
Mutate ==
  \/ \E d \in Slots : Create(d) \/ Progress(d) \/ End(d) \/ Retry(d)
  \/ MutationFails

Pass ==
  \/ BeginPass
  \/ Prune
  \/ PruneNothing
  \/ PruneFails
  \/ Measure
  \/ Compact
  \/ CompactFails

Next ==
  \/ Mutate
  \/ Tick
  \/ Pass

(* The ticker fires and every call returns; time passes; a worker or a     *)
(* client ends what is active (Pool!EveryDeliveryEnds).                    *)
Spec ==
  /\ Init /\ [][Next]_vars
  /\ WF_vars(Pass) /\ WF_vars(Tick)
  /\ \A d \in Slots : WF_vars(End(d))

-----------------------------------------------------------------------------
(* Every variable has its type; a slot without a delivery has no age, and a*)
(* pass looks at the clock only on its way to retention.                   *)
TypeOK ==
  /\ threshold \in Thresholds /\ retention \in Retentions
  /\ status \in [Slots -> {"absent", "active", "ended"}]
  /\ age \in [Slots -> 0 .. AgeBound]
  /\ \A d \in Slots \ Live : age[d] = 0
  /\ size \in Nat /\ records \in Nat /\ persistenceErr \in BOOLEAN
  /\ phase \in {"waiting", "pruning", "measuring", "compacting"}
  /\ phase = "pruning" => retention > 0
  /\ lag \in 0 .. LagBound /\ (lag > 0 => phase = "pruning")
  /\ faults \in 0 .. FaultBound /\ retries \in 0 .. RetryBound

(* A compaction never makes the journal longer, nor the count of its       *)
(* records, however appends failed and deletions were left behind: Stats   *)
(* never report fewer records than live deliveries.                        *)
CompactionNeverGrows ==
  /\ RecordBytes * Cardinality(Live) <= size
  /\ Cardinality(Live) <= records

(* With size-based compaction or retention on, a store that refuses        *)
(* mutations is repaired (TestMaintenanceRepairsUnreadyJournalBelowThreshold),*)
(* whatever failed and at whatever point of a pass; with both off the loop *)
(* never starts, and nothing repairs it.                                   *)
Repaired ==
  (threshold > 0 \/ retention > 0) /\ persistenceErr ~> ~persistenceErr

(* With a retention, history older than it is removed or retried, through  *)
(* failed appends, failed compactions and the repairs they need.           *)
HistoryExpires ==
  \A d \in Slots :
    retention > 0 /\ status[d] = "ended" /\ age[d] >= retention
      ~> status[d] # "ended" \/ age[d] < retention

(* A journal of at least the threshold, with at least two records for each *)
(* live delivery, is compacted or no longer so.                            *)
Redundant ==
  /\ threshold > 0 /\ size >= threshold
  /\ records >= 2 * Cardinality(Live)
RedundancyReclaimed == Redundant ~> ~Redundant

(* A journal that refuses new deliveries accepts them again, provided that *)
(* there is a retention and that the size trigger is reached no later than *)
(* the admission limit.  With a later trigger, or none, deletions whose    *)
(* compaction failed once fill the journal for ever: the next pass has     *)
(* nothing to prune, and nothing new is admitted to be pruned later.       *)
TriggerBeforeLimit ==
  threshold > 0 /\ threshold + RecordBytes <= MaxJournalBytes + 1
JournalReopens == retention > 0 /\ TriggerBeforeLimit /\ ~Admits ~> Admits
============================================================================
