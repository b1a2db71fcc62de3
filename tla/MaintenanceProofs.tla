------------------------- MODULE MaintenanceProofs -------------------------
(***************************************************************************)
(* Proofs about Maintenance, for any number of deliveries, any lengths of  *)
(* records, any configuration and any number of failures: its types, and   *)
(* that a compaction makes the journal no longer than it was.              *)
(***************************************************************************)
EXTENDS Maintenance, FiniteSetTheorems, TLAPS

-----------------------------------------------------------------------------
(* Type correctness.                                                       *)

(* The ages stop where the configuration of the process lets them.         *)
LEMMA BoundsTyped ==
  ASSUME TypeOK
  PROVE  /\ retention \in Nat /\ LagBound \in Nat /\ AgeBound \in Nat
         /\ FaultBound \in Nat /\ RetryBound \in Nat
         /\ RecordBytes \in Nat \ {0} /\ TombstoneBytes \in Nat \ {0}
BY MaintenanceAssumption DEF TypeOK, AgeBound

(* The deliveries a step may speak of can be counted.                      *)
LEMMA Countable ==
  /\ IsFiniteSet(Live) /\ Cardinality(Live) \in Nat
  /\ IsFiniteSet(Gone) /\ Cardinality(Gone) \in Nat
<1>1. Live \subseteq Slots /\ Gone \subseteq Slots
  BY DEF Live, Gone
<1> QED BY <1>1, MaintenanceAssumption, FS_Subset, FS_CardinalityType

(* A slot that changes hands, or whose delivery does, is young again.      *)
LEMMA BecomesTyped ==
  ASSUME TypeOK, NEW d \in Slots, NEW s \in {"active", "ended"}, Becomes(d, s),
         UNCHANGED config
  PROVE  /\ status' \in [Slots -> {"absent", "active", "ended"}]
         /\ age' \in [Slots -> 0 .. AgeBound']
         /\ \A e \in (Slots \ Live') : age'[e] = 0
<1>1. AgeBound' = AgeBound /\ 0 \in 0 .. AgeBound
  BY BoundsTyped DEF AgeBound, config
<1>2. Live' = Live \union {d}
  BY DEF Becomes, Live, TypeOK
<1> QED BY <1>1, <1>2 DEF Becomes, TypeOK

(* What a failed append leaves.                                            *)
LEMMA FailureTyped ==
  ASSUME TypeOK, NEW bytes \in Nat, AppendFails(bytes)
  PROVE  /\ size' \in Nat /\ size' >= size /\ records' = records
         /\ persistenceErr' \in BOOLEAN /\ faults' \in 0 .. FaultBound
BY BoundsTyped DEF TypeOK, AppendFails

(* A successful one.                                                       *)
LEMMA AppendTyped ==
  ASSUME TypeOK, NEW bytes \in Nat, NEW count \in Nat, Appended(bytes, count)
  PROVE  /\ size' \in Nat /\ records' \in Nat
         /\ persistenceErr' \in BOOLEAN /\ faults' = faults
BY DEF TypeOK, Appended

(* The steps of clients and workers keep the types.                        *)
LEMMA MutateTyped ==
  ASSUME TypeOK, Mutate
  PROVE  TypeOK'
<1> USE BoundsTyped
<1>1. ASSUME NEW d \in Slots, Create(d) \/ Progress(d) \/ End(d)
      PROVE  TypeOK'
  <2>1. /\ Appended(RecordBytes, 1) /\ (Becomes(d, "active") \/ Becomes(d, "ended"))
        /\ UNCHANGED <<config, phase, lag, retries>>
    BY <1>1 DEF Create, Progress, End
  <2> QED BY <2>1, BecomesTyped, AppendTyped DEF TypeOK, config
<1>2. ASSUME NEW d \in Slots, Retry(d)
      PROVE  TypeOK'
  <2>1. /\ Appended(RecordBytes, 1) /\ Becomes(d, "active")
        /\ retries' = retries + 1 /\ retries < RetryBound
        /\ UNCHANGED <<config, phase, lag>>
    BY <1>2 DEF Retry
  <2>2. retries' \in 0 .. RetryBound
    BY <2>1 DEF TypeOK
  <2> QED BY <2>1, <2>2, BecomesTyped, AppendTyped DEF TypeOK, config
<1>3. CASE MutationFails
  <2>1. AppendFails(RecordBytes) /\ UNCHANGED <<config, status, age, phase, lag, retries>>
    BY <1>3 DEF MutationFails
  <2> QED BY <2>1, FailureTyped DEF TypeOK, config, Live, AgeBound
<1> QED BY <1>1, <1>2, <1>3 DEF Mutate

(* Time keeps them.                                                        *)
LEMMA TickTyped ==
  ASSUME TypeOK, Tick
  PROVE  TypeOK'
<1> USE BoundsTyped
<1>1. Live' = Live /\ AgeBound' = AgeBound /\ UNCHANGED <<config, status, journal, phase, bounded>>
  BY DEF Tick, Live, AgeBound, config
<1>2. lag' \in 0 .. LagBound /\ (lag' > 0 => phase = "pruning")
  BY DEF Tick, TypeOK
<1>3. age' \in [Slots -> 0 .. AgeBound] /\ \A d \in Slots \ Live : age'[d] = 0
  BY DEF Tick, TypeOK
<1> QED BY <1>1, <1>2, <1>3 DEF TypeOK, config, journal, bounded

(* So do the steps of a pass.                                              *)
LEMMA PassTyped ==
  ASSUME TypeOK, Pass
  PROVE  TypeOK'
<1> USE BoundsTyped, Countable
<1>1. CASE BeginPass
  BY <1>1 DEF BeginPass, TypeOK, config, journal, bounded, Live, AgeBound
<1>2. CASE Prune
  <2>1. TombstoneBytes * Cardinality(Gone) \in Nat
    OBVIOUS
  <2>2. size' \in Nat /\ records' \in Nat /\ persistenceErr' \in BOOLEAN /\ faults' = faults
    BY <1>2, <2>1, AppendTyped DEF Prune
  <2>3. Live' = Live \ Gone
    BY <1>2 DEF Prune, Live, Gone
  <2>4. /\ status' \in [Slots -> {"absent", "active", "ended"}]
        /\ age' \in [Slots -> 0 .. AgeBound]
        /\ \A d \in (Slots \ Live') : age'[d] = 0
    BY <1>2, <2>3 DEF Prune, TypeOK
  <2> QED BY <1>2, <2>2, <2>4 DEF Prune, TypeOK, config, AgeBound
<1>3. CASE PruneNothing
  BY <1>3 DEF PruneNothing, TypeOK, config, journal, bounded, Live, AgeBound
<1>4. CASE PruneFails
  <2>1. TombstoneBytes * Cardinality(Gone) \in Nat
    OBVIOUS
  <2>2. size' \in Nat /\ records' = records /\ persistenceErr' \in BOOLEAN /\ faults' \in 0 .. FaultBound
    BY <1>4, <2>1, FailureTyped DEF PruneFails, journal, TypeOK
  <2> QED BY <1>4, <2>2 DEF PruneFails, TypeOK, config, Live, AgeBound
<1>5. CASE Measure
  BY <1>5 DEF Measure, TypeOK, config, journal, bounded, Live, AgeBound
<1>6. CASE Compact \/ CompactFails
  <2>1. RecordBytes * Cardinality(Live) \in Nat
    OBVIOUS
  <2>2. size' \in Nat /\ records' \in Nat /\ persistenceErr' \in BOOLEAN
    BY <1>6, <2>1 DEF Compact, CompactFails, Adopted, journal, TypeOK
  <2>3. faults' \in 0 .. FaultBound
    BY <1>6 DEF Compact, CompactFails, bounded, TypeOK
  <2>4. phase' = "waiting" /\ lag' = lag /\ UNCHANGED <<config, status, age, retries>> /\ lag = 0
    BY <1>6 DEF Compact, CompactFails, bounded, TypeOK
  <2> QED BY <2>2, <2>3, <2>4 DEF TypeOK, config, Live, AgeBound
<1> QED BY <1>1, <1>2, <1>3, <1>4, <1>5, <1>6 DEF Pass

(* Every variable keeps its type, whatever the configuration and however   *)
(* the passes and the mutations of the store interleave.                   *)
THEOREM MaintenanceTypeCorrect == Spec => []TypeOK
<1>1. Init => TypeOK
  <2> SUFFICES ASSUME Init PROVE TypeOK
    OBVIOUS
  <2>1. retention \in Nat /\ LagBound \in Nat /\ FaultBound \in Nat /\ RetryBound \in Nat
    BY MaintenanceAssumption DEF Init
  <2>2. AgeBound \in Nat
    BY <2>1 DEF AgeBound
  <2>3. /\ status \in [Slots -> {"absent", "active", "ended"}]
        /\ age \in [Slots -> 0 .. AgeBound]
        /\ \A d \in Slots : age[d] = 0
    BY <2>2 DEF Init
  <2>4. persistenceErr \in BOOLEAN /\ phase = "waiting" /\ phase # "pruning"
    BY DEF Init
  <2>5. threshold \in Thresholds /\ retention \in Retentions /\ size = 0 /\ records = 0
        /\ lag = 0 /\ faults = 0 /\ retries = 0
    BY DEF Init
  <2> QED BY <2>1, <2>3, <2>4, <2>5 DEF TypeOK
<1>2. TypeOK /\ [Next]_vars => TypeOK'
  <2> SUFFICES ASSUME TypeOK, [Next]_vars PROVE TypeOK'
    OBVIOUS
  <2>1. CASE UNCHANGED vars
    BY <2>1 DEF vars, config, journal, bounded, TypeOK, Live, AgeBound
  <2> QED BY <2>1, MutateTyped, TickTyped, PassTyped DEF Next
<1> QED BY <1>1, <1>2, PTL DEF Spec

-----------------------------------------------------------------------------
(* What the journal holds and what a compaction would write.               *)

(* One record more for one delivery more, or for none.                     *)
LEMMA OneMore ==
  ASSUME NEW n \in Nat, NEW m \in Nat, m = n \/ m = n + 1, NEW s \in Nat, NEW r \in Nat,
         RecordBytes * n <= s, n <= r
  PROVE  RecordBytes * m <= s + RecordBytes /\ m <= r + 1
<1>1. RecordBytes \in Nat
  BY MaintenanceAssumption
<1>2. RecordBytes * (n + 1) = RecordBytes * n + RecordBytes /\ RecordBytes * n \in Nat
  BY <1>1
<1> QED BY <1>1, <1>2

(* Fewer deliveries would be written in fewer bytes.                       *)
LEMMA FewerBytes ==
  ASSUME NEW n \in Nat, NEW m \in Nat, m <= n
  PROVE  RecordBytes * m <= RecordBytes * n
<1>1. RecordBytes \in Nat
  BY MaintenanceAssumption
<1>2. PICK k \in Nat : n = m + k
  <2>1. n - m \in Nat /\ n = m + (n - m)
    OBVIOUS
  <2> QED BY <2>1
<1>3. RecordBytes * (m + k) = RecordBytes * m + RecordBytes * k /\ RecordBytes * k \in Nat
      /\ RecordBytes * m \in Nat
  BY <1>1
<1> QED BY <1>1, <1>2, <1>3

(* A mutation appends a record for each delivery it adds.                  *)
LEMMA MutateCovers ==
  ASSUME TypeOK, CompactionNeverGrows, Mutate
  PROVE  CompactionNeverGrows'
<1> USE BoundsTyped, Countable
<1>1. ASSUME NEW d \in Slots, Create(d) \/ Progress(d) \/ End(d) \/ Retry(d)
      PROVE  CompactionNeverGrows'
  <2>1. Appended(RecordBytes, 1) /\ (Becomes(d, "active") \/ Becomes(d, "ended"))
    BY <1>1 DEF Create, Progress, End, Retry
  <2>2. Live' = Live \union {d}
    BY <2>1 DEF Becomes, Live, TypeOK
  <2>3. /\ Cardinality(Live') \in Nat
        /\ Cardinality(Live') = Cardinality(Live) \/ Cardinality(Live') = Cardinality(Live) + 1
    <3>1. Cardinality(Live \union {d}) = IF d \in Live THEN Cardinality(Live) ELSE Cardinality(Live) + 1
      BY FS_AddElement
    <3> QED BY <2>2, <3>1
  <2>4. size' = size + RecordBytes /\ records' = records + 1 /\ size \in Nat /\ records \in Nat
    BY <2>1 DEF Appended, TypeOK
  <2> QED BY <2>3, <2>4, OneMore DEF CompactionNeverGrows
<1>2. CASE MutationFails
  <2>1. size' >= size /\ size' \in Nat /\ records' = records /\ Live' = Live
    BY <1>2, FailureTyped DEF MutationFails, Live
  <2>2. RecordBytes * Cardinality(Live) \in Nat /\ size \in Nat
    BY DEF TypeOK
  <2> QED BY <2>1, <2>2 DEF CompactionNeverGrows
<1> QED BY <1>1, <1>2 DEF Mutate

(* A pass writes a deletion for each delivery it removes, and a compaction *)
(* exactly what is left.                                                   *)
LEMMA PassCovers ==
  ASSUME TypeOK, CompactionNeverGrows, Pass
  PROVE  CompactionNeverGrows'
<1> USE BoundsTyped, Countable
<1>1. CASE BeginPass \/ PruneNothing \/ Measure
  BY <1>1 DEF BeginPass, PruneNothing, Measure, journal, Live, CompactionNeverGrows
<1>2. CASE Prune
  <2>1. Live' \subseteq Live
    BY <1>2 DEF Prune, Live, Gone
  <2>2. Cardinality(Live') \in Nat /\ Cardinality(Live') <= Cardinality(Live)
    BY <2>1, FS_Subset, FS_CardinalityType
  <2>3. RecordBytes * Cardinality(Live') <= RecordBytes * Cardinality(Live)
    BY <2>2, FewerBytes
  <2>4. TombstoneBytes * Cardinality(Gone) \in Nat
    OBVIOUS
  <2>5. size' >= size /\ records' >= records /\ size' \in Nat /\ records' \in Nat
    BY <1>2, <2>4 DEF Prune, Appended, TypeOK
  <2>6. /\ RecordBytes * Cardinality(Live') \in Nat /\ RecordBytes * Cardinality(Live) \in Nat
        /\ size \in Nat /\ records \in Nat
    BY <2>2 DEF TypeOK
  <2> QED BY <2>2, <2>3, <2>5, <2>6 DEF CompactionNeverGrows
<1>3. CASE PruneFails
  <2>1. TombstoneBytes * Cardinality(Gone) \in Nat
    OBVIOUS
  <2>2. size' >= size /\ size' \in Nat /\ records' = records /\ Live' = Live
    BY <1>3, <2>1, FailureTyped DEF PruneFails, journal, Live, TypeOK
  <2>3. RecordBytes * Cardinality(Live) \in Nat /\ size \in Nat
    BY DEF TypeOK
  <2> QED BY <2>2, <2>3 DEF CompactionNeverGrows
<1>4. CASE Compact \/ CompactFails
  <2>1. Live' = Live
    BY <1>4 DEF Compact, CompactFails, Live
  <2>2. (size' = size /\ records' = records)
        \/ (size' = RecordBytes * Cardinality(Live) /\ records' = Cardinality(Live))
    BY <1>4 DEF Compact, CompactFails, Adopted, journal
  <2>3. RecordBytes * Cardinality(Live) \in Nat
    OBVIOUS
  <2> QED BY <2>1, <2>2, <2>3 DEF CompactionNeverGrows
<1> QED BY <1>1, <1>2, <1>3, <1>4 DEF Pass

(* Whatever failed, was left behind or cut, the journal is at least as long*)
(* as what a compaction would write, and counts at least as many records:  *)
(* no repair and no pass of compactIfNeeded makes it longer.               *)
THEOREM CompactionShrinks == Spec => []CompactionNeverGrows
<1>1. Init => CompactionNeverGrows
  <2> SUFFICES ASSUME Init PROVE CompactionNeverGrows
    OBVIOUS
  <2>2. \A d \in Slots : status[d] = "absent"
    BY DEF Init
  <2>3. Live = {}
    BY <2>2 DEF Live
  <2>4. size = 0 /\ records = 0
    BY DEF Init
  <2>5. Cardinality(Live) = 0 /\ RecordBytes * 0 = 0
    BY <2>3, FS_EmptySet, MaintenanceAssumption
  <2> QED BY <2>4, <2>5 DEF CompactionNeverGrows
<1>2. TypeOK /\ CompactionNeverGrows /\ [Next]_vars => CompactionNeverGrows'
  <2> SUFFICES ASSUME TypeOK, CompactionNeverGrows, [Next]_vars PROVE CompactionNeverGrows'
    OBVIOUS
  <2>1. CASE UNCHANGED vars \/ Tick
    BY <2>1 DEF vars, Tick, journal, Live, CompactionNeverGrows
  <2> QED BY <2>1, MutateCovers, PassCovers DEF Next
<1> QED BY <1>1, <1>2, MaintenanceTypeCorrect, PTL DEF Spec
=============================================================================
