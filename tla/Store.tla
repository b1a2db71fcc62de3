------------------------------- MODULE Store -------------------------------
(***************************************************************************)
(* internal/store/store.go: the deliveries in memory, the append-only      *)
(* journal that makes them durable, compaction, and the restarts that read *)
(* the journal back.                                                       *)
(*                                                                         *)
(* The store's mutex makes its operations atomic to each other and to      *)
(* readers; what can fall between two of their steps is the end of the     *)
(* process or of the machine.  An operation is therefore cut where its     *)
(* effects on the disk can be separated: the write of the records, the     *)
(* fsync that acknowledges them, the records of a compaction one by one,   *)
(* the rename, the fsync of the directory.                                 *)
(*                                                                         *)
(* The disk.  A file is the sequence of the chunks written to it, of which *)
(* a prefix is known to be on stable storage; the machine failing leaves   *)
(* that prefix and any part, in order, of the rest.  A name in the         *)
(* directory becomes durable with the fsync of the directory; until then   *)
(* the machine failing may bring back any file the name stood for since    *)
(* (shadows).  A failing fsync leaves what was durable as it was.          *)
(*                                                                         *)
(* Operations that change nothing (Get, List, Counts, Stats, a refused or  *)
(* repeated request) are not actions.  The metrics counters of             *)
(* compactions and prunings are left out.                                  *)
(***************************************************************************)
EXTENDS Delivery, Sequences, FiniteSets

CONSTANTS
  NoFile,         \* no file under this name
  Faults,         \* what may go wrong: see below
  MaxJournal,     \* Options.MaxJournalBytes, in records; 0: unlimited
  JournalBound,   \* bound of the exploration: records in the journal
  AttemptBound,   \* bound of the exploration: attempts of a delivery
  ShadowBound     \* bound of the exploration: renames not yet durable

(* "io": a write or an fsync fails; "kill": the process is killed;         *)
(* "power": the machine stops; "torn": a write may stop inside a record.   *)
ASSUME FaultsAssumption == Faults \subseteq {"io", "kill", "power", "torn"}
ASSUME BoundsAssumption ==
  /\ MaxJournal \in Nat /\ JournalBound \in Nat
  /\ AttemptBound \in Nat /\ ShadowBound \in Nat

VARIABLES
  proc,           \* the process: "down", "creating" (in Open, between the
                  \* creation of the journal and its directory fsync), "up"
  stage,          \* the operation holding the mutex, by what it did last
  items,          \* Store.items (and hashes, which follow the contents)
  keyToID,        \* Store.keyToID
  persistenceErr, \* Store.persistenceErr # nil
  records,        \* Store.records
  journal,        \* the file at path, which Store.file also refers to
  temp,           \* the compacted file before its rename, or an abandoned one
  shadows,        \* the older files the name of the journal may still denote
                  \* after the machine fails
  unacked,        \* history: the records written and never acknowledged
  promised,       \* history: the table the callers have been told of
  settled         \* history: the journal was whole and durable when this
                  \* process first relied on it

memory == <<items, keyToID, persistenceErr, records>>
disk == <<journal, temp, shadows>>
history == <<unacked, promised, settled>>
vars == <<proc, stage, memory, disk, history>>

-----------------------------------------------------------------------------
(* The journal: what a sequence of chunks is replayed to.                  *)

(* A delivery record, or a deletion when item is Absent.  "line": complete *)
(* with its newline; "bare": complete but for the newline; "torn": cut.    *)
Chunks ==
  [id : Ids, item : Deliveries \union {Absent}, part : {"line", "bare", "torn"}]

DeliveryRecord(id, d) == [id |-> id, item |-> d, part |-> "line"]
DeleteRecord(id) == [id |-> id, item |-> Absent, part |-> "line"]

Files ==
  {f \in [chunks : Seq(Chunks), synced : Nat] : f.synced <= Len(f.chunks)}
(* No file is the mark of a missing one.                                   *)
ASSUME NoFileAssumption == NoFile \notin Files

EmptyFile == [chunks |-> <<>>, synced |-> 0]

Extended(f, es) == [f EXCEPT !.chunks = @ \o es]

(* Mutant: the fsync is forgotten.                                         *)
SyncForgotten(f) == f

Synced(f) == [f EXCEPT !.synced = Len(f.chunks)]

AllLines(es) == \A i \in DOMAIN es : es[i].part = "line"

(* A chunk glued to a line without end makes a line that is not JSON.      *)
(* Inside the journal replay refuses such a line; at the end, where no     *)
(* newline follows, it ignores it.                                         *)
Readable(es) ==
  \A i \in 2 .. Len(es) : es[i].part = "line" => es[i - 1].part = "line"

Applied(es) ==
  {i \in DOMAIN es : /\ i > 1 => es[i - 1].part = "line"
                     /\ \/ es[i].part = "line"
                        \/ es[i].part = "bare" /\ i = Len(es)}

(* The applied records after which no other speaks of the same delivery.   *)
Last(es, id) ==
  {i \in Applied(es) : /\ es[i].id = id
                       /\ \A j \in Applied(es) : es[j].id = id => j <= i}

(* setLocked and deleteLocked for each applied record, in order.           *)
Overlay(tbl, es) ==
  [id \in Ids |-> IF Last(es, id) = {} THEN tbl[id]
                  ELSE es[CHOOSE i \in Last(es, id) : TRUE].item]

Replay(es) == Overlay(EmptyTable, es)

(* The index of idempotency keys along the same records: the last one to   *)
(* set the key wins, unless its delivery is deleted afterwards.            *)
Sets(es, i, key) == es[i].item # Absent /\ es[i].item.key = key

LastSetting(es, key) ==
  {i \in Applied(es) : /\ Sets(es, i, key)
                       /\ \A j \in Applied(es) : Sets(es, j, key) => j <= i}

DeletedAfter(es, id, n) ==
  \E i \in Applied(es) : i > n /\ es[i].id = id /\ es[i].item = Absent

(* Mutant: deleteLocked leaves the key of the delivery in the index.       *)
KeyOverlayKeepingDeleted(index, es) ==
  [key \in Keys |->
     IF LastSetting(es, key) # {}
     THEN es[CHOOSE i \in LastSetting(es, key) : TRUE].id
     ELSE index[key]]

KeyOverlay(index, es) ==
  [key \in Keys |->
     IF LastSetting(es, key) # {}
     THEN LET i == CHOOSE i \in LastSetting(es, key) : TRUE
          IN  IF DeletedAfter(es, es[i].id, i) THEN NoId ELSE es[i].id
     ELSE IF DeletedAfter(es, index[key], 0) THEN NoId ELSE index[key]]

EmptyIndex == [key \in Keys |-> NoId]

(* What an interrupted write or a failing machine leaves of es when its    *)
(* first n chunks are safe.                                                *)
Prefix(es, n) == SubSeq(es, 1, n)
Cut(es, n, part) == Append(Prefix(es, n), [es[n + 1] EXCEPT !.part = part])
Shorter(part) == IF part = "line" THEN {"bare", "torn"} ELSE {"torn"}

WholeCuts(es, n) == {Prefix(es, m) : m \in n .. Len(es)}
TornCuts(es, n) ==
  UNION {{Cut(es, m, part) : part \in Shorter(es[m + 1].part)} :
           m \in n .. Len(es) - 1}

Cuts(es, n) ==
  WholeCuts(es, n) \union (IF "torn" \in Faults THEN TornCuts(es, n) ELSE {})

-----------------------------------------------------------------------------
Init ==
  /\ proc = "down" /\ stage = "idle"
  /\ items = EmptyTable /\ keyToID = EmptyIndex
  /\ persistenceErr = FALSE /\ records = 0
  /\ journal = NoFile /\ temp = NoFile /\ shadows = {}
  /\ unacked = <<>> /\ promised = EmptyTable /\ settled = TRUE

(* The end of the process, for whatever reason, empties the memory.  Of an *)
(* abandoned compaction only the existence matters to the next one.        *)
Leftover == IF temp = NoFile THEN NoFile ELSE EmptyFile

Stop ==
  /\ proc' = "down" /\ stage' = "idle"
  /\ items' = EmptyTable /\ keyToID' = EmptyIndex
  /\ persistenceErr' = FALSE /\ records' = 0

(* replay.  What it reads is what the new process's callers will see.      *)
Load ==
  LET es == journal'.chunks IN
  /\ Readable(es)
  /\ proc' = "up" /\ stage' = "idle"
  /\ items' = Replay(es)
  /\ keyToID' = KeyOverlay(EmptyIndex, es)
  /\ persistenceErr' = FALSE
  /\ records' = Cardinality(Applied(es))
  /\ unacked' = <<>>
  /\ promised' = items'
  /\ settled' = (AllLines(es) /\ journal'.synced = Len(es) /\ shadows' = {})

(* removeAbandonedCompactions fsyncs the directory when it removed a file. *)
ShadowsAfterCleanup == IF temp = NoFile THEN shadows ELSE {}

CleanupFails ==
  /\ proc = "down" /\ temp # NoFile /\ "io" \in Faults
  /\ temp' = NoFile
  /\ UNCHANGED <<proc, stage, memory, journal, shadows, history>>

OpenExisting ==
  /\ proc = "down" /\ journal # NoFile
  /\ temp' = NoFile /\ shadows' = ShadowsAfterCleanup
  /\ UNCHANGED journal
  /\ Load

OpenNew ==
  /\ proc = "down" /\ journal = NoFile
  /\ temp' = NoFile /\ shadows' = ShadowsAfterCleanup \union {NoFile}
  /\ journal' = EmptyFile
  /\ proc' = "creating"
  /\ UNCHANGED <<stage, memory, history>>

NewJournalSynced ==
  /\ proc = "creating"
  /\ shadows' = {}
  /\ UNCHANGED <<journal, temp>>
  /\ Load

NewJournalSyncFails ==
  /\ proc = "creating" /\ "io" \in Faults
  /\ proc' = "down"
  /\ journal' = NoFile /\ shadows' = shadows \union {journal}
  /\ UNCHANGED <<stage, memory, temp, history>>

-----------------------------------------------------------------------------
(* appendDataLocked, cut in two by what a kill or a power loss separates.  *)
Serving == proc = "up" /\ stage = "idle"

Write(es) ==
  /\ ~persistenceErr
  /\ Len(journal.chunks) + Len(es) <= JournalBound
  /\ unacked' = es
  /\ \/ /\ journal' = Extended(journal, es) /\ stage' = "syncing"
        /\ UNCHANGED persistenceErr
     \/ /\ "io" \in Faults
        /\ \E part \in Cuts(es, 0) \ {es} : journal' = Extended(journal, part)
        /\ persistenceErr' = TRUE /\ UNCHANGED stage
  /\ UNCHANGED <<proc, items, keyToID, records, temp, shadows, promised, settled>>

(* The fsync returns: memory follows the journal and the caller is told.   *)
SyncDone ==
  /\ stage = "syncing"
  /\ stage' = "idle"
  /\ journal' = Synced(journal)
  /\ items' = Overlay(items, unacked)
  /\ keyToID' = KeyOverlay(keyToID, unacked)
  /\ records' = records + Len(unacked)
  /\ promised' = Overlay(promised, unacked)
  /\ unacked' = <<>>
  /\ settled' = (settled \/ (AllLines(journal.chunks) /\ shadows = {}))
  /\ UNCHANGED <<proc, persistenceErr, temp, shadows>>

(* Mutant: a failed fsync does not stop the store from writing.            *)
SyncFailsUnnoticed ==
  /\ stage = "syncing" /\ "io" \in Faults
  /\ stage' = "idle"
  /\ UNCHANGED <<proc, memory, disk, history>>

SyncFails ==
  /\ stage = "syncing" /\ "io" \in Faults
  /\ stage' = "idle"
  /\ persistenceErr' = TRUE
  /\ UNCHANGED <<proc, items, keyToID, records, disk, history>>

(* An identifier newID has not drawn before, here or in a lost history.    *)
Mentions(f, id) ==
  f # NoFile /\ \E i \in DOMAIN f.chunks : f.chunks[i].id = id

Fresh(id) ==
  /\ items[id] = Absent
  /\ \A f \in {journal, temp} \union shadows : ~Mentions(f, id)

(* checkAdmissionLocked: only new deliveries meet the size limit.          *)
Admitted == MaxJournal = 0 \/ Len(journal.chunks) + 1 <= MaxJournal

AdmissionFails ==
  /\ Serving /\ MaxJournal # 0 /\ "io" \in Faults
  /\ persistenceErr' = TRUE
  /\ UNCHANGED <<proc, stage, items, keyToID, records, disk, history>>

Create(id, key, content, now) ==
  /\ Fresh(id)
  /\ key \in Keys => keyToID[key] = NoId
  /\ Admitted
  /\ Write(<<DeliveryRecord(id, New(key, content, now))>>)

(* ClaimDueMatching with limit 1, the only one the worker uses; eligible   *)
(* stands for the caller's filter, which looks at the target alone.        *)
ClaimDue(eligible, now) ==
  LET candidates ==
        {id \in Live(items) : Due(items[id], now) /\ items[id].content \in eligible}
  IN \E id \in candidates :
       /\ \A other \in candidates \ {id} : SortsBefore(items, id, other)
       /\ items[id].attempts < AttemptBound
       /\ Write(<<DeliveryRecord(id, Claimed(items[id], now))>>)

Succeed(id, attempt, now) ==
  /\ id \in Live(items) /\ HoldsLease(items[id], attempt)
  /\ Write(<<DeliveryRecord(id, Succeeded(items[id], now))>>)

Fail(id, attempt, next, terminal, now) ==
  /\ id \in Live(items) /\ HoldsLease(items[id], attempt)
  /\ Write(<<DeliveryRecord(id, IF terminal THEN FailedForGood(items[id], now)
                                ELSE Rescheduled(items[id], next, now))>>)

Cancel(id, now) ==
  /\ id \in Live(items) /\ Cancelable(items[id])
  /\ Write(<<DeliveryRecord(id, Canceled(items[id], now))>>)

(* Mutant: Retry accepts any terminal delivery.                            *)
RetryTerminal(id, now) ==
  /\ id \in Live(items) /\ Terminal(items[id])
  /\ Write(<<DeliveryRecord(id, Retried(items[id], now))>>)

Retry(id, now) ==
  /\ id \in Live(items) /\ Retryable(items[id])
  /\ Write(<<DeliveryRecord(id, Retried(items[id], now))>>)

(* The deletions of one pass are one write, in the order of the ids.       *)
PruneTerminal(before) ==
  LET gone == {id \in Live(items) : Prunable(items[id], before)} IN
  /\ gone # {}
  /\ \E order \in [1 .. Cardinality(gone) -> gone] :
       /\ \A i, j \in DOMAIN order : i < j => order[i] < order[j]
       /\ Write([i \in DOMAIN order |-> DeleteRecord(order[i])])

-----------------------------------------------------------------------------
(* Compact, with the mutex held throughout.                                *)
CompactBegin ==
  /\ Serving
  /\ stage' = "snapshot" /\ temp' = EmptyFile
  /\ UNCHANGED <<proc, memory, journal, shadows, history>>

Written(f) == {f.chunks[i].id : i \in DOMAIN f.chunks}

CompactRecord(id) ==
  /\ stage = "snapshot"
  /\ id \in Live(items) \ Written(temp)
  /\ \A other \in Live(items) \ Written(temp) : id <= other
  /\ temp' = Extended(temp, <<DeliveryRecord(id, items[id])>>)
  /\ UNCHANGED <<proc, stage, memory, journal, shadows, history>>

(* A failure before the rename: the temporary file is removed.             *)
CompactFails ==
  /\ stage = "snapshot" /\ "io" \in Faults
  /\ stage' = "idle" /\ temp' = NoFile
  /\ UNCHANGED <<proc, memory, journal, shadows, history>>

(* Mutant: the rename does not wait for the whole snapshot.                *)
CompactRenameEarly ==
  /\ stage = "snapshot"
  /\ Cardinality(shadows) < ShadowBound
  /\ stage' = "renamed"
  /\ journal' = Synced(temp) /\ temp' = NoFile
  /\ shadows' = shadows \union {journal}
  /\ UNCHANGED <<proc, memory, history>>

(* temp.Sync and the rename: the old journal may come back until the       *)
(* directory is fsynced.                                                   *)
CompactRename ==
  /\ stage = "snapshot" /\ Live(items) \subseteq Written(temp)
  /\ Cardinality(shadows) < ShadowBound
  /\ stage' = "renamed"
  /\ journal' = Synced(temp) /\ temp' = NoFile
  /\ shadows' = shadows \union {journal}
  /\ UNCHANGED <<proc, memory, history>>

(* Both outcomes adopt the compacted file; a durable one is also the       *)
(* repair of a persistence failure.                                        *)
CompactDone ==
  /\ stage = "renamed"
  /\ stage' = "idle"
  /\ records' = Len(journal.chunks)
  /\ shadows' = {} /\ persistenceErr' = FALSE
  /\ unacked' = <<>> /\ settled' = TRUE
  /\ UNCHANGED <<proc, items, keyToID, journal, temp, promised>>

(* Mutant: a rename that is not durable counts as one that is.             *)
CompactDirSyncIgnored ==
  /\ stage = "renamed" /\ "io" \in Faults
  /\ stage' = "idle"
  /\ records' = Len(journal.chunks)
  /\ persistenceErr' = FALSE
  /\ UNCHANGED <<proc, items, keyToID, disk, history>>

CompactDirSyncFails ==
  /\ stage = "renamed" /\ "io" \in Faults
  /\ stage' = "idle"
  /\ records' = Len(journal.chunks)
  /\ persistenceErr' = TRUE
  /\ UNCHANGED <<proc, items, keyToID, disk, history>>

-----------------------------------------------------------------------------
Close ==
  /\ Serving
  /\ Stop
  /\ UNCHANGED <<disk, history>>

Kill ==
  /\ proc # "down" /\ "kill" \in Faults
  /\ Stop
  /\ temp' = Leftover
  /\ UNCHANGED <<journal, shadows, history>>

(* What the machine failing may leave of a file.                           *)
Survivors(f) ==
  IF f = NoFile THEN {NoFile}
  ELSE {[chunks |-> es, synced |-> Len(es)] : es \in Cuts(f.chunks, f.synced)}

PowerLoss ==
  /\ "power" \in Faults
  /\ \E f \in {journal} \union shadows : journal' \in Survivors(f)
  /\ temp' \in {Leftover, NoFile} /\ shadows' = {}
  /\ Stop
  /\ UNCHANGED history

-----------------------------------------------------------------------------
Open ==
  \/ OpenExisting
  \/ OpenNew
  \/ NewJournalSynced
  \/ NewJournalSyncFails
  \/ CleanupFails

Mutate ==
  /\ Serving
  /\ \E now \in Times :
       \/ \E id \in Ids :
            \/ \E key \in Keys \union {NoKey}, content \in Contents :
                 Create(id, key, content, now)
            \/ \E attempt \in 1 .. AttemptBound :
                 \/ Succeed(id, attempt, now)
                 \/ \E next \in Times, terminal \in BOOLEAN :
                      Fail(id, attempt, next, terminal, now)
            \/ Cancel(id, now)
            \/ Retry(id, now)
       \/ \E eligible \in SUBSET Contents : ClaimDue(eligible, now)
       \/ PruneTerminal(now)

Compact ==
  \/ CompactBegin
  \/ \E id \in Ids : CompactRecord(id)
  \/ CompactFails
  \/ CompactRename
  \/ CompactDone
  \/ CompactDirSyncFails

Next ==
  \/ Open
  \/ Mutate
  \/ AdmissionFails
  \/ SyncDone
  \/ SyncFails
  \/ Compact
  \/ Close
  \/ Kill
  \/ PowerLoss

Spec == Init /\ [][Next]_vars

-----------------------------------------------------------------------------
(* Every variable has its type, and every delivery in memory, promised or  *)
(* on disk a shape the transitions allow: a lease exactly in flight, a next*)
(* attempt exactly before the end.                                         *)
TypeOK ==
  /\ proc \in {"down", "creating", "up"}
  /\ stage \in {"idle", "syncing", "snapshot", "renamed"}
  /\ stage # "idle" => proc = "up"
  /\ items \in Tables /\ promised \in Tables
  /\ keyToID \in [Keys -> Ids \union {NoId}]
  /\ persistenceErr \in BOOLEAN
  /\ records \in Nat
  /\ journal \in Files \union {NoFile}
  /\ temp \in Files \union {NoFile}
  /\ shadows \subseteq Files \union {NoFile}
  /\ unacked \in Seq(Chunks)
  /\ settled \in BOOLEAN
  /\ proc # "down" => journal # NoFile
  /\ stage = "snapshot" => temp # NoFile

(* What the next Open would read, whenever the machine failed now.         *)
CrashImages(f) ==
  IF f = NoFile THEN {<<>>}
  ELSE WholeCuts(f.chunks, f.synced) \union TornCuts(f.chunks, f.synced)

(* Whenever the machine fails, appending, compacting or idle, and          *)
(* whichever file its directory comes back with, Open can read the journal *)
(* and finds every acknowledged operation, with at most a prefix of the    *)
(* one operation in doubt: appendDataLocked's write-fsync-apply order and  *)
(* Compact's write-fsync-rename-fsync order.                               *)
EveryCrashRecoverable ==
  settled =>
    \A f \in {journal} \union shadows : \A es \in CrashImages(f) :
      /\ Readable(es)
      /\ \E n \in 0 .. Len(unacked) :
           Replay(es) = Overlay(promised, Prefix(unacked, n))

(* Between operations a healthy store (Ready) has in memory exactly what   *)
(* its journal says, record for record, and what it says is durable under  *)
(* the journal's name: appendDataLocked before setLocked, failures sticky  *)
(* until a compaction has replaced the journal.                            *)
MemoryMatchesJournal ==
  Serving /\ ~persistenceErr =>
    /\ AllLines(journal.chunks) =>
         items = Replay(journal.chunks) /\ records = Len(journal.chunks)
    /\ settled => /\ AllLines(journal.chunks)
                  /\ journal.synced = Len(journal.chunks)
                  /\ shadows = {}

(* Between operations the store answers a repeated key from the one live   *)
(* delivery that carries it, and a key whose delivery was pruned is free:  *)
(* setLocked, deleteLocked and replay keep keyToID and items together.     *)
KeyIndexAgrees ==
  \A key \in Keys, id \in Ids :
    keyToID[key] = id <=> (items[id] # Absent /\ items[id].key = key)

(* Open brings back the acknowledged table, with at most a prefix of the   *)
(* operation that was in doubt, after any kill, failed fsync or power loss *)
(* of a process that had a whole and durable journal.                      *)
RecoveryKeepsPromises ==
  [][proc # "up" /\ proc' = "up" /\ settled =>
       \E n \in 0 .. Len(unacked) :
         items' = Overlay(promised, Prefix(unacked, n))]_vars

(* The acknowledged table changes as the abstract store's does: at an      *)
(* acknowledgement by the operation acknowledged, at a restart by what was *)
(* in doubt or by nothing, and never otherwise.                            *)
Promises == INSTANCE Spool WITH table <- promised
ImplementsSpool == Promises!Spec
(* No acknowledged claim passes over a delivery of the same target that    *)
(* was due earlier, expired leases included, whatever compactions and      *)
(* restarts came between: the candidates and the order of ClaimDueMatching.*)
ClaimsInOrder ==
  [][\A id \in Live(promised) \intersect Live(promised'), other \in Live(promised) :
       LET now == promised'[id].updatedAt IN
       /\ promised'[id] = Claimed(promised[id], now)
       /\ promised[other].content = promised[id].content
       /\ Due(promised[other], now)
       => promised[id].nextAttemptAt <= promised[other].nextAttemptAt]_promised

-----------------------------------------------------------------------------
(* What the documents say and the code does not keep; one run each.        *)

(* A stopped process leaves a journal the next one can open: docs/design.md *)
(* 45, "A final partial line is treated as an interrupted append and        *)
(* ignored".  replay leaves the partial line where it is, and O_APPEND      *)
(* glues the next record to it.                                            *)
JournalStaysReadable ==
  proc = "down" /\ journal # NoFile => Readable(journal.chunks)

(* A store that accepts mutations has no older journal the directory could *)
(* still come back with: docs/design.md 96, a failed directory fsync       *)
(* "blocks mutations until a later compaction repairs the durability       *)
(* boundary".  A restart also unblocks them, and repairs nothing.          *)
MutationsWaitForRepair ==
  Serving /\ ~persistenceErr => shadows \subseteq {NoFile}
============================================================================
