# spoold in TLA+

`spoold` accepts HTTP deliveries from local clients, writes them to an
append-only journal and sends them to their destinations until one answers with
a 2xx status or the delivery is given up. This directory holds a specification
of its core: TLA+ modules translated from the Go code, TLC configurations that
check them on small instances, and proofs, checked by TLAPS, of their main
safety properties for every instance.

`PROJECT.json` relates definitions to source lines, properties to runs, and
theorems to properties. Paths below are relative to the repository.

## 1. The system

| Component | State | Operations | Correct when |
| --- | --- | --- | --- |
| **store** `internal/store/store.go` | `items`, `keyToID`, `hashes`, the open journal, `records`, `persistenceErr`; on disk the journal and, during a compaction, a temporary file | `Open` (clean up, replay), `Create`, `ClaimDueMatching`, `Succeed`, `Fail`, `Cancel`, `Retry`, `PruneTerminal`, `Compact`, `Close`; reads | nothing acknowledged is lost by a crash; memory is what the journal says; a key names one live delivery; claims follow due dates |
| **delivery** `internal/delivery/delivery.go` | one record | `New`, `normalize`, `fingerprint`, `MarshalJSON`, `UnmarshalJSON`, the transitions | a lease exactly in flight, a due date exactly before the end; fingerprints agree exactly when requests do, before and after a restart |
| **worker pool** `internal/worker/worker.go` | workers; `activeTargets` under `claimMu` | `run`, `claimDue`, `deliver`, `send`, `releaseTarget`, `Backoff`, `Wait` | claims exclude each other; reservations are exact and bounded; outcomes are caused; delays double; deliveries end |
| **compactor** `internal/compactor/compactor.go` | a ticker, thresholds | `maintain`: repair, retention, compaction by size and redundancy | a failed store is repaired; history expires; a full journal admits deliveries again |
| **HTTP API** `internal/api/server.go` | none of its own | create, cancel, retry; get, list, health, metrics | each request is one store operation; a client is told what became of its submission |
| **daemon** `cmd/spoold/main.go` | process, listener, contexts, the name of the socket | start (inspect, dial, remove, bind, listen), serve, the order of shutdown, clean-up | what was answered survives an orderly stop; a listener keeps its name; a shutdown ends |
| **journal lock** `internal/store/lock_*.go` | an flock on a file that is never replaced | lock, unlock | one process per journal |
| **target client** `internal/target/client.go` | none | resolution, the filter of addresses, dialing, redirects, timeout | blocked addresses are never dialed, allowed ones all are before giving up |
| **spoolctl** `internal/spoolctl/spoolctl.go` | none | send and its repetition; get, list, retry, cancel | what it reports is true |
| buildinfo, example receiver, scripts, demo | none | - | - |

How they interact. API handlers, workers and compactor call the store, whose
one mutex makes its operations atomic to each other. Workers serialise
*choosing* a delivery with `claimMu`, and ask the store for a due delivery whose
target passes a filter on `activeTargets`; they record outcomes by delivery
identifier and attempt number. The compactor finds a store with a persistence
error and replaces its journal. `main` cancels one context on a signal, stops
the HTTP server, waits for the workers and the compactor, then closes the
journal. Everything in memory is rebuilt from the journal at the next start.

What is hard:

- **Crashes inside an operation.** An append is write, fsync, apply; a
  compaction is snapshot, fsync, rename, directory fsync, adopt. A kill, a power
  loss or an I/O error falls between any two steps, a write may stop inside a
  record, and an un-fsynced rename may be undone.
- **Failures that leave doubt.** After a failing write or fsync the journal may
  hold a record the caller was told had failed. The store refuses mutations
  until a compaction replaces the journal, or the process ends.
- **Outcomes out of time.** A lease expires under a worker that is still
  sending; another worker claims; the first answer, a cancellation, a manual
  retry and a restart arrive in any order. Only the attempt number tells claims
  apart, and `Retry` starts it again at zero.
- **Readings taken early.** A worker reads the clock before it waits for two
  mutexes and claims with the old reading.
- **Handover.** Two daemons share names in a file system: the journal's, which
  compaction moves to another file under its owner, and the socket's, which is
  inspected, removed and bound in separate system calls. A shutdown may close the
  journal under handlers that still run.
- **Forms of one request.** A body passes through `spoolctl`, the API's JSON, the
  journal's JSON and back; its fingerprint, of which there are two forms, must
  tell exactly the requests apart that differ.
- **Progress.** A hung target, a failed store, a cancelled context and lost
  leases must each leave the other deliveries able to move.

## 2. Modules

| Module | Extends | Models |
| --- | --- | --- |
| `Delivery` | - | the record and every transition the store makes on it, pure operators |
| `Spool` | `Delivery` | abstract: the table of acknowledged deliveries, each operation one step |
| `Store` | `Delivery` | the store with its journal, directory, faults and restarts |
| `Pool`, `MCPool` | `Delivery` | the workers, clients, repair, shutdown, crash and restart, over the table |
| `DeliveryProofs` | `Delivery` | transitions keep the shape of a delivery |
| `StoreProofs` | `Store`, `DeliveryProofs` | types of the store; replaying, cutting and extending a journal; crash safety |
| `SpoolProofs` | `StoreProofs` | `Store` implements `Spool`; keys and claims |
| `PoolProofs` | `Pool`, `DeliveryProofs` | types, reservations, leases, outcomes and attempt counts of the pool |
| `Maintenance` | - | the compactor over the sizes and counts of the journal |
| `MaintenanceProofs` | `Maintenance` | types; the journal is never shorter than its compaction |
| `Daemon` | - | processes from start to end, over journals, locks and one socket name |
| `DaemonProofs` | `Daemon` | one owner, answers kept, keys enqueued once, socket names |
| `Request` | - | submissions, decoding, normalization, fingerprints, JSON form, pure operators |
| `Attempt` | - | one attempt: resolution, dialing, redirects, outcome; `Backoff` |
| `Relay`, `MCRelay` | `Request`, `Attempt` | from client to target, with the store, its restarts and the worker between |
| `RequestProofs` | `Request` | fingerprints tell requests apart; bodies survive their encodings |
| `RelayProofs` | `Relay`, `RequestProofs` | answers, bodies, outcomes, delays and peers |

### Delivery

One model value of `Contents` stands for target, method, headers, body and
attempt limit, which never change after `delivery.New`, and for their
fingerprint. Times are naturals, 0 being `time.Time{}`. `lastError` and
`lastResponseCode` are only reported and are left out. Each transition (`New`,
`Claimed`, `Succeeded`, `FailedForGood`, `Rescheduled`, `Canceled`, `Retried`)
is the assignments of one store function; each guard (`Due`, `HoldsLease`,
`Cancelable`, `Retryable`, `Prunable`) its conditions.

### Store

`items`, `keyToID`, `persistenceErr`, `records` are the fields of those names
(`hashes` follows `items`). `proc` says whether a process runs; `stage` which
operation holds the mutex and how far it is; so an action is what one operation
does between two points at which a crash could tell the difference:

- every mutation (`Create`, `ClaimDue`, `Succeed`, `Fail`, `Cancel`, `Retry`,
  `PruneTerminal`) ends in `Write`, the first half of `appendDataLocked`: the
  records reach the file whole (`stage = "syncing"`), or partly, with
  `persistenceErr`. `SyncDone` is the fsync with the change to memory that
  follows it, `SyncFails` its failure;
- `CompactBegin`, `CompactRecord` (one per delivery), `CompactFails`,
  `CompactRename`, `CompactDone`, `CompactDirSyncFails` are `Compact`;
- `OpenExisting`, `OpenNew`, `NewJournalSynced`, `NewJournalSyncFails`,
  `CleanupFails` are `Open`, with `Load` for `replay`;
- `Close`, `Kill`, `PowerLoss` end the process.

A file is its chunks and how many of them are on stable storage. A chunk is a
record: a whole line, a record without its newline (`bare`), or a fragment
(`torn`). `Readable` and `Applied` say what `replay` accepts and applies: a
chunk glued to an unterminated one is a line that is not JSON. `shadows` are
older files the journal's name may still denote, from a rename until a
directory fsync. `PowerLoss` restores any of them, cut anywhere after its
durable prefix.

Three history variables speak of the callers: `promised`, the acknowledged
table; `unacked`, the records of the one operation in doubt; `settled`, whether
the journal was whole and durable when this process first relied on it. The
recovery properties are conditioned on `settled`; section 5 lists the ways in
which the code fails to reach it, each of which is a behaviour of the model.

### Pool

The store is here the table `Spool` describes: an operation takes effect at
once or fails and leaves the store unhealthy, its record perhaps coming back
with a restart (`inDoubt`). `pc` is where a worker stands in `run` and
`deliver`: waiting for its timer, claiming (clock already read, into
`readAt`), sending, recording, releasing, stopped. `job` is the copy it claimed.
`activeTargets` is the code's map. `claimDue` takes `claimMu` and the store's
mutex and releases both before it returns, so `Claim` is one action; everything
else interleaves. `Tick` passes time; a worker outlives its lease only as a
fault ("slow") or at a target that hangs. Ages are told from the present
(`Now` is fixed, times recede), so behaviours have no last moment.

### Maintenance

`maintain` calls the store several times, and the store's mutex is free between
the calls. `phase` is the call it makes next (`BeginPass` reads the clock and asks
`Ready`; `Prune...`; `Measure` with the rule of `compactIfNeeded`; `Compact...`), so
clients and workers change the store between what a pass reads and what it
does. The journal is here its length in bytes and its count of records, which
differ: a deletion is shorter than a delivery, and a failed append leaves bytes
that no record counts. `lag` is the time since the pass read the clock. The
configuration (`threshold`, `retention`) is chosen at the start.

### Daemon

`phase[p]` is the next thing process `p` does: every system call on a shared name
is a step of its own. `held` and `file` are files, not names: `Compact` moves the
journal's name to another file and takes the descriptor along, while the lock
stays on a file that nothing replaces. `socket` is the process whose socket the
name denotes, alive or not. `Gone` is what the kernel does at the end of a
process. `shared` says whether the processes were given one journal or one each.
`told`, `met` and `heard` are history: what clients know, and who was there when.

### Request, Attempt, Relay

`Request` is pure: `Message` is what `spoolctl send` makes of its arguments,
`Undecodable` and `Received` are `decodeJSON` and `requestBody`, `Normalized`,
`Fingerprint` (`LineForm` or `BinaryForm`), `Marshaled` and `Unmarshaled` are those of
`delivery.go`. A body is a sequence of pieces, of which some are texts of JSON
values; `ValueOf` is the one text a JSON body has, and `Tidy` what `json.Marshal`
makes of a text. What is hashed is a sequence of glyphs: pieces, numbers in
`Decimal`, the mark of the second form. `Joined` is the loop over the sorted names
of headers that both forms have. The hash itself is the identity. `Attempt` goes through
`client.Do` hop by hop: `Resolve`, then `Skip`, `DialFails` or `Connect` for each
address in turn, then an answer, a redirect or an interruption; `net/http` itself
is external and modelled as the client uses it. `Backoff` computes in
`DurationBits` bits; `TwoTo` gives the powers of two. `Relay` puts a store of one
key between them: `item` is the
delivery in memory, `record` its form in the journal, `Restart` reads the one from
the other. A client whose answer is lost asks again, and its first request may
still arrive. `sent` remembers whether the last attempt sent the body to anyone.

## 3. What TLC checks

| Run | Instance | Shows |
| --- | --- | --- |
| `store_faults` | 2 deliveries, every fault, journals of 2 records, 2 renames not yet durable | `TypeOK`, `EveryCrashRecoverable`, `MemoryMatchesJournal`, `RecoveryKeepsPromises` |
| `store_restart` | 2 deliveries, 1 key, failing I/O and kills, admission limit 2 | `ImplementsSpool`, `KeyIndexAgrees` |
| `store_claims` | 2 deliveries, 2 clock readings, 2 attempts, journals of 4 records | `ClaimsInOrder`, `EveryCrashRecoverable` with deletions written together |
| `pool_claims` | 3 workers, 2 at a target, one delivery with 2 attempts and a manual retry, any one fault | `TypeOK`, `ReservationsMatch`, `LeasesExclude`, `OutcomesHaveCause`, `AttemptsBounded` |
| `pool_ends` | 2 workers, 1 delivery, any two faults, fairness | `EveryDeliveryEnds` |
| `pool_hung` | 2 workers, 2 deliveries, one target that may never answer, fairness | `EveryDeliveryEnds` for the other |
| `maintenance` | 2 slots, admission limit 6 bytes, thresholds 0, 3, 7, retention 0 or 1, 2 failing disk operations, 1 retry; fairness | `TypeOK`, `CompactionNeverGrows`, `Repaired`, `HistoryExpires`, `RedundancyReclaimed`, `JournalReopens` |
| `daemon` | 2 processes, 3 files, 2 identifiers, one journal or two; fairness | `TypeOK`, `OneOwner`, `AcknowledgedKept`, `EnqueuedOnce`, `StartFailsForRivalsOnly`, `ListenerKeepsName`, `ShutdownEnds` |
| `relay` | 2 clients, 11 submissions, 2 claims, 2 hops, 3 addresses of which 1 is blocked, 3 statuses | `TypeOK`, `AnswersTrue`, `BodyKept`, `EndsForReason`, `DelaysDouble`, `TargetReached`, `AllAllowedDialed` |
| `store_torn_tail`, `store_lost_rename`, `pool_late` | one delivery each | a counterexample each: section 5 |

**The properties.** `EveryCrashRecoverable` looks at every state, in the middle
of operations too: for each file the directory may come back with and each
place a cut may fall, the image is readable and replays to the promised table
with at most a prefix of the operation in doubt. `RecoveryKeepsPromises` says
the same of what a start really loads. `MemoryMatchesJournal` ties memory to
journal in a store that accepts mutations. `ImplementsSpool` is the refinement
`table <- promised`: the acknowledged table changes by one abstract operation
at a time, through crashes and restarts. `KeyIndexAgrees` is an equivalence
between `keyToID` and `items`. `ClaimsInOrder` is an action property over
acknowledged tables. In `Pool`, `LeasesExclude` is mutual exclusion by lease,
of deliveries nobody retried by hand; `OutcomesHaveCause` relates terminal
statuses to what destinations answered; `AttemptsBounded` ties the overrun of
an attempt limit to the number of faults, for targets that answer (one that
hangs past its lease is claimed again through no fault of the pool);
`ReservationsMatch` counts.

In `Maintenance`, `JournalReopens` says that a full journal admits new deliveries
again, and states the configurations in which it does; `Repaired`,
`HistoryExpires` and `RedundancyReclaimed` are the other promises of a pass;
`CompactionNeverGrows` is why a compaction helps at all. In `Daemon`, `OneOwner` and
`EnqueuedOnce` hold across handovers in which the old process still runs handlers;
`AcknowledgedKept` is about answers given after the journal was closed;
`StartFailsForRivalsOnly` says that nothing a dead process left stops a start;
`ListenerKeepsName` lists the only steps that take a listener's name away. In
`Relay`, `AnswersTrue` says that "queued", "existing" and "conflict" each are true
of the requests, whatever their forms and whichever restart came between;
`BodyKept` says which bytes a target may get; `EndsForReason` relates the status of
a delivery to the last outcome; `DelaysDouble` bounds `Backoff` from both
sides by its mathematical definition; `TargetReached` says that no blocked address is
dialed on any hop, in vain or not, and that a delivery succeeds, or is given up with
attempts left, only by an attempt that sent its body; `AllAllowedDialed` says that no
allowed address is left out.

**Bounds, and why they are enough.** Store properties relate a journal to the
operation in doubt and to *one* other delivery, key holder or compaction record,
so two deliveries and one key give every pair. A journal of two records holds a
record with one before it, which a cut must spare, or a snapshot of two;
three let an operation follow two deliveries; four are what a snapshot of two
and the two deletions of one `PruneTerminal` need. `ShadowBound` is the number
of renames not yet durable: 2 in `store_faults`, so that a repair follows a
failed directory fsync and may fail again; 1 where the question is
another. `AttemptBound` 2 in `store_claims` lets an expired lease be claimed
again; elsewhere 1, as the store treats all attempt numbers alike. In `Pool` a lease can
be lost to one other worker; three workers let a third claim meet both. One
delivery suffices for properties of one delivery, `pool_hung` needs two. Two
attempts distinguish first, last and one too many. `FaultBound` counts faults,
`RetryBound` manual retries. The properties that are proved hold for every value of
these bounds; for the others the instances are the evidence.

In `maintenance` a record is two bytes and a deletion one, so that lengths and
counts differ; six bytes hold three records for two slots; the thresholds are
off, below and above the admission limit; two failures let a compaction fail after
a prune that followed a repair; `SizeBound` stops claims and retries from filling the journal
for ever. `daemon` has two processes because every property relates two;
three files are two journals and a compacted one, and files without a user are
used again. `relay`'s submissions are each way of giving a body, JSON tidy and not,
a string that grows when escaped, a body that imitates a header, headers under
two names, values with newlines, no limit and several. Durations of 8 bits put
the doubling of 70 beside the maximum of 100 and the width of the type, and that of
30 below both. The clients are symmetric, and no property names one.

**Deadlock** is checked wherever the system may not stop. `store_faults` and
`store_torn_tail` set `CHECK_DEADLOCK FALSE`: with a journal that no `Open` can
read the daemon is stopped for good (section 5). So does `maintenance`: with both
kinds of compaction off a failed store refuses everything for ever (also section 5);
and `relay`: clients that have their answers and a daemon without work are at rest.

**Fairness.** `Pool!FairSpec`, used by `EveryDeliveryEnds` only: weak fairness
of `Wake` (`time.Timer`), `ClaimStep`, `Record` and `Release` (Go mutexes hand
themselves over under contention, and each critical section ends); of `Answer`
(the HTTP client's timeout ends a request) except at a target in `Hung`, where
an answer is certain only after the context is cancelled; strong fairness of `Quit`, since
`select` chooses at random among ready cases and cannot pass over a cancelled
context for ever; weak fairness of `Repair` (the maintenance ticker, running in
the default configuration), `Stopped`, `Tick` and `Start` (a stopped daemon is
started again: the service manager's part). Nothing is assumed of clients,
faults, or which delivery a claim takes. `Maintenance`: weak fairness of `Pass` (a
ticker, and calls that return), of `Tick` (time passes) and of each `End` (what
`EveryDeliveryEnds` shows of the pool); disk failures are finitely many, by
`FaultBound`. `Daemon!FairSpec`: weak fairness of `Drain` (Shutdown's timeout), `Quit`
(goroutines see the cancelled context), `Close` and `CleanUp` (the main goroutine is
scheduled); nothing is assumed of handlers, whose clients may be slow for ever.

## 4. What is proved

All for every value of the constants that satisfies the named assumptions
(`IdsAssumption`, `TimeAssumption`, `PoolAssumption`, ...): any finite set of
identifiers, any workers, keys, contents, bounds and faults. One process at a
time is part of `Store` itself, and rests on the journal lock.

| Theorem | Module | States |
| --- | --- | --- |
| `TypeCorrect` | `StoreProofs` | `Spec => []TypeOK` |
| `CrashSafety` | `StoreProofs` | `Spec => []EveryCrashRecoverable` |
| `MemoryIsJournal` | `StoreProofs` | `Spec => []MemoryMatchesJournal` |
| `RecoverySafety` | `StoreProofs` | `Spec => RecoveryKeepsPromises` |
| `KeysAreUnique` | `SpoolProofs` | `Spec => []KeyIndexAgrees` |
| `StoreImplementsSpool` | `SpoolProofs` | `Faults \subseteq {"io", "kill"}` implies `Spec => ImplementsSpool` |
| `ClaimsAreOrdered` | `SpoolProofs` | `Faults \subseteq {"io", "kill"}` implies `Spec => ClaimsInOrder` |
| `PoolTypeCorrect` | `PoolProofs` | `Spec => []TypeOK` |
| `ReservationsExact` | `PoolProofs` | `Spec => []ReservationsMatch` |
| `ClaimsExclude` | `PoolProofs` | `Spec => []LeasesExclude` |
| `OutcomesJustified` | `PoolProofs` | `Spec => []OutcomesHaveCause` |
| `AttemptsCounted` | `PoolProofs` | `LeaseDuration >= Now` implies `Spec => []AttemptsBounded` |
| `DaemonTypeCorrect` | `DaemonProofs` | `Spec => []TypeOK` |
| `JournalHasOneOwner` | `DaemonProofs` | `Spec => []OneOwner` |
| `AnswersSurvive` | `DaemonProofs` | `Spec => []AcknowledgedKept` |
| `KeyEnqueuedOnce` | `DaemonProofs` | `Spec => []EnqueuedOnce` |
| `StartsFailForRivals` | `DaemonProofs` | `Spec => StartFailsForRivalsOnly` |
| `ListenersKeepNames` | `DaemonProofs` | `Spec => ListenerKeepsName` |
| `MaintenanceTypeCorrect` | `MaintenanceProofs` | `Spec => []TypeOK` |
| `CompactionShrinks` | `MaintenanceProofs` | `Spec => []CompactionNeverGrows` |
| `FingerprintTells` | `RequestProofs` | normalized requests with one fingerprint are one request |
| `RelayTypeCorrect` | `RelayProofs` | `Spec => []TypeOK` |
| `AnswersAreTrue` | `RelayProofs` | `Spec => []AnswersTrue` |
| `BodiesAreKept` | `RelayProofs` | `Spec => []BodyKept` |
| `DeliveriesEndForReason` | `RelayProofs` | `Spec => []EndsForReason` |
| `DelaysAreDoubled` | `RelayProofs` | `Spec => []DelaysDouble` |
| `TargetsAreReached` | `RelayProofs` | `Spec => []TargetReached` |
| `AllAllowedAreDialed` | `RelayProofs` | `Spec => AllAllowedDialed` |

**The store.** `EveryCrashRecoverable` is not inductive: it speaks of replays of
cut journals, while a step extends the journal or replaces it. `StoreProofs!IInv`
says *where* in each file the promised part ends (`Recoverable`: a durable prefix
of whole lines replays to `promised`, and what follows is an initial part of
`unacked`, the last record perhaps cut) and adds what makes steps keep this:

- `Remembering`: memory is `promised`, and a store that neither failed nor is
  writing has nothing in doubt, so a new write cannot bury an older doubt;
- `Appending`: between write and fsync the journal is the old journal followed
  by `unacked`, so the fsync makes exactly the acknowledged table durable;
- `Compacting`: the snapshot's records are those of `items`, so a complete
  snapshot replays to `items`, whatever order and duplicates there were;
- `Durable`: the recoverability of every file the journal's name may denote.

The lemmas on journals carry the data part: replay of a prefix extended by records is
the overlay of those records (`ContinuedReplay`), a cut of a recoverable file is
recoverable (`CutContinues`), a snapshot replays to what it copies
(`SnapshotReplays`). These facts are proved for all sequences without induction:
replay is defined by the last applied record that mentions an identifier, which
exists because a non-empty bounded set of positions has a greatest element.
`IInv` was first checked with TLC as an invariant of the three store instances.

`SpoolProofs` adds two invariants, checked with TLC in the same way. `KeysInv` is for
all faults: what is in doubt is one operation a caller may have asked for
(`Operation`), and along the records of every file the journal's name may denote a
delivery keeps its key, and a key passes to another delivery only after a record
deletes its holder (`KeysApart`). The second part is what replay needs, which follows
the records and not the table (`IndexReplayed`); it survives cuts (`ApartSurvives`) and
appends (`ApartExtended`), because a new delivery has an identifier no file mentions and
a key the index, and hence the table, does not have. `Lossless` says of a journal
without cut records that it replays to `promised` with a first part of `unacked`. Then
`promised` changes by such a part of one operation only (`TableStep`), which is one step
of `Spool` (`StepImplements`) and, when it is a claim, the claim of the delivery due
first (`StepClaims`).

The assumption on the faults is needed, and is the code's: a power loss takes back what a
restart served before any fsync (section 5, items 4 and 5), and a cut record may glue to
a complete one without newline that a restart has served (item 1).

**The pool.** `PoolProofs!IInv` is the type invariant, the reservations, and
`Dated`: a worker that records has a date for the next attempt, without which
`Rescheduled` could write a pending delivery that never becomes due. Only a
claim, a release and the end of the process change who is busy; the first two
change a set by one worker and a counter by one.

`SafetyInv` goes on from there. It is: `Known`, that what a worker or a
record in doubt speaks of exists with the same content, and that a healthy store
has nothing in doubt; `CauseInv`, the reasons of outcomes, those that are
still in doubt or in a worker's hands included; `ReadingsPast`, that a clock
reading is not in the future; `LeaseInv`, which says of a claim made in a
delivery's first cycle that the table has moved on from it only if its lease had
run out (`First`, `Valid`, `Untouched`). `LeasesExclude` follows: two valid leases
would both be the table's. `CountInv` counts: each worker still inside a
claim whose attempt the table no longer carries, and each attempt beyond the
limit, is paid for by a fault (`Room`, `Within`, `Short`; by `Attended`, a delivery in
flight at its limit still has its worker, with a valid lease, in a healthy store). The
assumption of `AttemptsCounted` says that a worker waits for `claimMu` and the store
no longer than a lease: a claim granted with its lease already over would be
claimed again without any fault, and that happens (hazards, `worker.go:115`).

**The daemon.** `DaemonProofs!IInv` is the type invariant and: `LocksExclude` (a
lock file, whose name is never moved, has one holder), `JournalsApart` (two
journals never denote one file, a new file being unused), `OpenAgrees` (a process
with a journal open has open the file the name denotes, and is its lock's
holder), `MemoryKept` (its memory is that file's contents, as long as it is open; a handler that outlives the close
answers from a memory whose deliveries the file still has), `OneEach` (one
delivery per file). A lock on the journal itself would break the first of these at the
first compaction, which is the mutant of the run.

For the names of the socket, two more: `HeardSettled` (who was listening when p
started is not starting, unless it began anew since, and p never comes to remove the name
of one that still listens), and `Undisturbed` (a process that met no other
finds the name as its own last step left it).

**The compactor.** `CompactionNeverGrows` is inductive with the type invariant. A
mutation adds one delivery or none and appends one record; a failed append only
lengthens the file; a pruning appends while deliveries go; a compaction leaves
exactly what it wrote. The rest is counting: `FewerBytes`, `OneMore`.

**Requests.** `FingerprintTells` says that what is hashed determines the request, so
that a collision of SHA-256, which the model leaves out, is the only way to one
fingerprint for two requests. In the form of lines (`LineFormTells`) a value has no
newline, so the first newline ends a header (`LineSplits`); the headers end where no
name and colon follow, for a body hashed in this form is a JSON value or nothing and
begins with no name. In the binary form (`BinaryFormTells`) the count of
headers and the size before each field say where it ends (`FieldSplits`,
`SizeOfMore`), which works for every body, one that imitates a header included. The two
forms differ in their first glyph. The names are gone through from the last to the first, with
an induction over how many were. `BodySurvives` and `TidiedAlike` are what a body keeps
through `MarshalJSON` and `UnmarshalJSON`.

The library's induction theorems take an operator and cannot be used with this
prover. Induction is stated here for sets (`Induction`: a set of naturals that
has 0 and the successor of each member has them all), from the well-foundedness of
the order on the naturals; recursive functions are shown to exist by
`StepsDefine`, for functions that step from one value to the next.

**The relay.** `RelayInv` is: `AsksOK`, that who waits has a submission; `StoredOK`, that
memory holds the first request or its tidied form (`Made`) with the hash of the first,
and the journal what `Marshaled` makes of memory; `WorkOK`, that the worker holds and
sends what memory holds; `AttemptOK`, that the addresses passed over were dialed or are
blocked; and two of the properties, `AnswersTrue` and `EndsForReason`. It was checked with TLC
as an invariant of the relay's instance. A hash that a restart computed again from the tidied
body would break `StoredOK`, which is one of the run's mutants. `DelaysDouble` rests
on `BackoffDoubles`: one round of the loop keeps `Least(max, base * TwoTo[n])`
(`DoubledDoubles`), and no sum of it reaches the largest duration (`WrappedSame`).
`TargetReached` needs `HopOK` beside it, also checked with TLC: the first hop carries the body until it is
sent, and whatever follows a request, a later hop or a status, follows one that was sent.

The assumptions of these theorems, and why the code justifies them:

- `RequestAssumption`: a number in a fingerprint counts or measures parts of one
  message, whose size is limited (`MaxMessage`), and decimal texts of different numbers
  differ, and from "v2"; header names are sorted and distinct, and no JSON text begins with
  a name and a colon (it begins with `{`, `[`, a quote, a digit, `-`, or is `true`, `false` or
  `null`, which a colon cannot follow);
- `RelayAssumption`: the headers of a submission fit a message, in size and in number;
- `AttemptAssumption`: base and maximum of the backoff are below five sixths of the largest
  duration (`main` leaves one second and five minutes in place, of 292 years);
- `MaintenanceAssumption`: records have at least one byte, and there are finitely many
  deliveries.

**Only model-checked:** the liveness properties (`EveryDeliveryEnds`, `Repaired`,
`HistoryExpires`, `RedundancyReclaimed`, `JournalReopens`, `ShutdownEnds`), because liveness
under fairness, and `ENABLED`, are beyond the prover used here. Every invariant and every
action property of a passing run is a theorem. The refinement `ImplementsSpool` and the claim
order are proved for failing I/O and kills, and are false with a power loss (section 5). The
three runs with a counterexample show what is not true of the code, so there is nothing to prove.

## 5. Where the code and its documents differ

Each of the first three is a run with a counterexample.

1. **A torn tail is not repaired** (`store_torn_tail`). `docs/design.md:45` says
   a final partial line is "ignored", and replay ignores it, but it stays in the file
   (`store.go:638`). The next append is glued to it; the restart after that
   finds an undecodable line in the middle and refuses to start.
2. **A restart unblocks what only a repair may** (`store_lost_rename`).
   `docs/design.md:96`: a failed directory fsync "blocks mutations until a later
   compaction repairs the durability boundary". `persistenceErr` is in memory
   only; after a restart mutations are accepted in a journal whose name may
   still revert.
3. **A late worker may overwrite a newer claim** (`pool_late`).
   `docs/design.md:112` says the attempt number excludes it; `Retry`
   (`store.go:343`) starts the numbers again, and a worker of the earlier cycle
   may hold the number of a newer claim.

Met while modelling, in the models, without a run of their own:

4. A process killed between creating the journal and the directory's fsync
   (`store.go:112`) leaves a file that the next `Open` takes for an existing
   one: it does not fsync the directory either. This is a start that is not
   `settled`.
5. `Open` serves records that a killed process wrote and never fsynced; nothing
   fsyncs them before the next append. Also not `settled`.
6. A shutdown cancels requests in flight, and `deliver` counts that as a failed
   attempt: a last attempt cut by a shutdown is recorded as failed for good.
7. `ClaimDueMatching` does not look at the attempt limit, so a crash or an
   expired lease on the last attempt leads to one attempt more
   (`AttemptsBounded` is the exact statement).
8. A JSON body comes back from the journal compacted and HTML-escaped
   (`delivery.go:110`), so that the body sent after a restart may differ in its
   bytes, and `spoolctl send --data` does the same before it sends;
   `docs/launch-readiness.md:57` has payloads "round-tripped losslessly".
   `BodyKept` is the exact statement.
9. `spoolctl` reads at most 2 MiB of an answer, and the answer to a submission
   repeats the body, escaped. A JSON body sent with `--data-binary` that is full of
   `<` is queued and reported as "response exceeds size limit", at each repetition
   (`Relay!TooLong`); the same body with `--data` exceeds the request's limit.
10. With a retention and no size trigger below the admission limit
    (`Maintenance!TriggerBeforeLimit`), one failed compaction after a pruning can
    leave a full journal full for ever: the next pass finds nothing to prune, and
    nothing new is admitted that could be pruned later.
11. With size-based compaction and retention both off the compactor does not
    start, and nothing repairs a persistence failure but a restart.
12. A listener may lose its socket's name in two windows: to a start that
    inspected the name before it listened, and to the clean-up of a process that
    has already released its journal (`Daemon!ListenerKeepsName`).
13. A 301, 302 or 303 answer turns the request into a GET without body, and a 2xx
    answer to that is recorded as a success (`Attempt!Redirect`). `TargetReached` is what
    such a success is worth: an earlier hop of the same attempt got the body.

## 6. What is not modelled

- API reads (get, list, counts, health, readiness, metrics) and `spoolctl get` and
  `list`: they change no state. `spoolctl retry` and `cancel` are one request each,
  with the effect of the API's; printing, flags, logging, error texts.
- Target URL and method, which `normalize` checks and trims, are one value in all
  requests, and there is one key in `Request`; keys apart are in `Store`.
- Which addresses `blocked` refuses: a constant of `Attempt`. Connections that are kept
  open were dialed before, and are not dialed again.
- Messages that `create` refuses for their form alone: base64 that is none, unknown
  fields, text after the JSON value. They change no state.
- The rounding of the jitter, which the code computes in floating point and `Backoff`
  in thousandths, rounded down.
- Further requests on a connection that was kept open while the daemon stops: in `Daemon`
  they are handlers that already run.
- TCP listeners share no name and are left out of `Daemon`, where writes do not fail
  either: failing writes are in `Store`.
- Byte sizes, except in `Maintenance`; in `Store` the admission limit counts records.
- Retention and claim order are in `Store` and not in `Pool`, where retention concerns
  terminal deliveries only and any due delivery may be taken.
- File-system semantics beyond section 2 (reordered blocks within a file, a failed
  fsync that drops what was durable).
- `lock_other.go` (refuses every start), build information, the example receiver,
  scripts and the demo: no behaviour of the system.

## 7. Plan

Done: the store with its faults, the abstract spool, the pool, the compactor, the
daemon with the journal lock, requests and attempts from client to target; the
theorems of section 4, which leave no safety property of a passing run unproved.

Left: the step from `Pool`, where `send` has four outcomes and `Backoff` any delay, to
`Attempt`, stated as a refinement; and a `Spool` with the power loss in it, as an abstract
specification of what a start that is not `settled` may take back.
