---------------------------- MODULE DaemonProofs ----------------------------
(***************************************************************************)
(* For any number of daemons on one socket path, with one journal or one   *)
(* each: one process at a time has a journal open, what a client was told  *)
(* is in the journal, and a key is enqueued once, whatever the order in    *)
(* which they start, stop, compact and are killed; a start fails only for  *)
(* a rival, and a listener loses its socket's name only in the two windows *)
(* the start and the clean-up leave open.                                  *)
(***************************************************************************)
EXTENDS Daemon, FiniteSetTheorems, TLAPS

(* A lock is on the lock file of the holder's journal and has one holder.  *)
LocksExclude ==
  \A p \in Processes : held[p] # NoFile =>
    /\ held[p] = JournalOf(p)
    /\ \A q \in Processes : held[q] = held[p] => q = p

(* Two journals never share a file: a compaction takes an unused one.      *)
JournalsApart == \A i, j \in Journals : journal[i] = journal[j] => i = j

(* Who has a journal open has the file of that name, and remembers it.     *)
OpenAgrees ==
  \A p \in Processes : file[p] # NoFile =>
    /\ file[p] = journal[JournalOf(p)]
    /\ memory[p] = contents[file[p]]

(* What a handler may still answer from a closed store is in the journal.  *)
MemoryKept == \A p \in Processes : memory[p] \subseteq contents[journal[JournalOf(p)]]

OneEach == \A j \in Journals : \A x, y \in contents[journal[j]] : x = y

IInv ==
  /\ TypeOK
  /\ LocksExclude /\ JournalsApart /\ OpenAgrees
  /\ MemoryKept /\ AcknowledgedKept /\ OneEach

-----------------------------------------------------------------------------
(* A process's journal is a journal.                                       *)
LEMMA JournalOfType == \A p \in Processes : JournalOf(p) \in Journals
BY DEF JournalOf, Journals

(* A process's journal does not change while it is the same command.       *)
LEMMA JournalOfStays ==
  ASSUME UNCHANGED shared
  PROVE  \A p \in Processes : JournalOf(p)' = JournalOf(p)
BY DEF JournalOf

(* Two processes that have a journal open have different ones.             *)
LEMMA OpenExcludes ==
  ASSUME IInv, NEW p \in Processes, NEW q \in Processes,
         file[p] # NoFile, file[q] # NoFile, JournalOf(p) = JournalOf(q)
  PROVE  p = q
<1>1. held[p] # NoFile /\ held[q] # NoFile
  BY DEF IInv, TypeOK
<1> QED BY <1>1 DEF IInv, LocksExclude

-----------------------------------------------------------------------------
(* At the start nothing is open, and the journals are in different files.  *)
LEMMA InitHolds == Init => IInv
<1> SUFFICES ASSUME Init PROVE IInv
  OBVIOUS
<1>1. TypeOK
  BY DEF Init, TypeOK, Starting, Running
<1>2. JournalsApart
  <2> SUFFICES ASSUME NEW i \in Journals, NEW j \in Journals, i # j
               PROVE  journal[i] # journal[j]
    BY DEF JournalsApart
  <2>1. i \in Nat /\ j \in Nat /\ journal[i] \in Nat /\ journal[j] \in Nat
    BY <1>1, DaemonAssumption DEF Journals, TypeOK
  <2>2. \A k, l \in Journals : k < l => journal[k] < journal[l]
    BY DEF Init
  <2> QED BY <2>1, <2>2
<1>3. LocksExclude /\ OpenAgrees
  BY DEF Init, LocksExclude, OpenAgrees
<1>4. MemoryKept /\ AcknowledgedKept
  BY DEF Init, MemoryKept, AcknowledgedKept
<1>5. OneEach
  BY <1>1 DEF Init, OneEach, TypeOK
<1> QED BY <1>1, <1>2, <1>3, <1>4, <1>5 DEF IInv

(* A step that leaves the stores and the clients alone keeps their parts.  *)
LEMMA StoresUntouched ==
  ASSUME IInv, UNCHANGED <<shared, stores, told>>
  PROVE  (LocksExclude /\ JournalsApart /\ OpenAgrees
          /\ MemoryKept /\ AcknowledgedKept /\ OneEach)'
<1>1. \A p \in Processes : JournalOf(p)' = JournalOf(p)
  BY JournalOfStays
<1>2. LocksExclude' /\ JournalsApart' /\ OpenAgrees'
  BY <1>1 DEF IInv, LocksExclude, JournalsApart, OpenAgrees, stores
<1>3. MemoryKept' /\ AcknowledgedKept' /\ OneEach'
  BY <1>1 DEF IInv, MemoryKept, AcknowledgedKept, OneEach, stores
<1> QED BY <1>2, <1>3

(* A store that closes, with its memory lost or kept for the handlers.     *)
LEMMA ClosedHolds ==
  ASSUME IInv, NEW p \in Processes, Closed(p), UNCHANGED <<shared, told>>,
         memory' \in {memory, [memory EXCEPT ![p] = {}]}
  PROVE  (LocksExclude /\ JournalsApart /\ OpenAgrees
          /\ MemoryKept /\ AcknowledgedKept /\ OneEach)'
<1> USE DEF IInv, TypeOK, Closed
<1>1. \A q \in Processes : JournalOf(q)' = JournalOf(q)
  BY JournalOfStays
<1>2. \A q \in Processes \ {p} :
        held'[q] = held[q] /\ file'[q] = file[q] /\ memory'[q] = memory[q]
  OBVIOUS
<1>3. held'[p] = NoFile /\ file'[p] = NoFile /\ memory'[p] \in {{}, memory[p]}
  OBVIOUS
<1>4. LocksExclude' /\ JournalsApart'
  BY <1>1, <1>2, <1>3 DEF LocksExclude, JournalsApart
<1>5. OpenAgrees'
  BY <1>1, <1>2, <1>3 DEF OpenAgrees
<1>6. MemoryKept' /\ AcknowledgedKept' /\ OneEach'
  BY <1>1, <1>2, <1>3 DEF MemoryKept, AcknowledgedKept, OneEach
<1> QED BY <1>4, <1>5, <1>6

(* The end of a process, its types included.                               *)
LEMMA GoneHolds ==
  ASSUME IInv, NEW p \in Processes, Gone(p),
         socket' \in Processes \union {NoSocket, NotASocket}
  PROVE  IInv'
<1>1. TypeOK'
  BY DEF IInv, TypeOK, Gone, Goes, Closed, Starting, Running
<1>2. (LocksExclude /\ JournalsApart /\ OpenAgrees
       /\ MemoryKept /\ AcknowledgedKept /\ OneEach)'
  BY ClosedHolds DEF Gone
<1> QED BY <1>1, <1>2 DEF IInv

-----------------------------------------------------------------------------
(* acquireJournalLock: the lock was free, so nobody else has the journal.  *)
LEMMA LockHolds == ASSUME IInv, NEW p \in Processes, Lock(p) PROVE IInv'
<1> USE DEF Lock
<1>1. TypeOK'
  <2>1. LockedFile(p) \in Processes
    BY JournalOfType DEF LockedFile, LockFile, Journals
  <2>2. LockedFile(p) # NoFile
    BY <2>1, DaemonAssumption
  <2>3. met' \in [Processes -> BOOLEAN] /\ heard' \in [Processes -> SUBSET Processes]
    BY DEF IInv, TypeOK
  <2>4. phase' \in [Processes -> {"down", "closed"} \union Starting \union Running]
    BY DEF IInv, TypeOK, Goes, Starting
  <2>5. \A q \in Processes :
          /\ held'[q] # NoFile <=> phase'[q] \in Starting \union Running
          /\ file'[q] # NoFile <=> phase'[q] \in (Starting \ {"opening"}) \union Running
          /\ background'[q] => phase'[q] \in Running
          /\ handler'[q] # "none" => phase'[q] \in Running \union {"closed"}
          /\ listening'[q] => phase'[q] \in {"securing", "abandoning", "serving"}
    BY <2>2 DEF IInv, TypeOK, Goes, Starting, Running, names, server
  <2> QED BY <2>1, <2>3, <2>4, <2>5 DEF IInv, TypeOK, names, server
<1>2. \A q \in Processes : JournalOf(q)' = JournalOf(q)
  BY JournalOfStays
<1>3. LocksExclude'
  BY <1>2 DEF IInv, TypeOK, LocksExclude, LockedFile, LockFile
<1>4. JournalsApart' /\ OpenAgrees' /\ MemoryKept'
  BY <1>2 DEF IInv, JournalsApart, OpenAgrees, MemoryKept
<1>5. AcknowledgedKept' /\ OneEach'
  BY DEF IInv, AcknowledgedKept, OneEach, server
<1> QED BY <1>1, <1>3, <1>4, <1>5 DEF IInv

(* The journal is opened and replayed.                                     *)
LEMMA OpenHolds == ASSUME IInv, NEW p \in Processes, Open(p) PROVE IInv'
<1> USE DEF Open
<1>0. JournalOf(p) \in Journals
  BY JournalOfType
<1>1. TypeOK'
  <2>1. journal[JournalOf(p)] \in Files /\ journal[JournalOf(p)] # NoFile
    BY <1>0, DaemonAssumption DEF IInv, TypeOK
  <2> QED BY <2>1 DEF IInv, TypeOK, Goes, Starting, Running, names, server, seen
<1>2. \A q \in Processes : JournalOf(q)' = JournalOf(q)
  BY JournalOfStays
<1>3. LocksExclude' /\ JournalsApart'
  BY <1>2 DEF IInv, LocksExclude, JournalsApart
<1>4. OpenAgrees'
  BY <1>2 DEF IInv, TypeOK, OpenAgrees
<1>5. MemoryKept' /\ AcknowledgedKept' /\ OneEach'
  BY <1>2 DEF IInv, TypeOK, MemoryKept, AcknowledgedKept, OneEach, server
<1> QED BY <1>1, <1>3, <1>4, <1>5 DEF IInv

(* A new delivery: the store had none, so the journal had none.            *)
LEMMA CreateNewHolds == ASSUME IInv, NEW p \in Processes, CreateNew(p) PROVE IInv'
<1> USE DEF CreateNew
<1>0. PICK id \in Ids :
        /\ memory' = [memory EXCEPT ![p] = {id}]
        /\ contents' = [contents EXCEPT ![file[p]] = @ \union {id}]
  OBVIOUS
<1>1. file[p] \in Files /\ file[p] = journal[JournalOf(p)] /\ contents[file[p]] = {}
  BY DEF IInv, TypeOK, OpenAgrees
<1>2. \A q \in Processes : JournalOf(q)' = JournalOf(q) /\ JournalOf(q) \in Journals
  BY JournalOfStays, JournalOfType
<1>3. \A f \in Files : contents'[f] = IF f = file[p] THEN {id} ELSE contents[f]
  <2>1. contents \in [Files -> SUBSET Ids]
    BY DEF IInv, TypeOK
  <2>2. contents' = [contents EXCEPT ![file[p]] = {id}]
    BY <1>0, <1>1
  <2> QED BY <1>1, <2>1, <2>2
<1>4. \A q \in Processes : memory'[q] = IF q = p THEN {id} ELSE memory[q]
  BY <1>0 DEF IInv, TypeOK
<1>5. \A j \in Journals : journal[j] \in Files
  BY DEF IInv, TypeOK
<1>6. TypeOK'
  BY <1>0 DEF IInv, TypeOK, Starting, Running, names, seen
<1>7. LocksExclude' /\ JournalsApart'
  BY <1>2 DEF IInv, LocksExclude, JournalsApart
<1>8. OpenAgrees'
  <2> SUFFICES ASSUME NEW q \in Processes, file[q] # NoFile
               PROVE  file[q] = journal[JournalOf(q)] /\ memory'[q] = contents'[file[q]]
    BY <1>2 DEF OpenAgrees
  <2>1. file[q] \in Files /\ file[q] = journal[JournalOf(q)] /\ memory[q] = contents[file[q]]
    BY DEF IInv, TypeOK, OpenAgrees
  <2>2. file[q] = file[p] => q = p
    BY <1>1, <1>2, <2>1, OpenExcludes DEF IInv, JournalsApart
  <2> QED BY <1>3, <1>4, <2>1, <2>2
<1>9. MemoryKept'
  BY <1>1, <1>2, <1>3, <1>4, <1>5 DEF IInv, MemoryKept
<1>10. AcknowledgedKept'
  BY <1>1, <1>3, <1>5 DEF IInv, AcknowledgedKept
<1>11. OneEach'
  BY <1>3, <1>5 DEF IInv, OneEach
<1> QED BY <1>6, <1>7, <1>8, <1>9, <1>10, <1>11 DEF IInv

(* An answer tells a client what the handler's store holds.                *)
LEMMA AnswerHolds == ASSUME IInv, NEW p \in Processes, Answer(p) PROVE IInv'
<1> USE DEF Answer, stores
<1>1. TypeOK'
  <2>1. told' \in [Journals -> SUBSET Ids]
    BY JournalOfType DEF IInv, TypeOK
  <2> QED BY <2>1 DEF IInv, TypeOK, Starting, Running, names, seen
<1>2. \A q \in Processes : JournalOf(q)' = JournalOf(q)
  BY JournalOfStays
<1>3. LocksExclude' /\ JournalsApart' /\ OpenAgrees' /\ MemoryKept'
  BY <1>2 DEF IInv, LocksExclude, JournalsApart, OpenAgrees, MemoryKept
<1>4. AcknowledgedKept'
  BY JournalOfType DEF IInv, TypeOK, AcknowledgedKept, MemoryKept
<1>5. OneEach'
  BY DEF IInv, OneEach
<1> QED BY <1>1, <1>3, <1>4, <1>5 DEF IInv

(* A compaction moves one journal's name to an unused file.                *)
LEMMA CompactHolds == ASSUME IInv, NEW p \in Processes, Compact(p) PROVE IInv'
<1> USE DEF Compact
<1>0. PICK f \in Unused :
        /\ journal' = [journal EXCEPT ![JournalOf(p)] = f]
        /\ contents' = [contents EXCEPT ![f] = memory[p], ![file[p]] = {}]
        /\ file' = [file EXCEPT ![p] = f]
  OBVIOUS
<1>1. /\ f \in Files /\ f # NoFile
      /\ \A j \in Journals : f # journal[j]
      /\ \A q \in Processes : f # file[q]
  BY <1>0, DaemonAssumption DEF Unused
<1>2. file[p] \in Files /\ file[p] = journal[JournalOf(p)] /\ memory[p] = contents[file[p]]
  BY DEF IInv, TypeOK, OpenAgrees
<1>3. \A q \in Processes : JournalOf(q)' = JournalOf(q) /\ JournalOf(q) \in Journals
  BY JournalOfStays, JournalOfType
<1>4. \A j \in Journals : journal'[j] = IF j = JournalOf(p) THEN f ELSE journal[j]
  BY <1>0, <1>3 DEF IInv, TypeOK
<1>5. \A j \in Journals : contents'[journal'[j]] = contents[journal[j]]
  <2> SUFFICES ASSUME NEW j \in Journals PROVE contents'[journal'[j]] = contents[journal[j]]
    OBVIOUS
  <2>1. CASE j = JournalOf(p)
    <3>1. f # file[p] /\ contents'[f] = memory[p]
      BY <1>0, <1>1 DEF IInv, TypeOK
    <3> QED BY <1>2, <1>4, <2>1, <3>1
  <2>2. CASE j # JournalOf(p)
    <3>1. journal[j] \in Files /\ journal[j] # file[p] /\ journal[j] # f
      BY <1>1, <1>2, <1>3, <2>2 DEF IInv, TypeOK, JournalsApart
    <3>2. contents'[journal[j]] = contents[journal[j]]
      BY <1>0, <3>1 DEF IInv, TypeOK
    <3> QED BY <1>4, <2>2, <3>2
  <2> QED BY <2>1, <2>2
<1>6. TypeOK'
  BY <1>0, <1>1, <1>2, <1>3 DEF IInv, TypeOK, Starting, Running, names, seen, server
<1>7. LocksExclude'
  BY <1>3 DEF IInv, LocksExclude
<1>8. JournalsApart'
  BY <1>1, <1>4 DEF IInv, JournalsApart
<1>9. OpenAgrees'
  <2> SUFFICES ASSUME NEW q \in Processes, file'[q] # NoFile
               PROVE  file'[q] = journal'[JournalOf(q)] /\ memory[q] = contents'[file'[q]]
    BY <1>3 DEF OpenAgrees
  <2>1. file'[q] = IF q = p THEN f ELSE file[q]
    BY <1>0 DEF IInv, TypeOK
  <2>2. file'[q] = journal'[JournalOf(q)]
    BY <1>2, <1>3, <1>4, <2>1, OpenExcludes DEF IInv, OpenAgrees
  <2>3. file[q] # NoFile
    BY <1>1, <1>2, <2>1
  <2>4. memory[q] = contents[journal[JournalOf(q)]]
    BY <2>3 DEF IInv, OpenAgrees
  <2>5. contents'[journal'[JournalOf(q)]] = contents[journal[JournalOf(q)]]
    BY <1>3, <1>5
  <2> QED BY <2>2, <2>4, <2>5
<1>10. MemoryKept' /\ AcknowledgedKept' /\ OneEach'
  <2>1. \A q \in Processes : contents'[journal'[JournalOf(q)]] = contents[journal[JournalOf(q)]]
    BY <1>3, <1>5
  <2>2. MemoryKept'
    BY <1>3, <2>1 DEF IInv, MemoryKept
  <2>3. AcknowledgedKept' /\ OneEach'
    BY <1>5 DEF IInv, AcknowledgedKept, OneEach, server
  <2> QED BY <2>2, <2>3
<1> QED BY <1>6, <1>7, <1>8, <1>9, <1>10 DEF IInv

(* main waits for compactor and workers, then closes the journal.          *)
LEMMA CloseHolds == ASSUME IInv, NEW p \in Processes, Close(p) PROVE IInv'
<1>1. TypeOK'
  BY DEF IInv, TypeOK, Close, Goes, Closed, Starting, Running, names, server, seen
<1>2. (LocksExclude /\ JournalsApart /\ OpenAgrees
       /\ MemoryKept /\ AcknowledgedKept /\ OneEach)'
  BY ClosedHolds DEF Close, server
<1> QED BY <1>1, <1>2 DEF IInv

-----------------------------------------------------------------------------
(* One step of a start, from the lock to the serving daemon.               *)
LEMMA StartHolds == ASSUME IInv, NEW p \in Processes, Start(p) PROVE IInv'
<1> USE DEF TypeOK, Goes, Starting, Running, stores, server, names, seen
<1>1. CASE Lock(p)
  BY <1>1, LockHolds
<1>2. CASE Open(p)
  BY <1>2, OpenHolds
<1>3. CASE InspectRefuses(p) \/ DialRefuses(p) \/ RemoveFails(p) \/ BindFails(p)
  <2>1. Gone(p) /\ socket' \in Processes \union {NoSocket, NotASocket}
    BY <1>3 DEF IInv, InspectRefuses, DialRefuses, RemoveFails, BindFails, GiveUp
  <2> QED BY <2>1, GoneHolds
<1>4. CASE Abandon(p)
  BY <1>4, GoneHolds DEF Abandon
<1>5. CASE Inspect(p) \/ Dial(p) \/ SecureFails(p)
  <2>1. TypeOK'
    BY <1>5 DEF IInv, Inspect, Dial, SecureFails
  <2>2. UNCHANGED <<shared, stores, told>>
    BY <1>5 DEF Inspect, Dial, SecureFails
  <2> QED BY <2>1, <2>2, StoresUntouched DEF IInv
<1>6. CASE Remove(p) \/ Bind(p)
  <2>1. TypeOK'
    BY <1>6 DEF IInv, Remove, Bind
  <2>2. UNCHANGED <<shared, stores, told>>
    BY <1>6 DEF Remove, Bind
  <2> QED BY <2>1, <2>2, StoresUntouched DEF IInv
<1>7. CASE Listen(p) \/ Secure(p)
  <2>1. TypeOK'
    <3>1. CASE Listen(p)
      BY <3>1 DEF IInv, Listen
    <3>2. CASE Secure(p)
      BY <3>2 DEF IInv, Secure
    <3> QED BY <1>7, <3>1, <3>2
  <2>2. UNCHANGED <<shared, stores, told>>
    BY <1>7 DEF Listen, Secure
  <2> QED BY <2>1, <2>2, StoresUntouched DEF IInv
<1> QED BY <1>1, <1>2, <1>3, <1>4, <1>5, <1>6, <1>7 DEF Start

(* One step of a handler or of the compactor.                              *)
LEMMA ServeHolds == ASSUME IInv, NEW p \in Processes, Serve(p) PROVE IInv'
<1>1. CASE CreateNew(p)
  BY <1>1, CreateNewHolds
<1>2. CASE Answer(p)
  BY <1>2, AnswerHolds
<1>3. CASE Compact(p)
  BY <1>3, CompactHolds
<1>4. CASE Accept(p) \/ CreateExisting(p) \/ CreateFails(p)
  <2> USE DEF Accept, CreateExisting, CreateFails, stores, names, seen
  <2>1. TypeOK'
    BY <1>4 DEF IInv, TypeOK, Starting, Running
  <2>2. UNCHANGED <<shared, stores, told>>
    BY <1>4
  <2> QED BY <2>1, <2>2, StoresUntouched DEF IInv
<1> QED BY <1>1, <1>2, <1>3, <1>4 DEF Serve

(* One step of a shutdown, orderly or not.                                 *)
LEMMA StopHolds ==
  ASSUME IInv, NEW p \in Processes, Terminate(p) \/ Shutdown(p) \/ Kill(p)
  PROVE  IInv'
<1>1. CASE Close(p)
  BY <1>1, CloseHolds
<1>2. CASE CleanUp(p) \/ Kill(p)
  <2>1. Gone(p) /\ socket' \in Processes \union {NoSocket, NotASocket}
    BY <1>2 DEF IInv, TypeOK, CleanUp, Kill
  <2> QED BY <2>1, GoneHolds
<1>3. CASE Terminate(p) \/ Drain(p) \/ Quit(p)
  <2> USE DEF Terminate, Drain, Quit, Goes, stores, server, names, seen
  <2>1. TypeOK'
    <3> USE DEF IInv, TypeOK, Starting, Running
    <3>1. CASE Terminate(p)
      BY <3>1
    <3>2. CASE Drain(p)
      BY <3>2
    <3>3. CASE Quit(p)
      BY <3>3
    <3> QED BY <1>3, <3>1, <3>2, <3>3
  <2>2. UNCHANGED <<shared, stores, told>>
    BY <1>3
  <2> QED BY <2>1, <2>2, StoresUntouched DEF IInv
<1> QED BY <1>1, <1>2, <1>3 DEF Shutdown

(* The inductive invariant holds in every reachable state.                 *)
LEMMA InvariantHolds == Spec => []IInv
<1>1. IInv /\ [Next]_vars => IInv'
  <2> SUFFICES ASSUME IInv, [Next]_vars PROVE IInv'
    OBVIOUS
  <2>1. CASE Next
    <3>1. PICK p \in Processes :
            Start(p) \/ Serve(p) \/ Terminate(p) \/ Shutdown(p) \/ Kill(p)
      BY <2>1 DEF Next
    <3> QED BY <3>1, StartHolds, ServeHolds, StopHolds
  <2>2. CASE UNCHANGED vars
    <3>1. TypeOK'
      BY <2>2 DEF IInv, TypeOK, vars, stores, server, names, seen
    <3> QED BY <2>2, <3>1, StoresUntouched DEF IInv, vars, server
  <2> QED BY <2>1, <2>2
<1> QED BY <1>1, InitHolds, PTL DEF Spec

-----------------------------------------------------------------------------
(* Locks, descriptors and goroutines are those of the phases of run.       *)
THEOREM DaemonTypeCorrect == Spec => []TypeOK
<1>1. IInv => TypeOK
  BY DEF IInv
<1> QED BY <1>1, InvariantHolds, PTL

(* The stable lock file gives a journal one owner, which has open the file *)
(* that the journal's name denotes, through compactions of its own and     *)
(* starts, stops and kills of others.                                      *)
THEOREM JournalHasOneOwner == Spec => []OneOwner
<1>1. IInv => OneOwner
  <2> SUFFICES ASSUME IInv, NEW p \in Processes, file[p] # NoFile
               PROVE  /\ file[p] = journal[JournalOf(p)]
                      /\ \A q \in Processes \ {p} :
                           JournalOf(q) = JournalOf(p) => file[q] = NoFile
    BY DEF OneOwner
  <2>1. file[p] = journal[JournalOf(p)]
    BY DEF IInv, OpenAgrees
  <2> QED BY <2>1, OpenExcludes
<1> QED BY <1>1, InvariantHolds, PTL

(* main closes the journal before the last handlers are done: what these   *)
(* still answer is in the journal, whoever has it by then.                 *)
THEOREM AnswersSurvive == Spec => []AcknowledgedKept
<1>1. IInv => AcknowledgedKept
  BY DEF IInv
<1> QED BY <1>1, InvariantHolds, PTL

(* An idempotency key is enqueued once per journal by any processes.       *)
THEOREM KeyEnqueuedOnce == Spec => []EnqueuedOnce
<1>1. ASSUME IInv PROVE EnqueuedOnce
  <2> SUFFICES ASSUME NEW j \in Journals
               PROVE  Cardinality(contents[journal[j]]) <= 1
    BY DEF EnqueuedOnce
  <2>1. CASE contents[journal[j]] = {}
    BY <2>1, FS_EmptySet
  <2>2. CASE contents[journal[j]] # {}
    <3>1. PICK x : x \in contents[journal[j]]
      BY <2>2
    <3>2. contents[journal[j]] = {x}
      BY <1>1, <3>1 DEF IInv, OneEach
    <3>3. Cardinality({x}) = 1
      BY FS_Singleton
    <3> QED BY <3>2, <3>3
  <2> QED BY <2>1, <2>2
<1> QED BY <1>1, InvariantHolds, PTL
-----------------------------------------------------------------------------
(* The name of the socket.                                                 *)

(* Who was listening when p started, and has not started anew, does not    *)
(* start; and p does not remove the socket of one that still listens.      *)
HeardSettled ==
  \A p, q \in Processes : q \in heard[p] =>
    /\ phase[q] \notin {"opening", "inspecting", "dialing", "removing", "binding", "listening"}
    /\ phase[p] = "removing" /\ listening[q] => socket # q

(* A process that met no other finds the socket's name as it left it.      *)
Undisturbed ==
  \A p \in Processes : phase[p] # "down" /\ ~met[p] =>
    /\ \A q \in Processes \ {p} : phase[q] = "down"
    /\ phase[p] \in {"dialing", "removing"} => socket \in Processes
    /\ phase[p] = "binding" => socket = NoSocket
    /\ phase[p] \in {"listening", "securing"} => socket = p

(* The steps of a start that keep the process going, each from one phase   *)
(* to the next.                                                            *)
Proceeds(p) ==
  \/ Open(p) \/ Inspect(p) \/ Dial(p) \/ Remove(p) \/ Bind(p) \/ Listen(p)
  \/ Secure(p) \/ SecureFails(p)

(* The steps with which a process ends, and those that are not about names.*)
Ends(p) == Gone(p) /\ socket' \in {socket, NoSocket}
Works(p) == UNCHANGED <<phase, names, seen>>

(* What a step of p does to phases, names and what was met, whatever else  *)
(* it does.                                                                *)
LEMMA StepKinds ==
  ASSUME NEW p \in Processes, Start(p) \/ Serve(p) \/ Terminate(p) \/ Shutdown(p) \/ Kill(p)
  PROVE  \/ Lock(p) \/ Proceeds(p)
         \/ Ends(p) /\ phase[p] # "down"
         \/ Works(p)
         \/ Terminate(p) \/ Drain(p) \/ Close(p)
<1>1. CASE InspectRefuses(p) \/ DialRefuses(p) \/ RemoveFails(p) \/ BindFails(p) \/ Abandon(p)
           \/ CleanUp(p) \/ Kill(p)
  BY <1>1 DEF InspectRefuses, DialRefuses, RemoveFails, BindFails, GiveUp, Abandon, CleanUp,
    Kill, Ends
<1>2. CASE Serve(p) \/ Quit(p)
  BY <1>2 DEF Serve, Accept, CreateExisting, CreateNew, CreateFails, Answer, Compact, Quit, Works
<1> QED BY <1>1, <1>2 DEF Start, Shutdown, Proceeds

(* Before the first start nobody has met or heard anybody.                 *)
LEMMA SocketInit == Init => HeardSettled /\ Undisturbed
BY DEF Init, HeardSettled, Undisturbed

(* HeardSettled is kept: a name that refuses a dial is no listener's, and  *)
(* a process that starts is heard by nobody until it listens.              *)
LEMMA HeardStep ==
  ASSUME TypeOK, HeardSettled, Next
  PROVE  HeardSettled'
<1> USE DEF TypeOK, HeardSettled, Goes
<1>1. PICK p \in Processes : Start(p) \/ Serve(p) \/ Terminate(p) \/ Shutdown(p) \/ Kill(p)
  BY DEF Next
<1>2. CASE Lock(p)
  BY <1>2 DEF Lock, names
<1>3. CASE Proceeds(p)
  <2>1. CASE Open(p)
    BY <2>1 DEF Open, names, seen
  <2>2. CASE Inspect(p)
    BY <2>2 DEF Inspect, names, seen
  <2>3. CASE Dial(p)
    BY <2>3 DEF Dial, Refused, names, seen
  <2>4. CASE Remove(p)
    BY <2>4, DaemonAssumption DEF Remove, seen
  <2>5. CASE Bind(p)
    BY <2>5 DEF Bind, seen
  <2>6. CASE Listen(p)
    BY <2>6 DEF Listen, seen
  <2>7. CASE Secure(p) \/ SecureFails(p)
    BY <2>7 DEF Secure, SecureFails, names, seen
  <2> QED BY <1>3, <2>1, <2>2, <2>3, <2>4, <2>5, <2>6, <2>7 DEF Proceeds
<1>4. CASE Ends(p)
  BY <1>4, DaemonAssumption DEF Ends, Gone
<1>5. CASE Works(p)
  BY <1>5 DEF Works, names, seen
<1>6. CASE Terminate(p)
  BY <1>6, DaemonAssumption DEF Terminate, seen
<1>7. CASE Drain(p) \/ Close(p)
  BY <1>7 DEF Drain, Close, names, seen
<1> QED BY <1>1, <1>2, <1>3, <1>4, <1>5, <1>6, <1>7, StepKinds

(* Undisturbed is kept: a step of another process is one that p meets.     *)
LEMMA UndisturbedStep ==
  ASSUME TypeOK, Undisturbed, Next
  PROVE  Undisturbed'
<1> USE DEF TypeOK, Goes
<1>1. PICK p \in Processes : Start(p) \/ Serve(p) \/ Terminate(p) \/ Shutdown(p) \/ Kill(p)
  BY DEF Next
<1>2. CASE Lock(p)
  BY <1>2 DEF Lock, Undisturbed
<1>3. ASSUME phase[p] # "down", \A q \in Processes \ {p} : phase'[q] = phase[q] /\ met'[q] = met[q],
             phase'[p] # "down" /\ ~met'[p] => ~met[p],
             phase'[p] # "down" /\ ~met'[p] =>
               /\ phase'[p] \in {"dialing", "removing"} => socket' \in Processes
               /\ phase'[p] = "binding" => socket' = NoSocket
               /\ phase'[p] \in {"listening", "securing"} => socket' = p
      PROVE  Undisturbed'
  BY <1>3 DEF Undisturbed
<1>4. CASE Proceeds(p)
  <2>1. /\ phase[p] # "down" /\ met' = met
        /\ \A q \in Processes \ {p} : phase'[q] = phase[q]
    BY <1>4 DEF Proceeds, Open, Inspect, Dial, Remove, Bind, Listen, Secure, SecureFails, seen
  <2>2. phase[p] # "down" /\ ~met[p] =>
          /\ phase[p] \in {"dialing", "removing"} => socket \in Processes
          /\ phase[p] = "binding" => socket = NoSocket
          /\ phase[p] \in {"listening", "securing"} => socket = p
    BY DEF Undisturbed
  <2>3. ~met[p] => /\ phase'[p] \in {"dialing", "removing"} => socket' \in Processes
                   /\ phase'[p] = "binding" => socket' = NoSocket
                   /\ phase'[p] \in {"listening", "securing"} => socket' = p
    BY <1>4, <2>2 DEF Proceeds, Open, Inspect, Dial, Remove, Bind, Listen, Secure, SecureFails, names
  <2> QED BY <1>3, <2>1, <2>3
<1>5. CASE Ends(p) /\ phase[p] # "down"
  <2>1. \A q \in Processes \ {p} : phase'[q] = phase[q] /\ met'[q] = met[q]
    BY <1>5 DEF Ends, Gone
  <2>2. phase'[p] = "down"
    BY <1>5 DEF Ends, Gone
  <2> QED BY <1>3, <1>5, <2>1, <2>2
<1>6. CASE Works(p)
  BY <1>6 DEF Works, names, seen, Undisturbed
<1>7. CASE Terminate(p) \/ Drain(p) \/ Close(p)
  <2>1. /\ phase[p] # "down" /\ met' = met
        /\ phase'[p] \in {"draining", "stopping", "closed"}
        /\ \A q \in Processes \ {p} : phase'[q] = phase[q]
    BY <1>7 DEF Terminate, Drain, Close, seen
  <2> QED BY <1>3, <2>1
<1> QED BY <1>1, <1>2, <1>4, <1>5, <1>6, <1>7, StepKinds

(* Both invariants hold of every run.                                      *)
LEMMA SocketHolds == Spec => [](TypeOK /\ HeardSettled /\ Undisturbed)
<1>1. TypeOK /\ HeardSettled /\ Undisturbed /\ [Next]_vars => HeardSettled' /\ Undisturbed'
  <2> SUFFICES ASSUME TypeOK, HeardSettled, Undisturbed, [Next]_vars
               PROVE  HeardSettled' /\ Undisturbed'
    OBVIOUS
  <2>1. CASE UNCHANGED vars
    BY <2>1 DEF vars, names, seen, HeardSettled, Undisturbed
  <2> QED BY <2>1, HeardStep, UndisturbedStep
<1>2. IInv => TypeOK
  BY DEF IInv
<1> QED BY <1>1, <1>2, SocketInit, InvariantHolds, PTL DEF Spec

(* openListener fails only for a rival or a file of another kind: what a   *)
(* dead process left under the name is found refused, removed and bound    *)
(* again.                                                                  *)
THEOREM StartsFailForRivals == Spec => StartFailsForRivalsOnly
<1>1. ASSUME TypeOK, Undisturbed, NEW p \in Processes, phase[p] \in Starting,
             DialRefuses(p) \/ RemoveFails(p) \/ BindFails(p) \/ SecureFails(p)
      PROVE  met[p]
  <2> SUFFICES ASSUME ~met[p] PROVE FALSE
    BY DEF TypeOK
  <2>1. phase[p] # "down"
    BY <1>1 DEF Starting
  <2>2. /\ \A q \in Processes \ {p} : phase[q] = "down"
        /\ phase[p] \in {"dialing", "removing"} => socket \in Processes
        /\ phase[p] = "binding" => socket = NoSocket
        /\ phase[p] \in {"listening", "securing"} => socket = p
    BY <1>1, <2>1 DEF Undisturbed
  <2>3. ~DialRefuses(p)
    BY <1>1, <2>2 DEF DialRefuses, Refused, TypeOK
  <2>4. ~RemoveFails(p) /\ ~BindFails(p) /\ ~SecureFails(p)
    BY <2>2, DaemonAssumption DEF RemoveFails, BindFails, SecureFails
  <2> QED BY <1>1, <2>3, <2>4
<1>2. TypeOK /\ Undisturbed /\ [Next]_vars =>
        [\A p \in Processes :
           phase[p] \in Starting
           /\ (DialRefuses(p) \/ RemoveFails(p) \/ BindFails(p) \/ SecureFails(p))
           => met[p]]_vars
  BY <1>1
<1> QED BY <1>2, SocketHolds, PTL DEF Spec, StartFailsForRivalsOnly

(* A listener loses its socket's name to no start that found it listening: *)
(* only to a start that overlaps its own, or to the clean-up of another.   *)
THEOREM ListenersKeepNames == Spec => ListenerKeepsName
<1> DEFINE Loses(q) == socket = q /\ listening[q] /\ socket' # q /\ listening'[q]
           Excused(p, q) ==
             \/ phase[p] = "closed" /\ phase'[p] = "down"
             \/ phase[p] = "serving" /\ phase'[p] = "draining"
             \/ phase[p] = "removing" /\ phase'[p] = "binding" /\ q \notin heard[p]
             \/ phase[p] = "abandoning" /\ phase'[p] = "down"
<1>1. ASSUME TypeOK, HeardSettled, Next, NEW q \in Processes, Loses(q)
      PROVE  \E p \in Processes \ {q} : Excused(p, q)
  <2> USE DEF TypeOK, Goes
  <2>1. PICK p \in Processes : Start(p) \/ Serve(p) \/ Terminate(p) \/ Shutdown(p) \/ Kill(p)
    BY <1>1 DEF Next
  <2>2. socket \in Processes /\ socket' # socket /\ socket # NoSocket
    BY <1>1, DaemonAssumption
  <2>3. CASE Remove(p)
    <3>1. phase[p] = "removing" /\ phase'[p] = "binding" /\ p # q /\ q \notin heard[p]
      BY <1>1, <2>3 DEF Remove, HeardSettled
    <3> QED BY <3>1
  <2>4. CASE Abandon(p) \/ CleanUp(p)
    <3>1. p # q /\ phase[p] \in {"abandoning", "closed"} /\ phase'[p] = "down"
      BY <1>1, <2>4 DEF Abandon, CleanUp, Gone
    <3> QED BY <3>1
  <2>5. CASE Terminate(p)
    <3>1. p # q /\ phase[p] = "serving" /\ phase'[p] = "draining"
      BY <1>1, <2>5 DEF Terminate
    <3> QED BY <3>1
  <2>6. CASE ~ (Remove(p) \/ Abandon(p) \/ CleanUp(p) \/ Terminate(p))
    <3>1. socket' = socket
      BY <2>1, <2>2, <2>6 DEF Start, Serve, Shutdown, Kill, Lock, Open, Inspect, InspectRefuses,
        Dial, DialRefuses, RemoveFails, Bind, BindFails, Listen, Secure, SecureFails, GiveUp,
        Accept, CreateExisting, CreateNew, CreateFails, Answer, Compact, Drain, Quit, Close, names
    <3> QED BY <2>2, <3>1
  <2> QED BY <2>3, <2>4, <2>5, <2>6
<1>2. TypeOK /\ HeardSettled /\ [Next]_vars =>
        [\A q \in Processes : Loses(q) => \E p \in Processes \ {q} : Excused(p, q)]_vars
  BY <1>1
<1> QED BY <1>2, SocketHolds, PTL DEF Spec, ListenerKeepsName
=============================================================================
