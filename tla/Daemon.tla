------------------------------- MODULE Daemon -------------------------------
(***************************************************************************)
(* cmd/spoold/main.go and internal/store/lock_unix.go: processes that want *)
(* the same Unix socket, and the same journal or one each; what each does  *)
(* from its start to its end; and the requests its HTTP server handles.    *)
(*                                                                         *)
(* The processes share names in a file system.  The journal's name denotes *)
(* another file after each compaction, while descriptors and locks stay    *)
(* with the file they were opened on.  The socket's name denotes the       *)
(* socket of the last process to bind it, alive or not.  Each system call  *)
(* on a shared name is a step.                                             *)
(*                                                                         *)
(* Deliveries are those of one idempotency key: a request creates one      *)
(* unless the store has one.  Workers and compactor are one flag, for what *)
(* main waits for, and the compaction, for what it does to the files.  TCP *)
(* listeners, which share no name, and writes that fail are left out (the  *)
(* latter are in Store).                                                   *)
(***************************************************************************)
EXTENDS Naturals, FiniteSets

CONSTANTS
  Processes,   \* positive numbers
  Ids,         \* delivery identifiers
  Files,       \* what a journal's name may denote
  NoFile,      \* no file
  NoSocket,    \* nothing under the socket's name
  NotASocket   \* a file of another kind under the socket's name

ASSUME DaemonAssumption ==
  /\ Processes \subseteq Nat \ {0} /\ IsFiniteSet(Processes)
  /\ {NoSocket, NotASocket} \cap Processes = {}
  /\ Files \subseteq Nat
  /\ NoSocket # NotASocket /\ NoFile \notin Files \union Processes

VARIABLES
  shared,      \* whether all processes are given the same journal
  phase,       \* per process, the next thing it does
  held,        \* per process, the file Store.lock is a lock on
  file,        \* per process, the file Store.file writes to
  memory,      \* per process, Store.items
  background,  \* per process, whether workers and compactor are running
  handler,     \* per process, the request it handles: "none", "running",
               \* or "done" with its answer not yet sent
  listening,   \* per process, whether its socket accepts connections
  socket,      \* what the socket's name denotes: a process's socket
  journal,     \* per journal, the file its name denotes
  contents,    \* per file, the deliveries its records replay to
  told,        \* history: per journal, the deliveries clients know of
  met,         \* history: per process, whether another was up since it started
  heard        \* history: per process, those that have listened since before

stores == <<held, file, memory, journal, contents>>
server == <<handler, told>>
names == <<listening, socket>>
seen == <<met, heard>>
vars == <<shared, phase, stores, background, server, names, seen>>

(* Every process has one journal; a journal is named by a process.         *)
Journals == Processes
JournalOf(p) == IF shared THEN CHOOSE q \in Processes : TRUE ELSE p
LockFile(j) == j        \* path + ".lock", which is never replaced

Unused == Files \ ({journal[j] : j \in Journals} \union
                   {held[p] : p \in Processes} \union {file[p] : p \in Processes})

Init ==
  /\ shared \in BOOLEAN
  /\ phase = [p \in Processes |-> "down"]
  /\ held = [p \in Processes |-> NoFile]
  /\ file = [p \in Processes |-> NoFile]
  /\ memory = [p \in Processes |-> {}]
  /\ background = [p \in Processes |-> FALSE]
  /\ handler = [p \in Processes |-> "none"]
  /\ listening = [p \in Processes |-> FALSE]
  /\ socket \in {NoSocket, NotASocket}
  /\ \E f \in [Journals -> Files] :
       /\ \A i, j \in Journals : i < j => f[i] < f[j]
       /\ \A j \in Journals : \A g \in Files : g < f[j] => \E i \in Journals : f[i] = g
       /\ journal = f
  /\ contents = [f \in Files |-> {}]
  /\ told = [j \in Journals |-> {}]
  /\ met = [p \in Processes |-> FALSE]
  /\ heard = [p \in Processes |-> {}]

Goes(p, there) == phase' = [phase EXCEPT ![p] = there]

(* Mutant: the lock is that the file exists, which a dead process leaves.  *)
ClosedHoldingLock(p) ==
  /\ file' = [file EXCEPT ![p] = NoFile]
  /\ UNCHANGED <<held, journal, contents>>

(* Store.Close: the descriptor, then the lock.                             *)
Closed(p) ==
  /\ file' = [file EXCEPT ![p] = NoFile]
  /\ held' = [held EXCEPT ![p] = NoFile]
  /\ UNCHANGED <<journal, contents>>

(* The end of a process takes its descriptors, locks and goroutines.       *)
Gone(p) ==
  /\ Goes(p, "down")
  /\ Closed(p)
  /\ memory' = [memory EXCEPT ![p] = {}]
  /\ background' = [background EXCEPT ![p] = FALSE]
  /\ handler' = [handler EXCEPT ![p] = "none"]
  /\ listening' = [listening EXCEPT ![p] = FALSE]
  /\ met' = [met EXCEPT ![p] = FALSE]
  /\ heard' = [heard EXCEPT ![p] = {}]
  /\ UNCHANGED <<shared, told>>

-----------------------------------------------------------------------------
(* store.Open: acquireJournalLock, then the journal is opened and replayed.*)

(* Mutant: the lock is taken on the journal itself.                        *)
LockedFileReplaced(p) == journal[JournalOf(p)]

LockedFile(p) == LockFile(JournalOf(p))

(* A process that finds the lock taken ends (ErrJournalLocked).            *)
Lock(p) ==
  /\ phase[p] = "down"
  /\ \A q \in Processes : held[q] # LockedFile(p)
  /\ held' = [held EXCEPT ![p] = LockedFile(p)]
  /\ Goes(p, "opening")
  /\ LET Up == {q \in Processes : phase[q] # "down"}
     IN  met' = [q \in Processes |-> IF q = p THEN Up # {} ELSE met[q] \/ q \in Up]
  /\ heard' = [q \in Processes |->
                 IF q = p THEN {r \in Processes : listening[r]} ELSE heard[q] \ {p}]
  /\ UNCHANGED <<shared, file, memory, journal, contents, background, server, names>>

(* Mutant: replay forgets the deliveries' keys.                            *)
OpenForgetful(p) ==
  /\ phase[p] = "opening"
  /\ file' = [file EXCEPT ![p] = journal[JournalOf(p)]]
  /\ Goes(p, "inspecting")
  /\ UNCHANGED <<shared, held, memory, journal, contents, background, server, names, seen>>

Open(p) ==
  /\ phase[p] = "opening"
  /\ file' = [file EXCEPT ![p] = journal[JournalOf(p)]]
  /\ memory' = [memory EXCEPT ![p] = contents[journal[JournalOf(p)]]]
  /\ Goes(p, "inspecting")
  /\ UNCHANGED <<shared, held, journal, contents, background, server, names, seen>>

-----------------------------------------------------------------------------
(* openListener, one system call on the socket's name after the other.     *)

(* Any failure closes the journal and ends the process.                    *)
GiveUp(p) == Gone(p) /\ UNCHANGED socket

(* os.Lstat                                                                *)
Inspect(p) ==
  /\ phase[p] = "inspecting" /\ socket # NotASocket
  /\ Goes(p, IF socket = NoSocket THEN "binding" ELSE "dialing")
  /\ UNCHANGED <<shared, stores, background, server, names, seen>>

InspectRefuses(p) ==
  /\ phase[p] = "inspecting" /\ socket = NotASocket
  /\ GiveUp(p)

(* net.DialTimeout: ECONNREFUSED is a socket nobody listens on.            *)
Refused == socket \in Processes /\ ~listening[socket]

(* Mutant: the socket is taken for stale without asking.                   *)
DialSkipped(p) ==
  /\ phase[p] = "dialing"
  /\ Goes(p, "removing")
  /\ UNCHANGED <<shared, stores, background, server, names, seen>>

Dial(p) ==
  /\ phase[p] = "dialing" /\ Refused
  /\ Goes(p, "removing")
  /\ UNCHANGED <<shared, stores, background, server, names, seen>>

DialRefuses(p) ==
  /\ phase[p] = "dialing" /\ ~Refused
  /\ GiveUp(p)

(* Mutant: a stale socket is left where it is.                             *)
RemoveNothing(p) ==
  /\ phase[p] = "removing" /\ socket # NoSocket
  /\ Goes(p, "binding")
  /\ UNCHANGED <<shared, stores, background, server, names, seen>>

Remove(p) ==
  /\ phase[p] = "removing" /\ socket # NoSocket
  /\ socket' = NoSocket
  /\ Goes(p, "binding")
  /\ UNCHANGED <<shared, stores, background, server, listening, seen>>

RemoveFails(p) ==
  /\ phase[p] = "removing" /\ socket = NoSocket
  /\ GiveUp(p)

(* net.Listen: bind, which makes the name, then listen.                    *)
Bind(p) ==
  /\ phase[p] = "binding" /\ socket = NoSocket
  /\ socket' = p
  /\ Goes(p, "listening")
  /\ UNCHANGED <<shared, stores, background, server, listening, seen>>

BindFails(p) ==
  /\ phase[p] = "binding" /\ socket # NoSocket
  /\ GiveUp(p)

Listen(p) ==
  /\ phase[p] = "listening"
  /\ listening' = [listening EXCEPT ![p] = TRUE]
  /\ Goes(p, "securing")
  /\ UNCHANGED <<shared, stores, background, server, socket, seen>>

(* os.Chmod; then pool.Start, journalCompactor.Start and Serve.            *)
Secure(p) ==
  /\ phase[p] = "securing" /\ socket # NoSocket
  /\ background' = [background EXCEPT ![p] = TRUE]
  /\ Goes(p, "serving")
  /\ UNCHANGED <<shared, stores, server, names, seen>>

(* Closing the listener and os.Remove take whatever now has the name.      *)
SecureFails(p) ==
  /\ phase[p] = "securing" /\ socket = NoSocket
  /\ Goes(p, "abandoning")
  /\ UNCHANGED <<shared, stores, background, server, names, seen>>

Abandon(p) ==
  /\ phase[p] = "abandoning"
  /\ socket' = NoSocket
  /\ Gone(p)

-----------------------------------------------------------------------------
(* The HTTP server: a request finds the process through the socket's name. *)
Accept(p) ==
  /\ phase[p] = "serving" /\ socket = p /\ handler[p] = "none"
  /\ handler' = [handler EXCEPT ![p] = "running"]
  /\ UNCHANGED <<shared, phase, stores, background, told, names, seen>>

(* Store.Create: the delivery there is, a new one, or an error from a store*)
(* that has been closed under the handler.                                 *)
CreateExisting(p) ==
  /\ handler[p] = "running" /\ memory[p] # {}
  /\ handler' = [handler EXCEPT ![p] = "done"]
  /\ UNCHANGED <<shared, phase, stores, background, told, names, seen>>

CreateNew(p) ==
  /\ handler[p] = "running" /\ memory[p] = {} /\ file[p] # NoFile
  /\ \E id \in Ids :
       /\ \A f \in Files : id \notin contents[f]
       /\ memory' = [memory EXCEPT ![p] = {id}]
       /\ contents' = [contents EXCEPT ![file[p]] = @ \union {id}]
  /\ handler' = [handler EXCEPT ![p] = "done"]
  /\ UNCHANGED <<shared, phase, held, file, journal, background, told, names, seen>>

CreateFails(p) ==
  /\ handler[p] = "running" /\ memory[p] = {} /\ file[p] = NoFile
  /\ handler' = [handler EXCEPT ![p] = "none"]
  /\ UNCHANGED <<shared, phase, stores, background, told, names, seen>>

(* The client reads the answer, or has gone away.                          *)
Answer(p) ==
  /\ handler[p] = "done"
  /\ handler' = [handler EXCEPT ![p] = "none"]
  /\ told' \in {told, [told EXCEPT ![JournalOf(p)] = @ \union memory[p]]}
  /\ UNCHANGED <<shared, phase, stores, background, names, seen>>

-----------------------------------------------------------------------------
(* Store.Compact, called by the compactor: the name moves to a new file,   *)
(* and with it the store's descriptor.                                     *)

(* Mutant: main does not wait for the compactor, which does not look       *)
(* whether the store has been closed.                                      *)
CompactClosed(p) ==
  /\ phase[p] \in {"serving", "draining", "stopping", "closed"}
  /\ \E f \in Unused :
       /\ \A g \in Unused : f <= g
       /\ journal' = [journal EXCEPT ![JournalOf(p)] = f]
       /\ contents' = [contents EXCEPT ![f] = memory[p], ![journal[JournalOf(p)]] = {}]
       /\ file' = [file EXCEPT ![p] = IF @ = NoFile THEN NoFile ELSE f]
  /\ UNCHANGED <<shared, phase, held, memory, background, server, names, seen>>

Compact(p) ==
  /\ background[p] /\ file[p] # NoFile
  /\ \E f \in Unused :
       /\ \A g \in Unused : f <= g
       /\ journal' = [journal EXCEPT ![JournalOf(p)] = f]
       /\ contents' = [contents EXCEPT ![f] = memory[p], ![file[p]] = {}]
       /\ file' = [file EXCEPT ![p] = f]
  /\ UNCHANGED <<shared, phase, held, memory, background, server, names, seen>>

-----------------------------------------------------------------------------
(* The end of run.  A signal, or an error of Serve: the context is         *)
(* cancelled, httpServer.Shutdown closes the listener, which unlinks the   *)
(* socket's name, and waits for the handlers until its timeout.            *)
Terminate(p) ==
  /\ phase[p] = "serving"
  /\ listening' = [listening EXCEPT ![p] = FALSE]
  /\ socket' = NoSocket
  /\ Goes(p, "draining")
  /\ UNCHANGED <<shared, stores, background, server, seen>>

(* Mutant: Shutdown has no timeout.                                        *)
DrainWithoutTimeout(p) ==
  /\ phase[p] = "draining" /\ handler[p] = "none"
  /\ Goes(p, "stopping")
  /\ UNCHANGED <<shared, stores, background, server, names, seen>>

Drain(p) ==
  /\ phase[p] = "draining"
  /\ Goes(p, "stopping")
  /\ UNCHANGED <<shared, stores, background, server, names, seen>>

(* Workers and compactor end once they see the cancelled context.          *)
Quit(p) ==
  /\ phase[p] \in {"draining", "stopping"} /\ background[p]
  /\ background' = [background EXCEPT ![p] = FALSE]
  /\ UNCHANGED <<shared, phase, stores, server, names, seen>>

(* pool.Wait, journalCompactor.Wait, journal.Close                         *)
Close(p) ==
  /\ phase[p] = "stopping" /\ ~background[p]
  /\ Closed(p)
  /\ Goes(p, "closed")
  /\ UNCHANGED <<shared, memory, background, server, names, seen>>

(* The deferred cleanupListener removes the name once more; then run       *)
(* returns, and with it every handler that is left ends.                   *)
CleanUp(p) ==
  /\ phase[p] = "closed"
  /\ socket' = NoSocket
  /\ Gone(p)

Kill(p) ==
  /\ phase[p] # "down"
  /\ Gone(p) /\ UNCHANGED socket

-----------------------------------------------------------------------------
Start(p) ==
  \/ Lock(p) \/ Open(p)
  \/ Inspect(p) \/ InspectRefuses(p)
  \/ Dial(p) \/ DialRefuses(p)
  \/ Remove(p) \/ RemoveFails(p)
  \/ Bind(p) \/ BindFails(p) \/ Listen(p)
  \/ Secure(p) \/ SecureFails(p) \/ Abandon(p)

Serve(p) ==
  \/ Accept(p)
  \/ CreateExisting(p) \/ CreateNew(p) \/ CreateFails(p)
  \/ Answer(p)
  \/ Compact(p)

Shutdown(p) == Drain(p) \/ Quit(p) \/ Close(p) \/ CleanUp(p)

Next ==
  \E p \in Processes : Start(p) \/ Serve(p) \/ Terminate(p) \/ Shutdown(p) \/ Kill(p)

(* A stopping process is scheduled, its timeout expires, and its           *)
(* goroutines see the cancelled context.  Nothing is assumed of handlers,  *)
(* whose clients may be slow.                                              *)
Spec == Init /\ [][Next]_vars
FairSpec ==
  Spec /\ \A p \in Processes :
            WF_vars(Drain(p)) /\ WF_vars(Quit(p)) /\ WF_vars(Close(p)) /\ WF_vars(CleanUp(p))

-----------------------------------------------------------------------------
Starting == {"opening", "inspecting", "dialing", "removing", "binding", "listening", "securing",
             "abandoning"}
Running == {"serving", "draining", "stopping"}

(* Every variable has its type; locks and descriptors are those of the     *)
(* phases that have them.                                                  *)
TypeOK ==
  /\ shared \in BOOLEAN
  /\ phase \in [Processes -> {"down", "closed"} \union Starting \union Running]
  /\ held \in [Processes -> Processes \union {NoFile}]
  /\ file \in [Processes -> Files \union {NoFile}]
  /\ memory \in [Processes -> SUBSET Ids]
  /\ background \in [Processes -> BOOLEAN]
  /\ handler \in [Processes -> {"none", "running", "done"}]
  /\ listening \in [Processes -> BOOLEAN]
  /\ socket \in Processes \union {NoSocket, NotASocket}
  /\ journal \in [Journals -> Files]
  /\ contents \in [Files -> SUBSET Ids]
  /\ told \in [Journals -> SUBSET Ids]
  /\ met \in [Processes -> BOOLEAN]
  /\ heard \in [Processes -> SUBSET Processes]
  /\ \A p \in Processes :
       /\ held[p] # NoFile <=> phase[p] \in Starting \union Running
       /\ file[p] # NoFile <=> phase[p] \in (Starting \ {"opening"}) \union Running
       /\ background[p] => phase[p] \in Running
       /\ handler[p] # "none" => phase[p] \in Running \union {"closed"}
       /\ listening[p] => phase[p] \in {"securing", "abandoning", "serving"}

(* One process at a time has a journal open, and it has open the file the  *)
(* next process will read: "One process owns a journal through a stable    *)
(* adjacent lock file" (docs/design.md:48), through compactions that       *)
(* replace the journal, kills, and overlapping stops and starts.           *)
OneOwner ==
  \A p \in Processes : file[p] # NoFile =>
    /\ file[p] = journal[JournalOf(p)]
    /\ \A q \in Processes \ {p} : JournalOf(q) = JournalOf(p) => file[q] = NoFile

(* Whatever a client was answered, by a handler that outlived the shutdown *)
(* timeout too, is in the file the journal's name denotes: main closes the *)
(* journal only when nothing but handlers can still reach it, and those    *)
(* find it closed.                                                         *)
AcknowledgedKept ==
  \A j \in Journals : told[j] \subseteq contents[journal[j]]

(* A key repeated to the old process, the new one, or both, while one      *)
(* stops and the other starts, is enqueued once per journal.               *)
EnqueuedOnce ==
  \A j \in Journals : Cardinality(contents[journal[j]]) <= 1

(* A start fails for another process that was there while it started, or   *)
(* for a file of another kind, and for nothing a dead process left: the    *)
(* socket of a killed process is no obstacle to the next (openListener).   *)
StartFailsForRivalsOnly ==
  [][\A p \in Processes :
       phase[p] \in Starting
       /\ (DialRefuses(p) \/ RemoveFails(p) \/ BindFails(p) \/ SecureFails(p))
       => met[p]]_vars

(* A process keeps the name of the socket it listens on.  It loses it only *)
(* to another at the end of its own shutdown, whose clean-up removes what  *)
(* has the name by then, or to one whose start overlapped its own; never   *)
(* to one started while it listened (openListener).                        *)
ListenerKeepsName ==
  [][\A q \in Processes :
       socket = q /\ listening[q] /\ socket' # q /\ listening'[q]
       => \E p \in Processes \ {q} :
            \/ phase[p] = "closed" /\ phase'[p] = "down"
            \/ phase[p] = "serving" /\ phase'[p] = "draining"
            \/ phase[p] = "removing" /\ phase'[p] = "binding" /\ q \notin heard[p]
            \/ phase[p] = "abandoning" /\ phase'[p] = "down"]_vars

(* A shutdown ends, whatever the handlers do.                              *)
ShutdownEnds ==
  \A p \in Processes :
    phase[p] \in {"draining", "stopping", "closed"} ~> phase[p] = "down"
============================================================================
