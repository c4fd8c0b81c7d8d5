------------------------------ MODULE RunLifecycle ------------------------------
(***************************************************************************)
(* One run from its creation to its Greenlight: the durable document, the  *)
(* workers that execute its stations under a lock, a lease and a fence,    *)
(* and the commands that create it, attach artifacts to it, approve,       *)
(* reject or revoke it.                                                    *)
(*                                                                         *)
(* A replica runs one worker thread and several request threads over one   *)
(* RuntimeService.  They share its RLock (requests only), the in-memory    *)
(* table AgencyOrchestrator._runs, whose entry for the run is cache, and   *)
(* the store: SQLite, whose store lock is the only command lock, or        *)
(* PostgreSQL, whose command locks are advisory and shared by replicas.    *)
(*                                                                         *)
(* A document in memory is an object, which two threads may hold; heap     *)
(* holds the objects in use.  Acquiring a lock is one step with the read   *)
(* that follows it, and releasing it one with the write before it.         *)
(***************************************************************************)
EXTENDS Naturals, FiniteSets

CONSTANTS
    Replicas,        \* processes that serve the API
    Workers,         \* their DurableRunWorker threads
    Clients,         \* their request threads
    Home,            \* thread -> its replica
    Keys,            \* idempotency keys they use
    Artifacts,       \* artifacts they attach to the run
    Steps,           \* checkpoints before the Greenlight: two for each station
    None,            \* absence of a value
    SharedDatabase,  \* PostgreSQL, as opposed to SQLite
    Workloads        \* what happens: the workers that run, the commands clients
                     \* send, whether sessions that hold a lock can end, and the
                     \* bound on errors, crashes and lost sessions

Threads == Workers \cup Clients

Decisions == {"approve", "reject", "revoke"}

ASSUME ThreadAssumption ==
    /\ IsFiniteSet(Threads) /\ IsFiniteSet(Replicas)
    /\ Workers \cap Clients = {}
    /\ Home \in [Threads -> Replicas]
ASSUME WorkloadAssumption ==
    \A load \in Workloads :
        /\ load.workers \subseteq Workers
        /\ load.operations \subseteq {"create", "attach"} \cup Decisions
        /\ load.drops \in BOOLEAN
        /\ load.faults \in Nat
ASSUME NoneAssumption == None \notin Nat
ASSUME StepAssumption == Steps \in Nat \ {0}
ASSUME StoreAssumption ==
    /\ SharedDatabase \in BOOLEAN
    /\ ~SharedDatabase => /\ Cardinality(Replicas) = 1
                          /\ \A load \in Workloads : ~load.drops

VARIABLES
    workload,   \* one of Workloads
    db,         \* the stored document of the run
    leaseLive,  \* whether its lease has not expired
    ledger,     \* IDs of the audit events, replay receipts among them
    heap,       \* object -> the document it holds
    cache,      \* replica -> the object in its orchestrator, or None
    locks,      \* the locks held, each with its holder
    pc,         \* thread -> what it does next
    cmd,        \* client -> its command: an operation and its key or artifact
    obj,        \* thread -> the object its variable run refers to, or None
    expected,   \* worker -> the status it read
    token,      \* worker -> the fence of its lease
    faults      \* faults so far

stored == <<db, leaseLive, ledger>>
local == <<cmd, expected, token>>
vars == <<stored, heap, cache, locks, pc, obj, local, faults, workload>>

Objects == 1 .. Cardinality(Threads) + Cardinality(Replicas)

Statuses == {"absent", "queued", "running", "awaiting_greenlight", "completed",
             "rejected", "revoked", "failed"}

Runnable == {"queued", "running"}

\* The owner of a lease is a worker of the current processes, or one that died.
Documents == [status : Statuses, progress : 0 .. Steps,
              owner : Workers \cup {None, "gone"}, fence : Nat,
              greenlight : {"none", "approved", "rejected", "revoked"},
              artifacts : SUBSET Artifacts]

NoDocument == [status |-> "absent", progress |-> 0, owner |-> None, fence |-> 0,
               greenlight |-> "none", artifacts |-> {}]

Commands == (({"create"} \cup Decisions) \X Keys) \cup ({"attach"} \X Artifacts)

NoCommand == <<None, None>>

Init ==
    /\ workload \in Workloads
    /\ db = NoDocument
    /\ leaseLive = FALSE
    /\ ledger = {}
    /\ heap = [o \in Objects |-> NoDocument]
    /\ cache = [r \in Replicas |-> None]
    /\ locks = {}
    /\ pc = [t \in Threads |-> "idle"]
    /\ cmd = [t \in Threads |-> NoCommand]
    /\ obj = [t \in Threads |-> None]
    /\ expected = [t \in Threads |-> "absent"]
    /\ token = [t \in Threads |-> 0]
    /\ faults = 0

-------------------------------------------------------------------------------
(* Locks and objects. *)

Service(t) == <<"service", Home[t]>>
Execution == <<"run-execution", None>>
Resource == <<"run-resource", None>>

\* command_lock: an advisory lock of its own, or the one lock of the store.
Lock(id) == IF SharedDatabase THEN id ELSE <<"store", None>>

\* Slip: a lock its holder cannot take again.
FreeNotReentrant(id, t) == \A l \in locks : l[1] # id

\* Locks are re-entrant.
Free(id, t) == \A l \in locks : l[1] = id => l[2] = t

Acquire(ids, t) ==
    /\ \A id \in ids : Free(id, t)
    /\ locks' = locks \cup (ids \X {t})

Fresh == CHOOSE o \in Objects :
            o \notin {obj[t] : t \in Threads} \cup {cache[r] : r \in Replicas}

\* The heap after a step, without the objects nothing refers to any more.
Heap(h) ==
    heap' = [o \in Objects |->
        IF \/ \E t \in Threads : obj'[t] = o
           \/ \E r \in Replicas : cache'[r] = o
        THEN h[o] ELSE NoDocument]

Goto(t, next) == pc' = [pc EXCEPT ![t] = next]

\* A thread ends what it was doing, normally or by an exception.
Finish(t) ==
    /\ Goto(t, "idle")
    /\ locks' = {l \in locks : l[2] # t}
    /\ cmd' = [cmd EXCEPT ![t] = NoCommand]
    /\ obj' = [obj EXCEPT ![t] = None]
    /\ expected' = [expected EXCEPT ![t] = "absent"]
    /\ token' = [token EXCEPT ![t] = 0]
    /\ Heap(heap)

-------------------------------------------------------------------------------
(* The store. *)

\* Slip: the status not compared.
SaveUnconditionally(document, status, event) ==
    IF event \notin ledger
    THEN /\ db' = document
         /\ ledger' = ledger \cup {event}
    ELSE UNCHANGED <<db, ledger>>

\* save: compare the status, write the document and its event, or do neither.
Save(document, status, event) ==
    IF db.status = status /\ event \notin ledger
    THEN /\ db' = document
         /\ ledger' = ledger \cup {event}
    ELSE UNCHANGED <<db, ledger>>

-------------------------------------------------------------------------------
(* DurableRunWorker and execute_one_queued_run. *)

\* The run is in executable_runs; _runtime_for takes the service lock and lets
\* it go before the execution lock is asked for.
Poll(w) ==
    /\ pc[w] = "idle"
    /\ w \in workload.workers
    /\ db.status \in Runnable
    /\ Free(Service(w), w)
    /\ Goto(w, "claim")
    /\ UNCHANGED <<stored, heap, cache, locks, obj, local, faults, workload>>

\* Slip: the lease of a dead worker waited for without end.
ClaimableUnexpired(w) == db.status \in Runnable /\ db.owner \in {None, w}

Claimable(w) == /\ db.status \in Runnable
                /\ db.owner \in {None, w} \/ ~leaseLive

Claim(w) ==
    /\ pc[w] = "claim"
    /\ Free(Lock(Execution), w)
    /\ IF Claimable(w)
       THEN /\ Acquire({Lock(Execution)}, w)
            /\ obj' = [obj EXCEPT ![w] = Fresh]
            /\ expected' = [expected EXCEPT ![w] = db.status]
            /\ Goto(w, "save_lease")
            /\ UNCHANGED <<cache, cmd, token>>
            /\ Heap([heap EXCEPT ![Fresh] = db])
       ELSE UNCHANGED cache /\ Finish(w)
    /\ UNCHANGED <<stored, faults, workload>>

\* Slip: the fence read before it is incremented.
SaveLeaseEarlyToken(w) ==
    /\ pc[w] = "save_lease"
    /\ LET leased == [heap[obj[w]] EXCEPT !.owner = w, !.fence = @ + 1]
       IN  /\ db.status = expected[w]
           /\ db' = leased
           /\ leaseLive' = TRUE
           /\ token' = [token EXCEPT ![w] = heap[obj[w]].fence]
           /\ Goto(w, "restore")
           /\ UNCHANGED <<obj, cache, locks, cmd, expected>>
           /\ Heap([heap EXCEPT ![obj[w]] = leased])
    /\ UNCHANGED <<ledger, faults, workload>>

\* The lease and the next fence are stored before the station runs.
SaveLease(w) ==
    /\ pc[w] = "save_lease"
    /\ LET read == heap[obj[w]]
           leased == [read EXCEPT !.owner = w, !.fence = @ + 1]
       IN  IF db.status = expected[w]
           THEN /\ db' = leased
                /\ leaseLive' = TRUE
                /\ token' = [token EXCEPT ![w] = leased.fence]
                /\ Goto(w, "restore")
                /\ UNCHANGED <<obj, cache, locks, cmd, expected>>
                /\ Heap([heap EXCEPT ![obj[w]] = leased])
           ELSE UNCHANGED <<db, leaseLive, cache>> /\ Finish(w)
    /\ UNCHANGED <<ledger, faults, workload>>

\* Slip: an object already cached is kept.
RestoreRunOnce(t) ==
    /\ pc[t] = "restore"
    /\ cache' = [cache EXCEPT ![Home[t]] = IF @ = None THEN obj[t] ELSE @]
    /\ Goto(t, IF t \in Workers THEN "advance" ELSE "decide")
    /\ UNCHANGED <<stored, locks, obj, local, faults, workload>>
    /\ Heap(heap)

\* restore_run, by a worker and by a command: the object replaces the cached.
RestoreRun(t) ==
    /\ pc[t] = "restore"
    /\ cache' = [cache EXCEPT ![Home[t]] = obj[t]]
    /\ Goto(t, IF t \in Workers THEN "advance" ELSE "decide")
    /\ UNCHANGED <<stored, locks, obj, local, faults, workload>>
    /\ Heap(heap)

\* advance: begin or finish a station of the run that the cache now holds; the
\* last one leads to the Greenlight.
Advanced(run) ==
    IF run.status \in Runnable
    THEN [run EXCEPT !.progress = @ + 1,
                     !.status = IF run.progress + 1 = Steps
                                THEN "awaiting_greenlight" ELSE "running"]
    ELSE run

Advance(w) ==
    /\ pc[w] = "advance"
    /\ LET cached == cache[Home[w]]
       IN  /\ obj' = [obj EXCEPT ![w] = cached]
           /\ Goto(w, "checkpoint")
           /\ UNCHANGED <<stored, cache, locks, local, faults, workload>>
           /\ Heap([heap EXCEPT ![cached] =
                        [Advanced(@) EXCEPT !.owner = None]])

\* A station that raises fails the run the worker had loaded.
AdvanceFails(w) ==
    /\ pc[w] = "advance"
    /\ heap[cache[Home[w]]].status \in Runnable
    /\ faults < workload.faults
    /\ faults' = faults + 1
    /\ Goto(w, "checkpoint")
    /\ UNCHANGED <<stored, cache, locks, obj, local, workload>>
    /\ Heap([heap EXCEPT ![obj[w]].status = "failed", ![obj[w]].owner = None])

\* The checkpoint is saved with the event of this lease, if the status is still
\* the one that was read; neither the owner nor the fence is compared.
Checkpoint(w) ==
    /\ pc[w] = "checkpoint"
    /\ Save(heap[obj[w]], expected[w], <<"checkpoint", token[w]>>)
    /\ UNCHANGED <<leaseLive, cache, faults, workload>>
    /\ Finish(w)

ExpireLease ==
    /\ db.owner # None
    /\ leaseLive
    /\ leaseLive' = FALSE
    /\ UNCHANGED <<db, ledger, heap, cache, locks, pc, obj, local, faults, workload>>

-------------------------------------------------------------------------------
(* Commands: start, _decide, revoke_greenlight and the attachments. *)

Request(c) ==
    /\ pc[c] = "idle"
    /\ \E command \in Commands :
        /\ command[1] \in workload.operations
        /\ cmd' = [cmd EXCEPT ![c] = command]
    /\ Goto(c, "enter")
    /\ UNCHANGED <<stored, heap, cache, locks, obj, expected, token, faults, workload>>

Enter(c) ==
    /\ pc[c] = "enter"
    /\ Acquire({Service(c)}, c)
    /\ Goto(c, "command")
    /\ UNCHANGED <<stored, heap, cache, obj, local, faults, workload>>

\* Under its command lock: replay a receipt, or load the document.
Load(c, document, next) ==
    /\ Acquire({Lock(cmd[c])}, c)
    /\ obj' = [obj EXCEPT ![c] = Fresh]
    /\ Goto(c, next)
    /\ UNCHANGED <<cache, local>>
    /\ Heap([heap EXCEPT ![Fresh] = document])

BeginCommand(c) ==
    /\ pc[c] = "command"
    /\ Free(Lock(cmd[c]), c)
    /\ LET op == cmd[c][1]
       IN  \/ /\ op = "create"
              /\ cmd[c] \notin ledger
              /\ Acquire({Lock(cmd[c])}, c)
              /\ Goto(c, "create")
              /\ UNCHANGED <<heap, cache, obj, local>>
           \/ /\ op \in Decisions
              /\ cmd[c] \notin ledger
              /\ db.status # "absent"
              /\ Load(c, db, "restore")
           \/ /\ op = "attach"
              /\ db.status = "awaiting_greenlight"
              /\ cmd[c][2] \notin db.artifacts
              /\ Load(c, [db EXCEPT !.artifacts = @ \cup {cmd[c][2]}], "save")
           \/ /\ \/ op # "attach" /\ cmd[c] \in ledger
                 \/ op \in Decisions /\ db.status = "absent"
                 \/ op = "approve"  \* a model effect is unresolved
                 \/ op = "attach" /\ db.status # "awaiting_greenlight"
                 \/ op = "attach" /\ cmd[c][2] \in db.artifacts
              /\ UNCHANGED cache
              /\ Finish(c)
    /\ UNCHANGED <<stored, faults, workload>>

\* An existing run is reused, with a receipt of its own.  A new one enters the
\* orchestrator first: queued, or executed inline; an entry left there by an
\* earlier attempt is an error.
Create(c) ==
    /\ pc[c] = "create"
    /\ Free(Lock(Resource), c)
    /\ \/ /\ db.status # "absent"
          /\ ledger' = ledger \cup {cmd[c]}
          /\ UNCHANGED cache
          /\ Finish(c)
       \/ /\ db.status = "absent"
          /\ cache[Home[c]] # None
          /\ UNCHANGED <<ledger, cache>>
          /\ Finish(c)
       \/ /\ db.status = "absent"
          /\ cache[Home[c]] = None
          /\ Acquire({Lock(Resource)}, c)
          /\ cache' = [cache EXCEPT ![Home[c]] = Fresh]
          /\ obj' = [obj EXCEPT ![c] = Fresh]
          /\ Goto(c, "insert")
          /\ UNCHANGED <<ledger, local>>
          /\ \E run \in {[NoDocument EXCEPT !.status = "queued"],
                         [NoDocument EXCEPT !.status = "awaiting_greenlight",
                                            !.progress = Steps]} :
                Heap([heap EXCEPT ![Fresh] = run])
    /\ UNCHANGED <<db, leaseLive, faults, workload>>

Insert(c) ==
    /\ pc[c] = "insert"
    /\ Save(heap[obj[c]], "absent", cmd[c])
    /\ UNCHANGED <<leaseLive, cache, faults, workload>>
    /\ Finish(c)

\* The state a decision requires, of the run the cache now holds and later of
\* the stored one.
Required(op) == IF op = "revoke" THEN "completed" ELSE "awaiting_greenlight"

Decided(run, op) ==
    CASE op = "approve" -> [run EXCEPT !.status = "completed",
                                       !.greenlight = "approved"]
      [] op = "reject"  -> [run EXCEPT !.status = "rejected",
                                       !.greenlight = "rejected"]
      [] op = "revoke"  -> [run EXCEPT !.status = "revoked",
                                       !.greenlight = "revoked"]

\* A decision is also refused when the risk report or the reviewer is not
\* acceptable.
Decide(c) ==
    /\ pc[c] = "decide"
    /\ UNCHANGED <<stored, cache, faults, workload>>
    /\ LET op == cmd[c][1]
           cached == cache[Home[c]]
       IN  \/ /\ heap[cached].status = Required(op)
              /\ obj' = [obj EXCEPT ![c] = cached]
              /\ Goto(c, "save")
              /\ UNCHANGED <<locks, local>>
              /\ Heap([heap EXCEPT ![cached] = Decided(@, op)])
           \/ /\ heap[cached].status = Required(op) => op # "revoke"
              /\ Finish(c)

SaveCommand(c) ==
    /\ pc[c] = "save"
    /\ Save(heap[obj[c]], Required(cmd[c][1]), cmd[c])
    /\ UNCHANGED <<leaseLive, cache, faults, workload>>
    /\ Finish(c)

-------------------------------------------------------------------------------
(* Faults. *)

\* An exception, of the database for one, ends what the thread was doing.
Abort(t) ==
    /\ faults < workload.faults
    /\ faults' = faults + 1
    /\ pc[t] # "idle"
    /\ UNCHANGED <<stored, cache, workload>>
    /\ Finish(t)

\* A process dies and another takes its place, whose worker has a new ID.
Crash(r) ==
    LET dead == {t \in Threads : Home[t] = r}
        Reset(f, value) == [t \in Threads |-> IF t \in dead THEN value ELSE f[t]]
    IN  /\ faults < workload.faults
        /\ faults' = faults + 1
        /\ pc' = Reset(pc, "idle")
        /\ cmd' = Reset(cmd, NoCommand)
        /\ obj' = Reset(obj, None)
        /\ expected' = Reset(expected, "absent")
        /\ token' = Reset(token, 0)
        /\ locks' = {l \in locks : l[2] \notin dead}
        /\ cache' = [cache EXCEPT ![r] = None]
        /\ db' = IF db.owner \in dead THEN [db EXCEPT !.owner = "gone"] ELSE db
        /\ UNCHANGED <<leaseLive, ledger, workload>>
        /\ Heap(heap)

\* The database session that holds an advisory lock ends; its thread goes on.
DropLock(t) ==
    /\ workload.drops
    /\ faults < workload.faults
    /\ faults' = faults + 1
    /\ \E l \in locks : /\ l[2] = t
                        /\ l[1] # Service(t)
                        /\ locks' = locks \ {l}
    /\ UNCHANGED <<stored, heap, cache, pc, obj, local, workload>>

-------------------------------------------------------------------------------

Work(w) == Claim(w) \/ SaveLease(w) \/ RestoreRun(w) \/ Advance(w)
           \/ Checkpoint(w)

Serve(c) == Enter(c) \/ BeginCommand(c) \/ Create(c) \/ Insert(c)
            \/ RestoreRun(c) \/ Decide(c) \/ SaveCommand(c)

Next ==
    \/ \E w \in Workers : Poll(w) \/ Work(w) \/ AdvanceFails(w)
    \/ \E c \in Clients : Request(c) \/ Serve(c)
    \/ \E t \in Threads : Abort(t) \/ DropLock(t)
    \/ \E r \in Replicas : Crash(r)
    \/ ExpireLease

Spec == Init /\ [][Next]_vars

\* The worker polls for ever, and waits between two polls: a thread that waits
\* for a lock gets it.  Leases expire.  Clients need not send anything.
FairSpec ==
    /\ Spec
    /\ \A w \in Workers : SF_vars(Poll(w)) /\ SF_vars(Work(w))
    /\ \A c \in Clients : SF_vars(Serve(c))
    /\ WF_vars(ExpireLease)

-------------------------------------------------------------------------------
(* Properties. *)

\* Every variable holds a value of its type, and a worker or a command that
\* has loaded the run holds an object.
TypeOK ==
    /\ db \in Documents
    /\ leaseLive \in BOOLEAN
    /\ ledger \subseteq Commands \cup ({"checkpoint"} \X Nat)
    /\ heap \in [Objects -> Documents]
    /\ cache \in [Replicas -> Objects \cup {None}]
    /\ locks \subseteq ({Execution, Resource, Lock(Execution)}
                          \cup {<<"service", r>> : r \in Replicas}
                          \cup Commands) \X Threads
    /\ pc \in [Workers \cup Clients -> {"idle", "claim", "save_lease", "restore",
                  "advance", "checkpoint", "enter", "command", "create",
                  "insert", "decide", "save"}]
    /\ \A t \in Threads : pc[t] \in {"save_lease", "restore", "checkpoint",
                                    "insert", "save"} => obj[t] \in Objects
    /\ cmd \in [Threads -> Commands \cup {NoCommand}]
    /\ expected \in [Threads -> Statuses]
    /\ token \in [Threads -> Nat]
    /\ faults \in 0 .. workload.faults

\* While a worker executes a station the stored lease is its own: no other
\* worker has one, and the run was neither executed nor decided meanwhile.
LeaseIsExclusive ==
    \A w \in Workers : pc[w] \in {"restore", "advance", "checkpoint"} =>
        /\ db.owner = w
        /\ db.fence = token[w]
        /\ db.status = expected[w]

\* A worker executes the station that follows the last stored checkpoint: a
\* completed one is never executed again, and none is skipped.
StationsRunOnce ==
    [][\A w \in Workers :
           pc[w] = "advance" /\ pc'[w] = "checkpoint" =>
               heap[cache[Home[w]]].progress = db.progress]_vars

\* The human gate: a run is decided once, by a command whose receipt is in the
\* ledger, and not before its last station.
DecisionsAreReceipted ==
    LET Receipts(op) == {e \in ledger : e[1] = op}
    IN  /\ Cardinality(Receipts("approve") \cup Receipts("reject")) <= 1
        /\ Cardinality(Receipts("revoke")) <= 1
        /\ db.status \in {"completed", "revoked"} <=> Receipts("approve") # {}
        /\ db.status = "rejected" <=> Receipts("reject") # {}
        /\ db.status = "revoked" <=> Receipts("revoke") # {}
        /\ db.greenlight # "none" => db.progress = Steps

\* An attachment reported in the ledger is in the stored run, and stays.
AttachmentsAreKept ==
    \A a \in Artifacts : <<"attach", a>> \in ledger <=> a \in db.artifacts

\* The bundle that was decided on does not change afterwards.
DecidedBundleIsFixed ==
    [][db.greenlight # "none" => db'.artifacts = db.artifacts]_stored

\* A queued run is executed, whatever worker died or lost its lease.
QueuedRunsEnd == db.status \in Runnable ~> db.status \notin Runnable

\* No command waits for ever: the service, store and command locks are taken in
\* an order without a cycle, and given back on every path.
CommandsEnd == \A c \in Clients : pc[c] # "idle" ~> pc[c] = "idle"
================================================================================
