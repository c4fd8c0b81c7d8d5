----------------------------- MODULE AuditLedger -----------------------------
(***************************************************************************)
(* The audit ledger of the tenants: a chain of hashed events per tenant,   *)
(* extended in the transactions of the commands and of the worker, paged   *)
(* by the auditors, verified before a checkpoint is signed, and completed  *)
(* or refused when a process opens the store.                              *)
(*                                                                         *)
(* A hash is the sequence of the events it stands for: two hashes are      *)
(* equal when, and only when, all that was hashed is.  An event is its     *)
(* identifier, which is unique.  With SQLite a transaction is one step,    *)
(* for the threads of the one process share a connection and its lock;     *)
(* with PostgreSQL it takes several, under the advisory lock of the tenant.*)
(***************************************************************************)
EXTENDS Naturals, Sequences, FiniteSets, SequencesExt

CONSTANTS
    Tenants,
    Events,         \* identifiers of events
    TenantOf,       \* event -> the tenant it is about
    Writers,        \* threads whose transactions append an event
    Worker,         \* the writer that executes the runs
    Auditors,       \* threads that read pages and checkpoints
    Legacies,       \* sets of events that were stored before there were hashes
    Workloads,      \* the events, the auditors, bound on rows altered or lost, ...
    None,           \* absence of a value
    Forged,         \* what an altered row says
    MaxSerial       \* bound on the sequence numbers given out

ASSUME EventAssumption == TenantOf \in [Events -> Tenants]
ASSUME WorkerAssumption == Worker \in Writers
ASSUME LegacyAssumption == \A S \in Legacies : S \subseteq Events /\ IsFiniteSet(S)
ASSUME WorkloadAssumption ==
    \A k \in Workloads : /\ k.events \subseteq Events
                         /\ k.auditors \subseteq Auditors
                         /\ k.corruptions \in Nat
ASSUME NoneAssumption ==
    None \notin Events \cup Tenants \cup Writers /\ Forged \notin Events \cup {None}
ASSUME BoundAssumption == MaxSerial \in Nat

VARIABLES
    workload,     \* the member of Workloads of this behaviour
    backend,      \* "sqlite" or "postgresql"
    service,      \* "stopped", "running", or "refused" when the chain is invalid
    rows,         \* audit_events
    heads,        \* audit_chain_heads: tenant -> its head, or NoHead
    serial,       \* last sequence number given out
    lock,         \* tenant -> holder of its advisory lock, or None
    pc,           \* thread -> what it does next
    job,          \* thread -> the event it appends or the tenant it audits
    seen,         \* writer -> head it read; auditor -> rows it read
    cursor,       \* auditor -> tenant -> after_sequence of its next page
    paged,        \* auditor -> sequence numbers of the rows it was given
    checkpoint,   \* auditor -> hash that verify_audit_chain returned
    corruptions,  \* rows altered or lost so far
    history       \* ghost: tenant -> events in the order of their commits

stored == <<rows, heads, serial>>
threads == <<pc, job, seen, checkpoint>>
pages == <<cursor, paged>>
fixed == <<workload, backend>>
ledgerVars == <<fixed, service, stored, lock, threads, pages, corruptions, history>>

Threads == Writers \cup Auditors

NoHead == [count |-> 0, event |-> None, hash |-> <<>>]

\* A row without hashes, as an earlier schema left it.
Plain(e, n) == [sequence |-> n, tenant |-> TenantOf[e], event |-> e,
                previous |-> None, hash |-> None]

LegacyRows(S) == LET order == SetToSeq(S) IN {Plain(order[i], i) : i \in DOMAIN order}

RowsOf(R, t) == {r \in R : r.tenant = t}

\* The i-th row of R is the one up to which there are i rows.
InOrder(R) == [i \in 1..Cardinality(R) |->
                 CHOOSE r \in R : Cardinality({q \in R : q.sequence <= r.sequence}) = i]

EventsOf(R, t) == LET ordered == InOrder(RowsOf(R, t)) IN
                  [i \in DOMAIN ordered |-> ordered[i].event]

InitLedger ==
    /\ workload \in Workloads
    /\ backend \in {"sqlite", "postgresql"}
    /\ service = "stopped"
    /\ \E S \in Legacies :
         /\ rows = LegacyRows(S)
         /\ serial = Cardinality(S)
    /\ heads = [t \in Tenants |-> NoHead]
    /\ lock = [t \in Tenants |-> None]
    /\ pc = [p \in Threads |-> "idle"]
    /\ job = [p \in Threads |-> None]
    /\ seen = [p \in Threads |-> {}]
    /\ cursor = [p \in Auditors |-> [t \in Tenants |-> 0]]
    /\ paged = [p \in Auditors |-> {}]
    /\ checkpoint = [p \in Auditors |-> <<>>]
    /\ corruptions = 0
    /\ history = [t \in Tenants |-> EventsOf(rows, t)]

-------------------------------------------------------------------------------
(* The chain. *)

\* The hash that a row should have: that of the events up to it.
HashUpTo(R, r) == EventsOf({q \in R : q.sequence <= r.sequence}, r.tenant)

HashBefore(R, r) == EventsOf({q \in R : q.sequence < r.sequence}, r.tenant)

Linked(R, r) == r.previous = HashBefore(R, r) /\ r.hash = HashUpTo(R, r)

\* The head that the rows of a tenant call for.
HeadOf(R, t) ==
    LET chain == EventsOf(R, t) IN
    IF chain = <<>> THEN NoHead
    ELSE [count |-> Len(chain), event |-> Last(chain), hash |-> chain]

\* Slip: the rows are linked, and the head is not compared.
VerifiesUnheaded(R, t, head) == \A r \in RowsOf(R, t) : Linked(R, r)

Verifies(R, t, head) ==
    /\ \A r \in RowsOf(R, t) : Linked(R, r)
    /\ head = HeadOf(R, t)

\* A row without hashes gets them from those before it; the others must agree.
Completed(R) == {IF r.hash = None /\ r.previous = None
                 THEN [r EXCEPT !.previous = HashBefore(R, r), !.hash = HashUpTo(R, r)]
                 ELSE r : r \in R}

Acceptable(R, H) ==
    /\ \A r \in Completed(R) : Linked(Completed(R), r)
    /\ \A t \in Tenants : H[t] # NoHead => H[t] = HeadOf(R, t)

\* A process opens the store: it completes the chains, or refuses to start.
Open ==
    /\ service = "stopped"
    /\ IF Acceptable(rows, heads)
       THEN /\ service' = "running"
            /\ rows' = Completed(rows)
            /\ heads' = [t \in Tenants |-> HeadOf(rows, t)]
       ELSE service' = "refused" /\ UNCHANGED <<rows, heads>>
    /\ UNCHANGED <<fixed, serial, lock, threads, pages, corruptions, history>>

\* The process is stopped or dies: what is not committed is rolled back.
Stop ==
    /\ service \in {"running", "refused"}
    /\ service' = "stopped"
    /\ lock' = [t \in Tenants |-> None]
    /\ pc' = [p \in Threads |-> "idle"]
    /\ job' = [p \in Threads |-> None]
    /\ seen' = [p \in Threads |-> {}]
    /\ checkpoint' = [p \in Auditors |-> <<>>]
    /\ UNCHANGED <<fixed, stored, pages, corruptions, history>>

-------------------------------------------------------------------------------
(* Appending: _append_audit. *)

Goto(p, next) == pc' = [pc EXCEPT ![p] = next]

Begin(w, e) ==
    /\ service = "running"
    /\ e \in workload.events
    /\ pc[w] = "idle"
    /\ Goto(w, "append")
    /\ job' = [job EXCEPT ![w] = e]
    /\ UNCHANGED <<fixed, service, stored, lock, seen, checkpoint, pages, corruptions,
                   history>>

\* The transaction ends, committed or rolled back.
EndOf(w) ==
    /\ Goto(w, "idle")
    /\ job' = [job EXCEPT ![w] = None]
    /\ seen' = [seen EXCEPT ![w] = {}]
    /\ lock' = [t \in Tenants |-> IF lock[t] = w THEN None ELSE lock[t]]

\* The row that follows a head, and the head it makes.
RowAfter(head, e, n) ==
    [sequence |-> n, tenant |-> TenantOf[e], event |-> e,
     previous |-> head.hash, hash |-> Append(head.hash, e)]

HeadAt(row) == [count |-> Len(row.hash), event |-> row.event, hash |-> row.hash]

\* An identifier is stored once: a second row with it ends the transaction.
Recorded(e) == \E r \in rows : r.event = e

Commit(row) ==
    /\ rows' = rows \cup {row}
    /\ heads' = [heads EXCEPT ![row.tenant] = HeadAt(row)]
    /\ history' = [history EXCEPT ![row.tenant] = Append(@, row.event)]

\* The commands and verify_audit_chain hold the lock of the service; the worker
\* does not.
AppendSqlite(w) ==
    /\ backend = "sqlite"
    /\ pc[w] = "append"
    /\ w = Worker \/ \A a \in Auditors : pc[a] # "verify"
    /\ serial < MaxSerial
    /\ IF Recorded(job[w])
       THEN UNCHANGED <<stored, history>>
       ELSE /\ Commit(RowAfter(heads[TenantOf[job[w]]], job[w], serial + 1))
            /\ serial' = serial + 1
    /\ EndOf(w)
    /\ UNCHANGED <<fixed, service, checkpoint, pages, corruptions>>

\* Slip: the advisory lock is not taken.
LockChainFree(w) ==
    /\ backend = "postgresql"
    /\ pc[w] = "append"
    /\ Goto(w, "head")
    /\ UNCHANGED <<fixed, service, stored, lock, job, seen, checkpoint, pages,
                   corruptions, history>>

LockChain(w) ==
    /\ backend = "postgresql"
    /\ pc[w] = "append"
    /\ lock[TenantOf[job[w]]] = None
    /\ lock' = [lock EXCEPT ![TenantOf[job[w]]] = w]
    /\ Goto(w, "head")
    /\ UNCHANGED <<fixed, service, stored, job, seen, checkpoint, pages, corruptions,
                   history>>

\* The statement sees what is committed when it starts.
ReadHeadRow(w) ==
    /\ pc[w] = "head"
    /\ seen' = [seen EXCEPT ![w] = {heads[TenantOf[job[w]]]}]
    /\ Goto(w, "insert")
    /\ UNCHANGED <<fixed, service, stored, lock, job, checkpoint, pages, corruptions,
                   history>>

\* The row is inserted; its number is given out whether it commits or not.
Insert(w) ==
    /\ pc[w] = "insert"
    /\ serial < MaxSerial
    /\ serial' = serial + 1
    /\ IF Recorded(job[w])
       THEN EndOf(w)
       ELSE /\ seen' = [seen EXCEPT ![w] =
                 {RowAfter(head, job[w], serial + 1) : head \in seen[w]}]
            /\ Goto(w, "commit")
            /\ UNCHANGED <<lock, job>>
    /\ UNCHANGED <<fixed, service, rows, heads, checkpoint, pages, corruptions, history>>

CommitPostgres(w) ==
    /\ pc[w] = "commit"
    /\ \E row \in seen[w] : Commit(row)
    /\ EndOf(w)
    /\ UNCHANGED <<fixed, service, serial, checkpoint, pages, corruptions>>

\* The command fails after its event is written: nothing of it is kept.
Rollback(w) ==
    /\ pc[w] = "commit"
    /\ EndOf(w)
    /\ UNCHANGED <<fixed, service, stored, checkpoint, pages, corruptions, history>>

-------------------------------------------------------------------------------
(* Auditing. *)

Free(a) == service = "running" /\ pc[a] = "idle" /\ a \in workload.auditors

\* Slip: the page is what was stored after the previous one was read.
PageByCount(a, t) ==
    /\ Free(a)
    /\ LET page == {r \in RowsOf(rows, t) : r.sequence > cursor[a][t]} IN
       /\ page # {}
       /\ paged' = [paged EXCEPT ![a] = @ \cup {r.sequence : r \in page}]
       /\ cursor' = [cursor EXCEPT ![a][t] = serial]
    /\ UNCHANGED <<fixed, service, stored, lock, threads, corruptions, history>>

\* GET /audit-events: the next page begins after the last row of this one.
Page(a, t) ==
    /\ Free(a)
    /\ LET page == {r \in RowsOf(rows, t) : r.sequence > cursor[a][t]} IN
       /\ page # {}
       /\ paged' = [paged EXCEPT ![a] = @ \cup {r.sequence : r \in page}]
       /\ cursor' = [cursor EXCEPT ![a][t] = Last(InOrder(page)).sequence]
    /\ UNCHANGED <<fixed, service, stored, lock, threads, corruptions, history>>

\* The rows; PostgreSQL reads the head in the same transaction, under the lock
\* of the tenant, SQLite when it has the connection's lock again.
ReadRows(a, t) ==
    /\ Free(a)
    /\ backend = "postgresql" => lock[t] = None
    /\ job' = [job EXCEPT ![a] = t]
    /\ seen' = [seen EXCEPT ![a] = rows]
    /\ IF backend = "sqlite"
       THEN Goto(a, "verify") /\ UNCHANGED checkpoint
       ELSE /\ Goto(a, IF Verifies(rows, t, heads[t]) THEN "verified" ELSE "alarm")
            /\ checkpoint' = [checkpoint EXCEPT ![a] = EventsOf(rows, t)]
    /\ UNCHANGED <<fixed, service, stored, lock, pages, corruptions, history>>

Verify(a) ==
    /\ pc[a] = "verify"
    /\ Goto(a, IF Verifies(seen[a], job[a], heads[job[a]]) THEN "verified" ELSE "alarm")
    /\ checkpoint' = [checkpoint EXCEPT ![a] = EventsOf(seen[a], job[a])]
    /\ UNCHANGED <<fixed, service, stored, lock, job, seen, pages, corruptions, history>>

\* The checkpoint is signed and sent, or the verification is reported to fail.
Answer(a) ==
    /\ pc[a] \in {"verified", "alarm"}
    /\ Goto(a, "idle")
    /\ job' = [job EXCEPT ![a] = None]
    /\ seen' = [seen EXCEPT ![a] = {}]
    /\ checkpoint' = [checkpoint EXCEPT ![a] = <<>>]
    /\ UNCHANGED <<fixed, service, stored, lock, pages, corruptions, history>>

-------------------------------------------------------------------------------
(* A row that has its hashes is altered, or lost, in the storage. *)

Corrupt ==
    /\ corruptions < workload.corruptions
    /\ corruptions' = corruptions + 1
    /\ \E r \in {q \in rows : q.hash # None} :
         \/ rows' = rows \ {r}
         \/ rows' = (rows \ {r}) \cup {[r EXCEPT !.event = Forged]}
    /\ UNCHANGED <<fixed, service, heads, serial, lock, threads, pages, history>>

LedgerStep ==
    \/ Corrupt
    \/ \E w \in Writers :
         \/ \E e \in Events : Begin(w, e)
         \/ AppendSqlite(w)
         \/ LockChain(w)
         \/ ReadHeadRow(w)
         \/ Insert(w)
         \/ CommitPostgres(w)
         \/ Rollback(w)
    \/ \E a \in Auditors :
         \/ \E t \in Tenants : Page(a, t) \/ ReadRows(a, t)
         \/ Verify(a)
         \/ Answer(a)

\* The ledger by itself, whose store is never replaced by a backup.
LedgerSpec == InitLedger /\ [][Open \/ LedgerStep \/ Stop]_ledgerVars

-------------------------------------------------------------------------------
(* Properties. *)

\* While no row is altered in the storage, the rows of every tenant are one
\* chain in the order of their commits, and the head is its end, whatever
\* threads and replicas append at the same time.
ChainsAreWhole ==
    (corruptions = 0 /\ service = "running") => \A t \in Tenants :
        /\ Verifies(rows, t, heads[t])
        /\ EventsOf(rows, t) = history[t]

\* An auditor that pages by after_sequence misses no row: when a row commits,
\* no page has gone past its number, although numbers are given out before.
PagesMissNothing ==
    \A a \in Auditors : \A t \in Tenants : \A r \in RowsOf(rows, t) :
        r.sequence <= cursor[a][t] => r.sequence \in paged[a]

\* A checkpoint is signed only for all that was committed, in its order: a row
\* altered or lost before verify_audit_chain reads the rows is noticed, the
\* last ones too, for the head says how many there are.
CheckpointsAreTrue ==
    [][\A a \in Auditors : (pc'[a] = "verified" /\ pc[a] # "verified") =>
           checkpoint'[a] = history[job'[a]]]_ledgerVars

\* audit_integrity_verification_failed is the answer only when the ledger is
\* corrupt.
AlarmsAreTrue == \A a \in Auditors : pc[a] = "alarm" => corruptions > 0
=============================================================================
