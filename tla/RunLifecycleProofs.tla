-------------------------- MODULE RunLifecycleProofs --------------------------
(***************************************************************************)
(* Proofs about RunLifecycle, for any replicas, threads, keys, artifacts   *)
(* and stations, and any number of faults.                                 *)
(*                                                                         *)
(* LInv is the inductive invariant of the worker's lease: which locks each *)
(* thread holds (LockInv), which objects nothing else refers to            *)
(* (PrivateInv), and what a worker that holds the execution lock knows of  *)
(* the stored run (LeaseInv).  It needs that the sessions that hold the    *)
(* locks of workers last (SessionsLast).                                   *)
(*                                                                         *)
(* DInv adds what the documents in memory have to do with the stored one,  *)
(* and the receipts with both.  It needs, besides, that decisions and      *)
(* workers exclude each other (WorkersApart), as they do with SQLite: with *)
(* PostgreSQL, a decision may take the object of a worker.                 *)
(***************************************************************************)
EXTENDS RunLifecycle, FiniteSetTheorems, TLAPS

SessionsLast == \A load \in Workloads : load.drops => load.workers = {}

WorkersApart ==
    SharedDatabase => \A load \in Workloads :
        load.workers = {} \/ load.operations \cap Decisions = {}

WorkerPlaces == {"idle", "claim", "save_lease", "restore", "advance", "checkpoint"}

ClientPlaces == {"idle", "enter", "command", "create", "insert", "restore", "decide",
                 "save"}

\* Where a worker has the execution lock.
Busy == {"save_lease", "restore", "advance", "checkpoint"}

\* Where a client has its service lock, and its command lock.
Commanding == {"create", "insert", "restore", "decide", "save"}
Serving == Commanding \cup {"command"}

\* Where a thread refers to no object.
Unloaded == {"idle", "claim", "enter", "command", "create"}

SoundDocuments == {d \in Documents : d.status \in Runnable => d.progress < Steps}

\* The operations of a client at n.
Operations(n) ==
    CASE n \in {"create", "insert"}  -> {"create"}
      [] n \in {"restore", "decide"} -> Decisions
      [] n = "save"                  -> Decisions \cup {"attach"}
      [] OTHER                       -> Decisions \cup {"attach", "create"}

Types ==
    /\ workload \in Workloads
    /\ db \in SoundDocuments
    /\ heap \in [Objects -> SoundDocuments]
    /\ cache \in [Replicas -> Objects \cup {None}]
    /\ pc \in [Threads -> WorkerPlaces \cup ClientPlaces]
    /\ cmd \in [Threads -> Commands \cup {NoCommand}]
    /\ obj \in [Threads -> Objects \cup {None}]
    /\ expected \in [Threads -> Statuses]
    /\ token \in [Threads -> Nat]

\* The place, the command and the object of a thread fit.
Fits(t, n, k, o) ==
    /\ t \in Workers => n \in WorkerPlaces /\ (n # "idle" => t \in workload.workers)
    /\ t \in Clients => n \in ClientPlaces
    /\ t \in Clients /\ n # "idle" =>
          /\ k \in Commands
          /\ k[1] \in workload.operations /\ k[1] \in Operations(n)
    /\ o = None <=> n \in Unloaded

ThreadInv == \A t \in Threads : Fits(t, pc[t], cmd[t], obj[t])

\* A thread that has put its object in the cache finds one there.
CacheInv == \A t \in Threads : pc[t] \in {"advance", "decide"} => cache[Home[t]] # None

Store == <<"store", None>>

Ids == {Service(t) : t \in Threads} \cup {Lock(Execution), Lock(Resource)}
          \cup {Lock(k) : k \in Commands}

\* The locks that a thread has at n.
Locked(t, n) ==
    /\ t \in Workers /\ n \in Busy => <<Lock(Execution), t>> \in locks
    /\ t \in Clients /\ n \in Serving => <<Service(t), t>> \in locks
    /\ t \in Clients /\ n \in Commanding /\ ~SharedDatabase => <<Store, t>> \in locks

LockInv ==
    /\ locks \subseteq Ids \X Threads
    /\ \A l, m \in locks : l[1] = m[1] => l[2] = m[2]
    /\ \A t \in Threads : Locked(t, pc[t])

\* Nothing but t refers to the object o.
Unshared(t, o) ==
    /\ \A u \in Threads \ {t} : obj[u] # o
    /\ \A r \in Replicas : cache[r] # o

\* Where a thread has an object that only it knows.
Loaded(n, k) == n \in {"save_lease", "restore"} \/ (n = "save" /\ k[1] = "attach")

PrivateInv == \A t \in Threads : Loaded(pc[t], cmd[t]) => Unshared(t, obj[t])

\* What a worker at n, with its object o, may rely on, having read the status x
\* and stored the fence k.
Leased(w, n, o, x, k) ==
    /\ n \in Busy => x \in Runnable /\ db.status = x
    /\ n = "save_lease" => heap[o].status = x
    /\ n \in {"restore", "advance", "checkpoint"} => db.owner = w /\ db.fence = k

LeaseInv == \A w \in Workers : Leased(w, pc[w], obj[w], expected[w], token[w])

LInv == Types /\ ThreadInv /\ CacheInv /\ LockInv /\ PrivateInv /\ LeaseInv

-------------------------------------------------------------------------------
(* The documents. *)

\* A document that is decided is complete.
Whole(d) ==
    /\ d.status \in {"awaiting_greenlight", "completed", "rejected", "revoked"} =>
          d.progress = Steps
    /\ d.greenlight # "none" <=> d.status \in {"completed", "rejected", "revoked"}

\* Each object in use has one thread, and a thread that has put its object in
\* the cache finds it there.
OwnInv ==
    /\ \A t, u \in Threads : obj[t] # None /\ obj[t] = obj[u] => t = u
    /\ \A t \in Threads : pc[t] \in {"advance", "decide"} => cache[Home[t]] = obj[t]

\* The document d of a worker at n, next to the stored one.
WorkerHas(n, d) ==
    /\ n \in {"save_lease", "restore", "advance"} =>
          d.status = db.status /\ d.progress = db.progress
    /\ n \in Busy => d.artifacts = db.artifacts
    /\ n = "checkpoint" => d.status \in {"running", "awaiting_greenlight", "failed"}

\* What a decision makes of the status.
Outcome(op) == CASE op = "approve" -> "completed"
                 [] op = "reject"  -> "rejected"
                 [] op = "revoke"  -> "revoked"

\* The document d of a client at n with the command k, next to the stored one.
ClientHas(n, k, d) ==
    /\ n = "insert" => d.status \in {"queued", "awaiting_greenlight"} /\ d.artifacts = {}
    /\ n \in {"restore", "decide"} =>
          /\ d.status # "absent"
          /\ ~SharedDatabase => d.artifacts = db.artifacts
          /\ d.status = "completed" =>
                db.status \in {"completed", "revoked"} /\ d.artifacts = db.artifacts
    /\ n = "save" /\ k[1] = "attach" =>
          /\ d.status = "awaiting_greenlight"
          /\ ~SharedDatabase => d.artifacts = db.artifacts \cup {k[2]}
    /\ n = "save" /\ k[1] \in Decisions =>
          /\ d.status = Outcome(k[1])
          /\ ~SharedDatabase => d.artifacts = db.artifacts
          /\ k[1] = "revoke" =>
                db.status \in {"completed", "revoked"} /\ d.artifacts = db.artifacts

DocumentInv ==
    /\ Whole(db) /\ \A o \in Objects : Whole(heap[o])
    /\ \A w \in Workers : obj[w] # None => WorkerHas(pc[w], heap[obj[w]])
    /\ \A c \in Clients : obj[c] # None => ClientHas(pc[c], cmd[c], heap[obj[c]])

Receipts(op) == {e \in ledger : e[1] = op}

ReceiptInv ==
    /\ \A e, f \in Receipts("approve") \cup Receipts("reject") : e = f
    /\ \A e, f \in Receipts("revoke") : e = f
    /\ db.status \in {"completed", "revoked"} <=> Receipts("approve") # {}
    /\ db.status = "rejected" <=> Receipts("reject") # {}
    /\ db.status = "revoked" <=> Receipts("revoke") # {}

AttachInv ==
    ~SharedDatabase => /\ AttachmentsAreKept
                       /\ db.status = "absent" => db.artifacts = {}

DInv == OwnInv /\ DocumentInv /\ ReceiptInv /\ AttachInv

-------------------------------------------------------------------------------
(* Objects. *)

Unused == Objects \ ({obj[t] : t \in Threads} \cup {cache[r] : r \in Replicas})

LEMMA ImageIsSmall ==
  ASSUME NEW S, IsFiniteSet(S), NEW f
  PROVE  /\ IsFiniteSet({f[x] : x \in S})
         /\ Cardinality({f[x] : x \in S}) <= Cardinality(S)
<1> DEFINE T == {f[x] : x \in S}
           g == [x \in S |-> f[x]]
<1>1. g \in Surjection(S, T)
  BY DEF Surjection
<1>2. QED BY <1>1, FS_Surjection

LEMMA NumbersOfThreads ==
  /\ IsFiniteSet(Threads) /\ IsFiniteSet(Replicas)
  /\ Cardinality(Threads) \in Nat /\ Cardinality(Replicas) \in Nat
  /\ Home \in [Threads -> Replicas]
  /\ None \notin Objects
  /\ Workers \cup Clients = Threads /\ Workers \cap Clients = {}
<1>1. /\ IsFiniteSet(Threads) /\ IsFiniteSet(Replicas)
      /\ Home \in [Threads -> Replicas] /\ Workers \cap Clients = {}
  BY ThreadAssumption
<1>2. Cardinality(Threads) \in Nat /\ Cardinality(Replicas) \in Nat
  BY <1>1, FS_CardinalityType
<1>3. None \notin Objects
  BY <1>2, NoneAssumption DEF Objects
<1>4. QED BY <1>1, <1>2, <1>3 DEF Threads

\* A thread that refers to no object finds one that nothing refers to.
LEMMA FreshIsUnused ==
  ASSUME NEW t \in Threads, obj[t] = None
  PROVE  Fresh \in Unused
<1> DEFINE others == Threads \ {t}
           S == {obj[u] : u \in others}
           R == {cache[r] : r \in Replicas}
<1>1. /\ IsFiniteSet(others) /\ Cardinality(others) = Cardinality(Threads) - 1
  BY NumbersOfThreads, FS_RemoveElement
<1>2. IsFiniteSet(S) /\ Cardinality(S) <= Cardinality(others)
  <2> HIDE DEF others
  <2>1. QED BY <1>1, ImageIsSmall
<1>3. IsFiniteSet(R) /\ Cardinality(R) <= Cardinality(Replicas)
  BY NumbersOfThreads, ImageIsSmall
<1>4. /\ Cardinality(S) \in Nat /\ Cardinality(R) \in Nat
      /\ Cardinality(S \cap R) \in Nat
  <2> HIDE DEF S, R
  <2>1. IsFiniteSet(S \cap R)
    BY <1>2, FS_Subset
  <2>2. QED BY <2>1, <1>2, <1>3, FS_CardinalityType
<1>5. /\ IsFiniteSet(S \cup R)
      /\ Cardinality(S \cup R) < Cardinality(Threads) + Cardinality(Replicas)
  <2> HIDE DEF S, R, others
  <2>1. Cardinality(S \cup R) = Cardinality(S) + Cardinality(R) - Cardinality(S \cap R)
    BY <1>2, <1>3, FS_Union
  <2>2. QED BY <2>1, <1>1, <1>2, <1>3, <1>4, NumbersOfThreads, FS_Union
<1>6. Cardinality(Objects) = Cardinality(Threads) + Cardinality(Replicas)
  <2>1. 1 \in Int /\ Cardinality(Threads) + Cardinality(Replicas) \in Nat
    BY NumbersOfThreads
  <2>2. QED BY <2>1, FS_Interval DEF Objects
<1>7. ~(Objects \subseteq S \cup R)
  <2> HIDE DEF S, R, others
  <2>1. SUFFICES ASSUME Objects \subseteq S \cup R PROVE FALSE
    OBVIOUS
  <2>2. Cardinality(Objects) <= Cardinality(S \cup R)
    BY <2>1, <1>5, FS_Subset
  <2>3. Cardinality(S \cup R) \in Nat
    BY <1>5, FS_CardinalityType
  <2>4. QED BY <2>2, <2>3, <1>5, <1>6, NumbersOfThreads
<1>8. \E o \in Objects : o \notin {obj[u] : u \in Threads} \cup {cache[r] : r \in Replicas}
  <2>1. PICK o \in Objects : o \notin S \cup R
    BY <1>7
  <2>2. o # obj[t]
    BY NumbersOfThreads
  <2>3. QED BY <2>1, <2>2
<1>9. QED BY <1>8 DEF Fresh, Unused

\* The objects that something still refers to are as the step has left them.
LEMMA HeapWrites ==
  ASSUME NEW h \in [Objects -> SoundDocuments], Heap(h)
  PROVE  /\ heap' \in [Objects -> SoundDocuments]
         /\ \A u \in Threads : obj'[u] \in Objects => heap'[obj'[u]] = h[obj'[u]]
         /\ \A o \in Objects : heap'[o] \in {h[o], NoDocument}
<1>1. NoDocument \in SoundDocuments
  BY StepAssumption DEF NoDocument, SoundDocuments, Documents, Statuses, Runnable
<1>2. QED BY <1>1 DEF Heap

-------------------------------------------------------------------------------
(* Steps of one thread. *)

Places == WorkerPlaces \cup ClientPlaces

\* Take writes the registers of one thread.
Take(t, n, k, o, x, g) ==
    /\ pc' = [pc EXCEPT ![t] = n]
    /\ cmd' = [cmd EXCEPT ![t] = k]
    /\ obj' = [obj EXCEPT ![t] = o]
    /\ expected' = [expected EXCEPT ![t] = x]
    /\ token' = [token EXCEPT ![t] = g]

\* The registers have their types, and those of the others are as they were.
Others(t) ==
    /\ pc' \in [Threads -> Places]
    /\ cmd' \in [Threads -> Commands \cup {NoCommand}]
    /\ obj' \in [Threads -> Objects \cup {None}]
    /\ expected' \in [Threads -> Statuses]
    /\ token' \in [Threads -> Nat]
    /\ \A u \in Threads \ {t} :
          /\ pc'[u] = pc[u] /\ cmd'[u] = cmd[u] /\ obj'[u] = obj[u]
          /\ expected'[u] = expected[u] /\ token'[u] = token[u]

LEMMA TakeWrites ==
  ASSUME Types, NEW t \in Threads, NEW n \in Places, NEW k \in Commands \cup {NoCommand},
         NEW o \in Objects \cup {None}, NEW x \in Statuses, NEW g \in Nat,
         Take(t, n, k, o, x, g)
  PROVE  /\ Others(t)
         /\ pc'[t] = n /\ cmd'[t] = k /\ obj'[t] = o /\ expected'[t] = x /\ token'[t] = g
<1>1. /\ pc' \in [Threads -> Places] /\ pc'[t] = n
      /\ \A u \in Threads \ {t} : pc'[u] = pc[u]
  BY DEF Types, Take, Places
<1>2. /\ cmd' \in [Threads -> Commands \cup {NoCommand}] /\ cmd'[t] = k
      /\ \A u \in Threads \ {t} : cmd'[u] = cmd[u]
  BY DEF Types, Take
<1>3. /\ obj' \in [Threads -> Objects \cup {None}] /\ obj'[t] = o
      /\ \A u \in Threads \ {t} : obj'[u] = obj[u]
  BY DEF Types, Take
<1>4. /\ expected' \in [Threads -> Statuses] /\ expected'[t] = x
      /\ \A u \in Threads \ {t} : expected'[u] = expected[u]
  BY DEF Types, Take
<1>5. /\ token' \in [Threads -> Nat] /\ token'[t] = g
      /\ \A u \in Threads \ {t} : token'[u] = token[u]
  BY DEF Types, Take
<1>6. QED BY <1>1, <1>2, <1>3, <1>4, <1>5 DEF Others

\* The registers that a step does not write.
LEMMA Unwritten ==
  ASSUME Types, NEW t \in Threads
  PROVE  /\ cmd[t] \in Commands \cup {NoCommand} /\ obj[t] \in Objects \cup {None}
         /\ expected[t] \in Statuses /\ token[t] \in Nat /\ pc[t] \in Places
         /\ UNCHANGED cmd => cmd' = [cmd EXCEPT ![t] = cmd[t]]
         /\ UNCHANGED obj => obj' = [obj EXCEPT ![t] = obj[t]]
         /\ UNCHANGED expected => expected' = [expected EXCEPT ![t] = expected[t]]
         /\ UNCHANGED token => token' = [token EXCEPT ![t] = token[t]]
<1>1. /\ cmd[t] \in Commands \cup {NoCommand}
      /\ UNCHANGED cmd => cmd' = [cmd EXCEPT ![t] = cmd[t]]
  BY DEF Types
<1>2. obj[t] \in Objects \cup {None} /\ (UNCHANGED obj => obj' = [obj EXCEPT ![t] = obj[t]])
  BY DEF Types
<1>3. /\ expected[t] \in Statuses
      /\ UNCHANGED expected => expected' = [expected EXCEPT ![t] = expected[t]]
  BY DEF Types
<1>4. token[t] \in Nat /\ (UNCHANGED token => token' = [token EXCEPT ![t] = token[t]])
  BY DEF Types
<1>5. pc[t] \in Places
  BY DEF Types, Places
<1>6. QED BY <1>1, <1>2, <1>3, <1>4, <1>5

\* Cached objects come from the cache, from the thread, or are new.
Cached(t) ==
    \A r \in Replicas : /\ cache'[r] \in {None, cache[r], obj[t]} \cup Unused
                        /\ cache'[r] = None => cache[r] = None

\* A step of t leaves the objects of the others alone, but for x.
Spares(t, x) ==
    /\ heap' \in [Objects -> SoundDocuments]
    /\ \A u \in Threads \ {t} : obj[u] # None /\ obj[u] # x => heap'[obj[u]] = heap[obj[u]]

\* A step of t that writes the object x, or none: it knows the objects that it
\* has and those of the cache.
Moves(t, x) ==
    /\ Others(t)
    /\ UNCHANGED workload
    /\ cache' \in [Replicas -> Objects \cup {None}] /\ Cached(t)
    /\ obj'[t] \in {None, obj[t], cache[Home[t]]} \cup Unused
    /\ x \in {None, obj[t], cache[Home[t]]} \cup Unused
    /\ Spares(t, x)

LEMMA ThreadsKeep ==
  ASSUME Types, ThreadInv, NEW t \in Threads, NEW x, Moves(t, x),
         Fits(t, pc'[t], cmd'[t], obj'[t])
  PROVE  ThreadInv'
<1>1. ASSUME NEW u \in Threads PROVE Fits(u, pc[u], cmd[u], obj[u])'
  <2>1. CASE u = t
    BY <2>1 DEF Fits, Moves
  <2>2. CASE u # t
    BY <2>2 DEF Fits, ThreadInv, Moves, Others
  <2>3. QED BY <2>1, <2>2
<1>2. QED BY <1>1 DEF ThreadInv

LEMMA PrivatesKeep ==
  ASSUME Types, ThreadInv, PrivateInv, NEW t \in Threads, NEW x, Moves(t, x),
         Loaded(pc'[t], cmd'[t]) => \/ obj'[t] \in Unused /\ UNCHANGED cache
                                    \/ Unshared(t, obj[t]) /\ UNCHANGED <<obj, cache>>
  PROVE  PrivateInv'
<1>1. ASSUME NEW u \in Threads, Loaded(pc'[u], cmd'[u]) PROVE Unshared(u, obj[u])'
  <2>1. CASE u = t
    <3>1. CASE obj'[t] \in Unused /\ UNCHANGED cache
      BY <2>1, <3>1 DEF Unshared, Moves, Others, Unused
    <3>2. CASE Unshared(t, obj[t]) /\ UNCHANGED <<obj, cache>>
      BY <2>1, <3>2 DEF Unshared
    <3>3. QED BY <2>1, <1>1, <3>1, <3>2
  <2>2. CASE u # t
    <3>1. pc'[u] = pc[u] /\ cmd'[u] = cmd[u] /\ obj'[u] = obj[u]
      BY <2>2 DEF Moves, Others
    <3>2. Unshared(u, obj[u])
      BY <1>1, <3>1 DEF PrivateInv
    <3>3. obj[u] # None
      BY <1>1, <3>1 DEF ThreadInv, Fits, Loaded, Unloaded
    <3>4. obj'[t] # obj[u]
      <4>1. obj'[t] \in {None, obj[t], cache[Home[t]]} \cup Unused
        BY DEF Moves
      <4>2. Home[t] \in Replicas
        BY NumbersOfThreads
      <4>3. QED BY <2>2, <3>2, <3>3, <4>1, <4>2 DEF Unshared, Unused
    <3>5. ASSUME NEW v \in Threads \ {u} PROVE obj'[v] # obj[u]
      <4>1. CASE v = t
        BY <4>1, <3>4
      <4>2. CASE v # t
        BY <4>2, <3>2 DEF Unshared, Moves, Others
      <4>3. QED BY <4>1, <4>2
    <3>6. ASSUME NEW r \in Replicas PROVE cache'[r] # obj[u]
      <4>1. cache'[r] \in {None, cache[r], obj[t]} \cup Unused
        BY DEF Moves, Cached
      <4>2. QED BY <2>2, <3>2, <3>3, <4>1 DEF Unshared, Unused
    <3>7. QED BY <3>1, <3>5, <3>6 DEF Unshared
  <2>3. QED BY <2>1, <2>2
<1>2. QED BY <1>1 DEF PrivateInv

\* The stored run, as far as the worker u may rely on it.
SameLease(u) ==
    pc[u] \in Busy => /\ db'.status = db.status
                      /\ db.owner = u => db'.owner = u
                      /\ db'.fence = db.fence

LEMMA LeasesKeep ==
  ASSUME Types, ThreadInv, PrivateInv, LeaseInv, NEW t \in Threads, NEW x, Moves(t, x),
         \A u \in Workers \ {t} : SameLease(u),
         t \in Workers => Leased(t, pc[t], obj[t], expected[t], token[t])'
  PROVE  LeaseInv'
<1>1. ASSUME NEW u \in Workers PROVE Leased(u, pc[u], obj[u], expected[u], token[u])'
  <2>1. CASE u = t
    BY <2>1 DEF Leased
  <2>2. CASE u # t
    <3>1. /\ pc'[u] = pc[u] /\ cmd'[u] = cmd[u] /\ obj'[u] = obj[u]
          /\ expected'[u] = expected[u] /\ token'[u] = token[u]
          /\ u \in Threads
      BY <2>2, NumbersOfThreads DEF Moves, Others
    <3>2. Leased(u, pc[u], obj[u], expected[u], token[u]) /\ SameLease(u)
      BY <2>2 DEF LeaseInv
    <3>3. pc[u] = "save_lease" => heap'[obj[u]] = heap[obj[u]]
      <4>1. pc[u] = "save_lease" => Unshared(u, obj[u]) /\ obj[u] # None
        BY <3>1 DEF PrivateInv, Loaded, ThreadInv, Fits, Unloaded
      <4>2. ASSUME Unshared(u, obj[u]), obj[u] # None PROVE obj[u] # x
        <5>1. x \in {None, obj[t], cache[Home[t]]} \cup Unused /\ Home[t] \in Replicas
          BY NumbersOfThreads DEF Moves
        <5>2. QED BY <2>2, <3>1, <4>2, <5>1 DEF Unshared, Unused
      <4>3. QED BY <2>2, <3>1, <4>1, <4>2 DEF Moves, Spares
    <3>4. QED BY <3>1, <3>2, <3>3 DEF Leased, SameLease, Busy
  <2>3. QED BY <2>1, <2>2
<1>2. QED BY <1>1 DEF LeaseInv

LEMMA WritesOne ==
  ASSUME Types, NEW t \in Threads, Others(t), NEW x \in Objects, NEW d \in SoundDocuments,
         Heap([heap EXCEPT ![x] = d])
  PROVE  /\ Spares(t, x)
         /\ obj'[t] = x => heap'[x] = d
         /\ obj'[t] \in Objects \ {x} => heap'[obj'[t]] = heap[obj'[t]]
         /\ \A o \in Objects : heap'[o] \in {heap[o], d, NoDocument}
<1> DEFINE h == [heap EXCEPT ![x] = d]
<1>1. /\ h \in [Objects -> SoundDocuments] /\ h[x] = d
      /\ \A o \in Objects \ {x} : h[o] = heap[o]
  BY DEF Types
<1> HIDE DEF h
<1>2. Heap(h)
  BY DEF h
<1>3. /\ heap' \in [Objects -> SoundDocuments]
      /\ \A u \in Threads : obj'[u] \in Objects => heap'[obj'[u]] = h[obj'[u]]
      /\ \A o \in Objects : heap'[o] \in {h[o], NoDocument}
  BY <1>1, <1>2, HeapWrites
<1>4. \A u \in Threads \ {t} : obj'[u] = obj[u] /\ (obj[u] # None => obj[u] \in Objects)
  BY DEF Others, Types
<1>5. Spares(t, x)
  BY <1>1, <1>3, <1>4 DEF Spares
<1>6. QED BY <1>1, <1>3, <1>5

LEMMA WritesNone ==
  ASSUME Types, NEW t \in Threads, Others(t), Heap(heap) \/ UNCHANGED heap
  PROVE  /\ Spares(t, None)
         /\ obj'[t] \in Objects => heap'[obj'[t]] = heap[obj'[t]]
         /\ \A o \in Objects : heap'[o] \in {heap[o], NoDocument}
<1>1. heap \in [Objects -> SoundDocuments]
  BY DEF Types
<1>2. \A u \in Threads \ {t} : obj'[u] = obj[u] /\ (obj[u] # None => obj[u] \in Objects)
  BY DEF Others, Types
<1>3. CASE Heap(heap)
  BY <1>1, <1>2, <1>3, HeapWrites DEF Spares
<1>4. CASE UNCHANGED heap
  BY <1>1, <1>4 DEF Spares
<1>5. QED BY <1>3, <1>4

-------------------------------------------------------------------------------
(* Locks. *)

Exclusive(L) == \A l, m \in L : l[1] = m[1] => l[2] = m[2]

LEMMA LocksKeep ==
  ASSUME LockInv, NEW t \in Threads, Others(t),
         locks' \subseteq Ids \X Threads, Exclusive(locks'),
         \A l \in locks : l[2] # t => l \in locks',
         NEW n, pc'[t] = n, Locked(t, n)'
  PROVE  LockInv'
<1>1. ASSUME NEW u \in Threads PROVE Locked(u, pc[u])'
  <2>1. CASE u = t
    BY <2>1 DEF Locked
  <2>2. CASE u # t
    <3>1. pc'[u] = pc[u] /\ Locked(u, pc[u])
      BY <2>2 DEF Others, LockInv
    <3>2. \A id : <<id, u>> \in locks => <<id, u>> \in locks'
      BY <2>2
    <3>3. QED BY <3>1, <3>2 DEF Locked
  <2>3. QED BY <2>1, <2>2
<1>2. QED BY <1>1 DEF LockInv, Exclusive

LEMMA SameLocks ==
  ASSUME LockInv, NEW t \in Threads, Others(t), UNCHANGED locks,
         NEW n, pc'[t] = n, Locked(t, n)
  PROVE  LockInv'
<1>1. locks' \subseteq Ids \X Threads /\ Exclusive(locks')
  BY DEF LockInv, Exclusive
<1>2. Locked(t, n)'
  BY DEF Locked
<1>3. QED BY <1>1, <1>2, LocksKeep

LEMMA AcquireKeeps ==
  ASSUME LockInv, NEW t \in Threads, Others(t), NEW ids \in SUBSET Ids, Acquire(ids, t),
         NEW n, pc'[t] = n,
         /\ t \in Workers /\ n \in Busy =>
               Lock(Execution) \in ids \/ pc[t] \in Busy
         /\ t \in Clients /\ n \in Serving =>
               Service(t) \in ids \/ pc[t] \in Serving
         /\ t \in Clients /\ n \in Commanding /\ ~SharedDatabase =>
               Store \in ids \/ pc[t] \in Commanding
  PROVE  LockInv'
<1>1. locks' = locks \cup (ids \X {t})
  BY DEF Acquire
<1>2. locks' \subseteq Ids \X Threads
  BY <1>1 DEF LockInv
<1>3. Exclusive(locks')
  <2>1. SUFFICES ASSUME NEW l \in locks', NEW m \in locks', l[1] = m[1] PROVE l[2] = m[2]
    BY DEF Exclusive
  <2>2. \A i \in ids \X {t} : i[1] \in ids /\ i[2] = t
    OBVIOUS
  <2>3. \A i \in locks, j \in ids \X {t} : i[1] = j[1] => i[2] = t
    BY <2>2 DEF Acquire, Free
  <2>4. QED BY <1>1, <2>1, <2>2, <2>3 DEF LockInv
<1>4. \A id \in ids : <<id, t>> \in locks'
  BY <1>1
<1>5. Locked(t, pc[t])
  BY DEF LockInv
<1>6. Locked(t, n)'
  BY <1>1, <1>4, <1>5 DEF Locked
<1>7. QED BY <1>1, <1>2, <1>3, <1>6, LocksKeep

LEMMA LetGoKeeps ==
  ASSUME LockInv, NEW t \in Threads, Others(t), locks' = {l \in locks : l[2] # t},
         pc'[t] = "idle"
  PROVE  LockInv'
<1>1. locks' \subseteq Ids \X Threads /\ Exclusive(locks')
  BY DEF LockInv, Exclusive
<1>2. Locked(t, "idle")'
  BY DEF Locked, Busy, Serving, Commanding
<1>3. QED BY <1>1, <1>2, LocksKeep

\* Two workers do not execute at the same time.
LEMMA OneBusy ==
  ASSUME LockInv, NEW u \in Workers, NEW w \in Workers, pc[u] \in Busy, pc[w] \in Busy
  PROVE  u = w
<1>1. u \in Threads /\ w \in Threads
  BY NumbersOfThreads
<1>2. <<Lock(Execution), u>> \in locks /\ <<Lock(Execution), w>> \in locks
  BY <1>1 DEF LockInv, Locked
<1>3. QED BY <1>2 DEF LockInv

\* No two requests of one replica are served at the same time.
LEMMA OneServed ==
  ASSUME LockInv, NEW c \in Clients, NEW d \in Clients, Home[c] = Home[d],
         pc[c] \in Serving, pc[d] \in Serving
  PROVE  c = d
<1>1. c \in Threads /\ d \in Threads
  BY NumbersOfThreads
<1>2. <<Service(c), c>> \in locks /\ <<Service(c), d>> \in locks
  BY <1>1 DEF LockInv, Locked, Service
<1>3. QED BY <1>2 DEF LockInv

\* With SQLite, whoever works on the run is alone.
Critical(t) == pc[t] \in Busy \cup Commanding

LEMMA OneCritical ==
  ASSUME LockInv, ThreadInv, ~SharedDatabase, NEW t \in Threads, NEW u \in Threads,
         Critical(t), Critical(u)
  PROVE  t = u
<1>1. ASSUME NEW v \in Threads, Critical(v) PROVE <<Store, v>> \in locks
  <2>1. Lock(Execution) = Store
    BY DEF Lock, Store
  <2>2. CASE v \in Workers
    <3>1. pc[v] \in Busy
      BY <1>1, <2>2 DEF ThreadInv, Fits, Critical, Busy, Commanding, WorkerPlaces
    <3>2. QED BY <2>1, <2>2, <3>1 DEF LockInv, Locked
  <2>3. CASE v \in Clients
    <3>1. pc[v] \in Commanding
      BY <1>1, <2>3 DEF ThreadInv, Fits, Critical, Busy, Commanding, ClientPlaces
    <3>2. QED BY <2>3, <3>1 DEF LockInv, Locked
  <2>4. QED BY <2>2, <2>3, NumbersOfThreads
<1>2. <<Store, t>> \in locks /\ <<Store, u>> \in locks
  BY <1>1
<1>3. QED BY <1>2 DEF LockInv

-------------------------------------------------------------------------------
(* The lease: what each step keeps. *)

LEMMA LeaseMoves ==
  ASSUME LInv, NEW t \in Threads, NEW x, Moves(t, x),
         NEW n, NEW k, NEW o, NEW y, NEW g,
         pc'[t] = n, cmd'[t] = k, obj'[t] = o, expected'[t] = y, token'[t] = g,
         db' \in SoundDocuments, Fits(t, n, k, o), LockInv',
         n \in {"advance", "decide"} => cache'[Home[t]] # None,
         Loaded(n, k) => \/ o \in Unused /\ UNCHANGED cache
                         \/ Unshared(t, obj[t]) /\ UNCHANGED <<obj, cache>>,
         \A u \in Workers \ {t} : SameLease(u),
         t \in Workers => Leased(t, n, o, y, g)'
  PROVE  LInv'
<1>1. Types /\ ThreadInv /\ CacheInv /\ PrivateInv /\ LeaseInv
  BY DEF LInv
<1>2. Types'
  BY <1>1 DEF Types, Moves, Others, Spares, Places
<1>3. ThreadInv'
  BY <1>1, ThreadsKeep
<1>4. PrivateInv'
  BY <1>1, PrivatesKeep
<1>5. LeaseInv'
  <2>1. t \in Workers => Leased(t, pc[t], obj[t], expected[t], token[t])'
    BY DEF Leased
  <2>2. QED BY <1>1, <2>1, LeasesKeep
<1>6. CacheInv'
  <2>1. ASSUME NEW u \in Threads, pc'[u] \in {"advance", "decide"}
        PROVE  cache'[Home[u]] # None
    <3>1. CASE u = t
      BY <2>1, <3>1
    <3>2. CASE u # t
      <4>1. pc'[u] = pc[u] /\ Home[u] \in Replicas
        BY <3>2, NumbersOfThreads DEF Moves, Others
      <4>2. QED BY <1>1, <2>1, <4>1 DEF CacheInv, Moves, Cached
    <3>3. QED BY <3>1, <3>2
  <2>2. QED BY <2>1 DEF CacheInv
<1>7. QED BY <1>2, <1>3, <1>4, <1>5, <1>6 DEF LInv

LEMMA Facts ==
  ASSUME LInv, NEW t \in Threads
  PROVE  /\ Types /\ ThreadInv /\ LockInv
         /\ Fits(t, pc[t], cmd[t], obj[t])
         /\ cmd[t] \in Commands \cup {NoCommand} /\ obj[t] \in Objects \cup {None}
         /\ expected[t] \in Statuses /\ token[t] \in Nat /\ pc[t] \in Places
         /\ Home[t] \in Replicas /\ cache[Home[t]] \in Objects \cup {None}
         /\ None \notin Objects
  BY NumbersOfThreads DEF LInv, Types, ThreadInv, Places

LEMMA OtherLeases ==
  ASSUME NEW t, UNCHANGED db
  PROVE  \A u \in Workers \ {t} : SameLease(u)
  BY DEF SameLease

\* A client that works on the run is a client; the same for workers.
LEMMA Sorts ==
  /\ \A w \in Workers : w \in Threads /\ w \notin Clients
  /\ \A c \in Clients : c \in Threads /\ c \notin Workers
  BY NumbersOfThreads

LEMMA FinishMoves ==
  ASSUME Types, NEW t \in Threads, Finish(t), UNCHANGED <<cache, workload>>
  PROVE  /\ Moves(t, None)
         /\ pc'[t] = "idle" /\ cmd'[t] = NoCommand /\ obj'[t] = None
         /\ expected'[t] = "absent" /\ token'[t] = 0
         /\ \A o \in Objects : heap'[o] \in {heap[o], NoDocument}
<1>1. Take(t, "idle", NoCommand, None, "absent", 0)
  BY DEF Finish, Goto, Take
<1>2. "idle" \in Places /\ "absent" \in Statuses
  BY DEF Places, WorkerPlaces, Statuses
<1>3. /\ Others(t) /\ pc'[t] = "idle" /\ cmd'[t] = NoCommand /\ obj'[t] = None
      /\ expected'[t] = "absent" /\ token'[t] = 0
  BY <1>1, <1>2, TakeWrites
<1>4. Heap(heap)
  BY DEF Finish
<1>5. /\ Spares(t, None)
      /\ \A o \in Objects : heap'[o] \in {heap[o], NoDocument}
  BY <1>3, <1>4, WritesNone
<1>6. cache' \in [Replicas -> Objects \cup {None}] /\ Cached(t)
  BY DEF Types, Cached
<1>7. QED BY <1>3, <1>5, <1>6 DEF Moves

LEMMA FinishKeeps ==
  ASSUME LInv, NEW t \in Threads, Finish(t), UNCHANGED <<cache, workload>>,
         db' \in SoundDocuments, \A u \in Workers \ {t} : SameLease(u)
  PROVE  LInv'
<1>1. Types /\ LockInv
  BY DEF LInv
<1>2. /\ Moves(t, None)
      /\ pc'[t] = "idle" /\ cmd'[t] = NoCommand /\ obj'[t] = None
      /\ expected'[t] = "absent" /\ token'[t] = 0
  BY <1>1, FinishMoves
<1>3. LockInv'
  <2>1. locks' = {l \in locks : l[2] # t}
    BY DEF Finish
  <2>2. Others(t)
    BY <1>2 DEF Moves
  <2>3. QED BY <1>1, <1>2, <2>1, <2>2, LetGoKeeps
<1>4. Fits(t, "idle", NoCommand, None)
  BY DEF Fits, WorkerPlaces, ClientPlaces, Unloaded
<1>5. ~Loaded("idle", NoCommand)
  BY DEF Loaded
<1>6. Leased(t, "idle", None, "absent", 0)'
  BY DEF Leased, Busy
<1>7. QED BY <1>2, <1>3, <1>4, <1>5, <1>6, LeaseMoves

\* A step that writes neither the heap nor the cache, and refers to no object more.
LEMMA StillMoves ==
  ASSUME Types, NEW t \in Threads, Others(t), UNCHANGED <<workload, cache, heap>>,
         obj'[t] = obj[t]
  PROVE  Moves(t, None) /\ (obj[t] \in Objects => heap'[obj[t]] = heap[obj[t]])
<1>1. Spares(t, None)
  BY WritesNone
<1>2. cache' \in [Replicas -> Objects \cup {None}] /\ Cached(t)
  BY DEF Types, Cached
<1>3. QED BY <1>1, <1>2 DEF Moves

-------------------------------------------------------------------------------
(* The lease: steps of the workers. *)

LEMMA PollKeeps ==
  ASSUME LInv, NEW w \in Workers, Poll(w)
  PROVE  LInv' /\ Moves(w, None) /\ pc'[w] = "claim" /\ obj'[w] = None
<1>1. w \in Threads /\ w \notin Clients /\ pc[w] = "idle" /\ w \in workload.workers
  BY Sorts DEF Poll
<1>2. Types /\ LockInv /\ obj[w] = None
  BY <1>1, Facts DEF Fits, Unloaded
<1>3. "claim" \in Places
  BY DEF Places, WorkerPlaces
<1>p. PICK k \in Commands \cup {NoCommand}, y \in Statuses, g \in Nat :
         k = cmd[w] /\ y = expected[w] /\ g = token[w]
  BY <1>1, Facts
<1>4. Take(w, "claim", k, None, y, g)
  BY <1>1, <1>2, <1>p, Unwritten DEF Poll, Goto, Take, local
<1>5. /\ Others(w) /\ pc'[w] = "claim" /\ cmd'[w] = k /\ obj'[w] = None
      /\ expected'[w] = y /\ token'[w] = g
  BY <1>1, <1>2, <1>3, <1>4, TakeWrites
<1>6. UNCHANGED <<workload, cache, heap, db, locks>>
  BY DEF Poll, stored
<1>7. Moves(w, None)
  BY <1>1, <1>2, <1>5, <1>6, StillMoves
<1>8. Fits(w, "claim", k, None) /\ ~Loaded("claim", k)
  BY <1>1 DEF Fits, WorkerPlaces, Unloaded, Loaded
<1>9. LockInv'
  <2>1. Locked(w, "claim")
    BY <1>1 DEF Locked, Busy
  <2>2. QED BY <1>1, <1>2, <1>5, <1>6, <2>1, SameLocks
<1>10. Leased(w, "claim", None, y, g)'
  BY DEF Leased, Busy
<1>11. db' \in SoundDocuments
  BY <1>2, <1>6 DEF Types
<1>12. QED BY <1>1, <1>5, <1>6, <1>7, <1>8, <1>9, <1>10, <1>11, OtherLeases, LeaseMoves

\* A worker loads the stored document into a new object, or does nothing.
LEMMA ClaimKeeps ==
  ASSUME LInv, NEW w \in Workers, Claim(w)
  PROVE  /\ LInv'
         /\ \/ Finish(w) /\ UNCHANGED cache
            \/ /\ Moves(w, Fresh) /\ Fresh \in Unused /\ UNCHANGED cache
               /\ pc'[w] = "save_lease" /\ obj'[w] = Fresh /\ heap'[Fresh] = db
               /\ \A o \in Objects : heap'[o] \in {heap[o], db, NoDocument}
<1>1. w \in Threads /\ w \notin Clients /\ pc[w] = "claim"
  BY Sorts DEF Claim
<1>2. /\ Types /\ LockInv /\ obj[w] = None /\ w \in workload.workers
      /\ db \in SoundDocuments
  BY <1>1, Facts DEF Fits, Unloaded, Types
<1>3. UNCHANGED <<db, workload>>
  BY DEF Claim, stored
<1>4. CASE ~Claimable(w)
  <2>1. Finish(w) /\ UNCHANGED cache
    BY <1>4 DEF Claim
  <2>2. db' \in SoundDocuments
    BY <1>2, <1>3
  <2>3. QED BY <1>1, <1>3, <2>1, <2>2, FinishKeeps, OtherLeases
<1>5. CASE Claimable(w)
  <2>1. Fresh \in Unused /\ Fresh \in Objects
    BY <1>1, <1>2, FreshIsUnused DEF Unused
  <2>p. PICK k \in Commands \cup {NoCommand}, g \in Nat, f \in Objects, y \in Statuses :
           k = cmd[w] /\ g = token[w] /\ f = Fresh /\ y = db.status
    BY <1>1, <1>2, <2>1, Facts DEF SoundDocuments, Documents
  <2>2. /\ Take(w, "save_lease", k, f, y, g)
        /\ Acquire({Lock(Execution)}, w) /\ UNCHANGED cache
        /\ Heap([heap EXCEPT ![f] = db])
    BY <1>1, <1>2, <1>5, <2>p, Unwritten DEF Claim, Goto, Take
  <2>3. "save_lease" \in Places
    BY DEF Places, WorkerPlaces
  <2>4. /\ Others(w) /\ pc'[w] = "save_lease" /\ cmd'[w] = k /\ obj'[w] = f
        /\ expected'[w] = y /\ token'[w] = g
    BY <1>1, <1>2, <2>2, <2>3, TakeWrites
  <2>5. /\ Spares(w, f) /\ heap'[f] = db
        /\ \A o \in Objects : heap'[o] \in {heap[o], db, NoDocument}
    BY <1>1, <1>2, <2>2, <2>4, WritesOne
  <2>6. Moves(w, f)
    BY <1>2, <1>3, <2>1, <2>2, <2>4, <2>5, <2>p DEF Moves, Cached, Types
  <2>7. LockInv'
    <3>1. {Lock(Execution)} \in SUBSET Ids /\ Lock(Execution) \in {Lock(Execution)}
      BY DEF Ids
    <3>2. QED BY <1>1, <1>2, <2>2, <2>4, <3>1, AcquireKeeps
  <2>8. Fits(w, "save_lease", k, f)
    BY <1>1, <1>2, Facts DEF Fits, WorkerPlaces, Unloaded
  <2>9. Leased(w, "save_lease", f, y, g)'
    BY <1>3, <1>5, <2>5, <2>p DEF Leased, Claimable
  <2>10. db' \in SoundDocuments
    BY <1>2, <1>3
  <2>11. LInv'
    BY <1>1, <1>3, <2>1, <2>2, <2>4, <2>6, <2>7, <2>8, <2>9, <2>10, <2>p, OtherLeases,
       LeaseMoves
  <2>12. QED BY <2>1, <2>2, <2>4, <2>5, <2>6, <2>11, <2>p
<1>6. QED BY <1>4, <1>5

LeasedBy(d, w) == [d EXCEPT !.owner = w, !.fence = @ + 1]

LEMMA LeasedIsSound ==
  ASSUME NEW d \in SoundDocuments, NEW w \in Workers
  PROVE  /\ LeasedBy(d, w) \in SoundDocuments
         /\ LeasedBy(d, w).owner = w /\ LeasedBy(d, w).fence \in Nat
         /\ LeasedBy(d, w).status = d.status /\ LeasedBy(d, w).progress = d.progress
         /\ LeasedBy(d, w).artifacts = d.artifacts
         /\ LeasedBy(d, w).greenlight = d.greenlight
<1>1. d \in Documents /\ d.fence \in Nat
  BY DEF SoundDocuments, Documents
<1>e. PICK e : e = [d EXCEPT !.owner = w]
  OBVIOUS
<1>2. /\ e \in Documents /\ e.owner = w /\ e.fence = d.fence
      /\ e.status = d.status /\ e.progress = d.progress
      /\ e.artifacts = d.artifacts /\ e.greenlight = d.greenlight
  BY <1>1, <1>e DEF Documents
<1>f. PICK f : f = [e EXCEPT !.fence = @ + 1]
  OBVIOUS
<1>3. /\ f \in Documents /\ f.owner = e.owner /\ f.fence = e.fence + 1
      /\ f.status = e.status /\ f.progress = e.progress
      /\ f.artifacts = e.artifacts /\ f.greenlight = e.greenlight
  BY <1>1, <1>2, <1>f DEF Documents
<1>4. LeasedBy(d, w) = f
  BY <1>e, <1>f DEF LeasedBy
<1>5. f \in SoundDocuments
  BY <1>2, <1>3 DEF SoundDocuments
<1>6. QED BY <1>1, <1>2, <1>3, <1>4, <1>5

\* A worker stores its lease, or does nothing.
LEMMA SaveLeaseKeeps ==
  ASSUME LInv, NEW w \in Workers, SaveLease(w)
  PROVE  /\ LInv'
         /\ UNCHANGED <<ledger, cache>>
         /\ \/ Finish(w) /\ UNCHANGED db
            \/ /\ Moves(w, obj[w])
               /\ pc[w] = "save_lease" /\ pc'[w] = "restore" /\ obj'[w] = obj[w]
               /\ heap'[obj[w]] = db'
               /\ db'.status = heap[obj[w]].status /\ db'.progress = heap[obj[w]].progress
               /\ db'.artifacts = heap[obj[w]].artifacts
               /\ db'.greenlight = heap[obj[w]].greenlight
               /\ \A o \in Objects : heap'[o] \in {heap[o], db', NoDocument}
<1>1. w \in Threads /\ w \notin Clients /\ pc[w] = "save_lease"
  BY Sorts DEF SaveLease
<1>2. /\ Types /\ LockInv /\ obj[w] \in Objects /\ w \in workload.workers
      /\ db \in SoundDocuments /\ heap[obj[w]] \in SoundDocuments
      /\ Unshared(w, obj[w])
      /\ Leased(w, pc[w], obj[w], expected[w], token[w])
  BY <1>1, Facts DEF Fits, Unloaded, Types, LInv, PrivateInv, Loaded, LeaseInv
<1>3. UNCHANGED <<workload, ledger>>
  BY DEF SaveLease
<1>4. CASE db.status # expected[w]
  <2>1. Finish(w) /\ UNCHANGED <<db, cache>>
    BY <1>4 DEF SaveLease
  <2>2. db' \in SoundDocuments
    BY <1>2, <2>1
  <2>3. QED BY <1>1, <1>3, <2>1, <2>2, FinishKeeps, OtherLeases
<1>5. CASE db.status = expected[w]
  <2>d. PICK d : d = LeasedBy(heap[obj[w]], w)
    OBVIOUS
  <2>1. /\ d \in SoundDocuments /\ d.owner = w /\ d.fence \in Nat
        /\ d.status = heap[obj[w]].status /\ d.progress = heap[obj[w]].progress
        /\ d.artifacts = heap[obj[w]].artifacts /\ d.greenlight = heap[obj[w]].greenlight
    BY <1>2, <2>d, LeasedIsSound
  <2>p. PICK k \in Commands \cup {NoCommand}, g \in Nat, o \in Objects, y \in Statuses :
           k = cmd[w] /\ g = d.fence /\ o = obj[w] /\ y = expected[w]
    BY <1>1, <1>2, <2>1, Facts
  <2>2. /\ Take(w, "restore", k, o, y, g)
        /\ UNCHANGED <<obj, cache, locks>> /\ db' = d
        /\ Heap([heap EXCEPT ![o] = d])
    BY <1>1, <1>2, <1>5, <2>d, <2>p, Unwritten DEF SaveLease, Goto, Take, LeasedBy
  <2>3. "restore" \in Places
    BY DEF Places, WorkerPlaces
  <2>4. /\ Others(w) /\ pc'[w] = "restore" /\ cmd'[w] = k /\ obj'[w] = o
        /\ expected'[w] = y /\ token'[w] = g
    BY <1>1, <1>2, <2>2, <2>3, TakeWrites
  <2>5. /\ Spares(w, o) /\ heap'[o] = d
        /\ \A i \in Objects : heap'[i] \in {heap[i], d, NoDocument}
    BY <1>1, <1>2, <2>1, <2>2, <2>4, WritesOne
  <2>6. Moves(w, o)
    BY <1>2, <1>3, <2>2, <2>4, <2>5, <2>p DEF Moves, Cached, Types
  <2>7. LockInv'
    <3>1. Locked(w, pc[w])
      BY <1>1, <1>2 DEF LockInv
    <3>2. Locked(w, "restore")
      BY <1>1, <3>1 DEF Locked, Busy
    <3>3. QED BY <1>1, <1>2, <2>2, <2>4, <3>2, SameLocks
  <2>8. Fits(w, "restore", k, o)
    BY <1>1, <1>2, <2>p, Facts DEF Fits, WorkerPlaces, Unloaded
  <2>9. Leased(w, "restore", o, y, g)'
    BY <1>1, <1>2, <2>1, <2>2, <2>p DEF Leased, Busy
  <2>10. \A u \in Workers \ {w} : SameLease(u)
    BY <1>1, <1>2, OneBusy DEF SameLease, Busy
  <2>11. db' \in SoundDocuments
    BY <2>1, <2>2
  <2>12. LInv'
    BY <1>1, <1>2, <2>2, <2>4, <2>6, <2>7, <2>8, <2>9, <2>10, <2>11, LeaseMoves
  <2>13. QED BY <1>1, <1>3, <2>1, <2>2, <2>4, <2>5, <2>6, <2>12, <2>p
<1>6. QED BY <1>4, <1>5

\* The object of t replaces the cached one.
LEMMA RestoreRunKeeps ==
  ASSUME LInv, NEW t \in Threads, RestoreRun(t)
  PROVE  /\ LInv' /\ Moves(t, None) /\ UNCHANGED <<db, ledger>>
         /\ pc[t] = "restore"
         /\ pc'[t] = IF t \in Workers THEN "advance" ELSE "decide"
         /\ cmd'[t] = cmd[t] /\ obj'[t] = obj[t] /\ obj[t] \in Objects
         /\ heap'[obj[t]] = heap[obj[t]]
         /\ cache' = [cache EXCEPT ![Home[t]] = obj[t]]
         /\ \A o \in Objects : heap'[o] \in {heap[o], NoDocument}
<1>1. pc[t] = "restore"
  BY DEF RestoreRun
<1>2. /\ Types /\ LockInv /\ obj[t] \in Objects /\ db \in SoundDocuments
      /\ Home[t] \in Replicas /\ None \notin Objects
      /\ t \in Workers => Leased(t, pc[t], obj[t], expected[t], token[t])
  BY <1>1, Facts DEF Fits, Unloaded, Types, LInv, LeaseInv
<1>3. /\ UNCHANGED <<workload, db, ledger, locks>>
      /\ cache' = [cache EXCEPT ![Home[t]] = obj[t]]
  BY DEF RestoreRun, stored
<1>p. PICK n \in {"advance", "decide"}, k \in Commands \cup {NoCommand}, g \in Nat,
           o \in Objects, y \in Statuses :
         /\ n = IF t \in Workers THEN "advance" ELSE "decide"
         /\ k = cmd[t] /\ g = token[t] /\ o = obj[t] /\ y = expected[t]
  BY <1>2, Facts
<1>4. Take(t, n, k, o, y, g) /\ Heap(heap) /\ n \in Places
  BY <1>2, <1>p, Unwritten DEF RestoreRun, Goto, Take, local, Places, WorkerPlaces,
                               ClientPlaces
<1>5. /\ Others(t) /\ pc'[t] = n /\ cmd'[t] = k /\ obj'[t] = o
      /\ expected'[t] = y /\ token'[t] = g
  BY <1>2, <1>4, TakeWrites
<1>6. /\ Spares(t, None) /\ heap'[o] = heap[o]
      /\ \A i \in Objects : heap'[i] \in {heap[i], NoDocument}
  BY <1>2, <1>4, <1>5, WritesNone
<1>7. cache' \in [Replicas -> Objects \cup {None}] /\ Cached(t) /\ cache'[Home[t]] # None
  BY <1>2, <1>3 DEF Types, Cached
<1>8. Moves(t, None)
  BY <1>3, <1>5, <1>6, <1>7, <1>p DEF Moves
<1>9. LockInv'
  <2>1. Locked(t, pc[t])
    BY <1>2 DEF LockInv
  <2>2. Locked(t, n)
    BY <1>1, <1>p, <2>1, Sorts DEF Locked, Busy, Serving, Commanding
  <2>3. QED BY <1>2, <1>3, <1>5, <2>2, SameLocks
<1>10. Fits(t, n, k, o)
  BY <1>1, <1>p, <1>2, Facts, Sorts
     DEF Fits, WorkerPlaces, ClientPlaces, Unloaded, Operations
<1>11. t \in Workers => Leased(t, n, o, y, g)'
  BY <1>1, <1>2, <1>3, <1>p DEF Leased, Busy
<1>12. ~Loaded(n, k) /\ db' \in SoundDocuments
  BY <1>2, <1>3 DEF Loaded
<1>13. LInv'
  BY <1>3, <1>5, <1>7, <1>8, <1>9, <1>10, <1>11, <1>12, OtherLeases, LeaseMoves
<1>14. QED BY <1>1, <1>2, <1>3, <1>5, <1>6, <1>8, <1>13, <1>p

AdvancedBy(d) == [Advanced(d) EXCEPT !.owner = None]

LEMMA AdvancedIsSound ==
  ASSUME NEW d \in SoundDocuments
  PROVE  /\ AdvancedBy(d) \in SoundDocuments
         /\ AdvancedBy(d).artifacts = d.artifacts
         /\ AdvancedBy(d).greenlight = d.greenlight
         /\ d.status \in Runnable =>
               /\ AdvancedBy(d).status \in {"running", "awaiting_greenlight"}
               /\ AdvancedBy(d).status = "awaiting_greenlight" =>
                     AdvancedBy(d).progress = Steps
<1>1. d \in Documents /\ Steps \in Nat \ {0}
  BY StepAssumption DEF SoundDocuments
<1>e. PICK e : e = Advanced(d)
  OBVIOUS
<1>2. /\ e \in SoundDocuments /\ e.artifacts = d.artifacts /\ e.greenlight = d.greenlight
      /\ d.status \in Runnable =>
            /\ e.status \in {"running", "awaiting_greenlight"}
            /\ e.status = "awaiting_greenlight" => e.progress = Steps
  <2>1. CASE d.status \notin Runnable
    BY <2>1, <1>e DEF Advanced
  <2>2. CASE d.status \in Runnable
    <3>1. d.progress \in 0 .. Steps /\ d.progress < Steps
      BY <1>1, <2>2 DEF SoundDocuments, Documents
    <3>s. PICK x : x = IF d.progress + 1 = Steps THEN "awaiting_greenlight" ELSE "running"
      OBVIOUS
    <3>f. PICK f : f = [d EXCEPT !.progress = @ + 1]
      OBVIOUS
    <3>2. /\ f \in Documents /\ f.progress = d.progress + 1
          /\ f.artifacts = d.artifacts /\ f.greenlight = d.greenlight
      BY <1>1, <3>1, <3>f DEF Documents
    <3>3. e = [f EXCEPT !.status = x]
      BY <2>2, <1>e, <3>s, <3>f DEF Advanced
    <3>4. x \in {"running", "awaiting_greenlight"} /\ x \in Statuses
      BY <3>s DEF Statuses
    <3>5. /\ e \in Documents /\ e.status = x /\ e.progress = d.progress + 1
          /\ e.artifacts = d.artifacts /\ e.greenlight = d.greenlight
      BY <3>2, <3>3, <3>4 DEF Documents
    <3>6. /\ x = "awaiting_greenlight" => d.progress + 1 = Steps
          /\ x = "running" => d.progress + 1 < Steps
      BY <1>1, <3>1, <3>s
    <3>7. e \in SoundDocuments
      BY <3>4, <3>5, <3>6 DEF SoundDocuments, Runnable
    <3>8. QED BY <3>4, <3>5, <3>6, <3>7
  <2>3. QED BY <2>1, <2>2
<1>g. PICK g : g = [e EXCEPT !.owner = None]
  OBVIOUS
<1>3. /\ g \in Documents /\ g.status = e.status /\ g.progress = e.progress
      /\ g.artifacts = e.artifacts /\ g.greenlight = e.greenlight
  BY <1>2, <1>g DEF SoundDocuments, Documents
<1>4. AdvancedBy(d) = g
  BY <1>e, <1>g DEF AdvancedBy
<1>5. g \in SoundDocuments
  BY <1>2, <1>3 DEF SoundDocuments
<1>6. QED BY <1>2, <1>3, <1>4, <1>5

FailedBy(d) == [d EXCEPT !.status = "failed", !.owner = None]

LEMMA FailedIsSound ==
  ASSUME NEW d \in SoundDocuments
  PROVE  /\ FailedBy(d) \in SoundDocuments /\ FailedBy(d).status = "failed"
         /\ FailedBy(d).progress = d.progress
         /\ FailedBy(d).artifacts = d.artifacts /\ FailedBy(d).greenlight = d.greenlight
<1>e. PICK e : e = [d EXCEPT !.status = "failed"]
  OBVIOUS
<1>1. /\ e \in Documents /\ e.status = "failed" /\ e.progress = d.progress
      /\ e.artifacts = d.artifacts /\ e.greenlight = d.greenlight
  BY <1>e DEF SoundDocuments, Documents, Statuses
<1>f. PICK f : f = [e EXCEPT !.owner = None]
  OBVIOUS
<1>2. /\ f \in Documents /\ f.status = e.status /\ f.progress = e.progress
      /\ f.artifacts = e.artifacts /\ f.greenlight = e.greenlight
  BY <1>1, <1>f DEF Documents
<1>3. FailedBy(d) = f
  BY <1>e, <1>f DEF FailedBy
<1>4. f \in SoundDocuments
  BY <1>1, <1>2 DEF SoundDocuments, Runnable
<1>5. QED BY <1>1, <1>2, <1>3, <1>4

\* A step of a worker to its checkpoint with the object o, which writes x.
Executes(w, x, o, d) ==
    /\ Goto(w, "checkpoint")
    /\ obj' = [obj EXCEPT ![w] = o]
    /\ UNCHANGED <<stored, cache, locks, local, workload>>
    /\ Heap([heap EXCEPT ![x] = d])

LEMMA ExecutionKeeps ==
  ASSUME LInv, NEW w \in Workers, pc[w] = "advance", NEW x \in Objects, NEW o \in Objects,
         x \in {obj[w], cache[Home[w]]}, o \in {obj[w], cache[Home[w]]},
         NEW d \in SoundDocuments, Executes(w, x, o, d)
  PROVE  /\ LInv' /\ Moves(w, x) /\ pc'[w] = "checkpoint" /\ obj'[w] = o
         /\ o = x => heap'[x] = d
         /\ \A i \in Objects : heap'[i] \in {heap[i], d, NoDocument}
<1>1. w \in Threads /\ w \notin Clients
  BY Sorts
<1>2. /\ Types /\ LockInv /\ obj[w] \in Objects /\ db \in SoundDocuments
      /\ w \in workload.workers /\ None \notin Objects
      /\ Leased(w, pc[w], obj[w], expected[w], token[w])
  BY <1>1, Facts DEF Fits, Unloaded, Types, LInv, LeaseInv
<1>3. UNCHANGED <<workload, db, ledger, locks, cache>>
  BY DEF Executes, stored
<1>p. PICK k \in Commands \cup {NoCommand}, g \in Nat, y \in Statuses :
         k = cmd[w] /\ g = token[w] /\ y = expected[w]
  BY <1>1, Facts
<1>4. Take(w, "checkpoint", k, o, y, g) /\ "checkpoint" \in Places
  BY <1>1, <1>2, <1>p, Unwritten DEF Executes, Goto, Take, local, Places, WorkerPlaces
<1>5. /\ Others(w) /\ pc'[w] = "checkpoint" /\ cmd'[w] = k /\ obj'[w] = o
      /\ expected'[w] = y /\ token'[w] = g
  BY <1>1, <1>2, <1>4, TakeWrites
<1>6. /\ Spares(w, x) /\ (o = x => heap'[x] = d)
      /\ \A i \in Objects : heap'[i] \in {heap[i], d, NoDocument}
  BY <1>1, <1>2, <1>5, WritesOne DEF Executes
<1>7. cache' \in [Replicas -> Objects \cup {None}] /\ Cached(w)
  BY <1>2, <1>3 DEF Types, Cached
<1>8. Moves(w, x)
  BY <1>3, <1>5, <1>6, <1>7 DEF Moves
<1>9. LockInv'
  <2>1. Locked(w, pc[w])
    BY <1>1, <1>2 DEF LockInv
  <2>2. Locked(w, "checkpoint")
    BY <1>1, <2>1 DEF Locked, Busy
  <2>3. QED BY <1>1, <1>2, <1>3, <1>5, <2>2, SameLocks
<1>10. Fits(w, "checkpoint", k, o)
  BY <1>1, <1>2 DEF Fits, WorkerPlaces, Unloaded
<1>11. Leased(w, "checkpoint", o, y, g)'
  BY <1>2, <1>3, <1>p DEF Leased, Busy
<1>12. ~Loaded("checkpoint", k) /\ db' \in SoundDocuments
  BY <1>2, <1>3 DEF Loaded
<1>13. LInv'
  BY <1>1, <1>3, <1>5, <1>8, <1>9, <1>10, <1>11, <1>12, OtherLeases, LeaseMoves
<1>14. QED BY <1>5, <1>6, <1>8, <1>13

LEMMA AdvanceKeeps ==
  ASSUME LInv, NEW w \in Workers, Advance(w)
  PROVE  /\ LInv' /\ UNCHANGED <<db, ledger, cache>>
         /\ pc[w] = "advance" /\ pc'[w] = "checkpoint"
         /\ cache[Home[w]] \in Objects
         /\ Moves(w, cache[Home[w]])
         /\ obj'[w] = cache[Home[w]]
         /\ heap'[cache[Home[w]]] = AdvancedBy(heap[cache[Home[w]]])
         /\ \A i \in Objects :
               heap'[i] \in {heap[i], AdvancedBy(heap[cache[Home[w]]]), NoDocument}
<1>1. w \in Threads /\ pc[w] = "advance"
  BY Sorts DEF Advance
<1>x. PICK x \in Objects : x = cache[Home[w]]
  BY <1>1, Facts DEF LInv, CacheInv
<1>d. PICK d \in SoundDocuments : d = AdvancedBy(heap[x])
  <2>1. heap[x] \in SoundDocuments
    BY DEF LInv, Types
  <2>2. QED BY <2>1, AdvancedIsSound
<1>2. Executes(w, x, x, d) /\ UNCHANGED <<db, ledger, cache>>
  BY <1>x, <1>d DEF Advance, AdvancedBy, Executes, stored
<1>3. /\ LInv' /\ Moves(w, x) /\ pc'[w] = "checkpoint" /\ obj'[w] = x
      /\ heap'[x] = d
      /\ \A i \in Objects : heap'[i] \in {heap[i], d, NoDocument}
  <2>1. x \in {obj[w], cache[Home[w]]}
    BY <1>x
  <2>2. QED BY <1>1, <1>2, <2>1, ExecutionKeeps
<1>4. QED BY <1>1, <1>2, <1>3, <1>x, <1>d

LEMMA AdvanceFailsKeeps ==
  ASSUME LInv, NEW w \in Workers, AdvanceFails(w)
  PROVE  /\ LInv' /\ UNCHANGED <<db, ledger, cache>>
         /\ pc[w] = "advance" /\ pc'[w] = "checkpoint"
         /\ Moves(w, obj[w]) /\ obj'[w] = obj[w] /\ obj[w] \in Objects
         /\ heap'[obj[w]] = FailedBy(heap[obj[w]])
         /\ \A i \in Objects :
               heap'[i] \in {heap[i], FailedBy(heap[obj[w]]), NoDocument}
<1>1. w \in Threads /\ pc[w] = "advance"
  BY Sorts DEF AdvanceFails
<1>x. PICK x \in Objects : x = obj[w]
  BY <1>1, Facts DEF Fits, Unloaded
<1>2. heap \in [Objects -> SoundDocuments] /\ obj \in [Threads -> Objects \cup {None}]
  BY DEF LInv, Types
<1>d. PICK d \in SoundDocuments : d = FailedBy(heap[x])
  BY <1>2, FailedIsSound
<1>3. [heap EXCEPT ![obj[w]].status = "failed", ![obj[w]].owner = None]
         = [heap EXCEPT ![x] = d]
  BY <1>2, <1>x, <1>d DEF FailedBy
<1>4. Executes(w, x, x, d) /\ UNCHANGED <<db, ledger, cache>>
  BY <1>1, <1>2, <1>3, <1>x DEF AdvanceFails, Executes, stored
<1>5. /\ LInv' /\ Moves(w, x) /\ pc'[w] = "checkpoint" /\ obj'[w] = x
      /\ heap'[x] = d
      /\ \A i \in Objects : heap'[i] \in {heap[i], d, NoDocument}
  <2>1. x \in {obj[w], cache[Home[w]]}
    BY <1>x
  <2>2. QED BY <1>1, <1>4, <2>1, ExecutionKeeps
<1>6. QED BY <1>1, <1>4, <1>5, <1>x, <1>d

LEMMA CheckpointKeeps ==
  ASSUME LInv, NEW w \in Workers, Checkpoint(w)
  PROVE  LInv'
<1>1. w \in Threads /\ pc[w] = "checkpoint"
  BY Sorts DEF Checkpoint
<1>2. /\ Types /\ LockInv /\ obj[w] \in Objects /\ db \in SoundDocuments
      /\ heap[obj[w]] \in SoundDocuments
  BY <1>1, Facts DEF Fits, Unloaded, Types, LInv
<1>3. Finish(w) /\ UNCHANGED <<cache, workload>> /\ db' \in {db, heap[obj[w]]}
  BY DEF Checkpoint, Save
<1>4. \A u \in Workers \ {w} : SameLease(u)
  BY <1>1, <1>2, OneBusy DEF SameLease, Busy
<1>5. QED BY <1>1, <1>2, <1>3, <1>4, FinishKeeps

-------------------------------------------------------------------------------
(* The lease: steps of the clients. *)

\* While a worker executes, the stored run has the status that it has read.
LEMMA BusyRuns ==
  ASSUME LInv, NEW u \in Workers, pc[u] \in Busy
  PROVE  db.status \in Runnable
  BY DEF LInv, LeaseInv, Leased

LEMMA RequestKeeps ==
  ASSUME LInv, NEW c \in Clients, Request(c)
  PROVE  /\ LInv' /\ Moves(c, None) /\ UNCHANGED <<db, ledger, cache, heap>>
         /\ pc'[c] = "enter" /\ obj'[c] = None
<1>1. c \in Threads /\ c \notin Workers /\ pc[c] = "idle"
  BY Sorts DEF Request
<1>2. Types /\ LockInv /\ obj[c] = None /\ db \in SoundDocuments
  BY <1>1, Facts DEF Fits, Unloaded, Types
<1>3. UNCHANGED <<workload, db, ledger, cache, heap, locks, obj, expected, token>>
  BY DEF Request, stored
<1>p. PICK k \in Commands, y \in Statuses, g \in Nat :
         /\ k[1] \in workload.operations /\ cmd' = [cmd EXCEPT ![c] = k]
         /\ y = expected[c] /\ g = token[c]
  BY <1>1, Facts DEF Request
<1>4. Take(c, "enter", k, None, y, g) /\ "enter" \in Places
  BY <1>1, <1>2, <1>3, <1>p, Unwritten DEF Request, Goto, Take, Places, ClientPlaces
<1>5. /\ Others(c) /\ pc'[c] = "enter" /\ cmd'[c] = k /\ obj'[c] = None
      /\ expected'[c] = y /\ token'[c] = g
  BY <1>1, <1>2, <1>4, TakeWrites
<1>6. Moves(c, None)
  BY <1>1, <1>2, <1>3, <1>5, StillMoves
<1>7. k[1] \in Decisions \cup {"attach", "create"}
  BY DEF Commands
<1>8. Fits(c, "enter", k, None) /\ ~Loaded("enter", k)
  BY <1>1, <1>7, <1>p DEF Fits, ClientPlaces, Unloaded, Loaded, Operations
<1>9. LockInv'
  <2>1. Locked(c, "enter")
    BY <1>1 DEF Locked, Serving, Commanding
  <2>2. QED BY <1>1, <1>2, <1>3, <1>5, <2>1, SameLocks
<1>10. db' \in SoundDocuments
  BY <1>2, <1>3
<1>11. QED BY <1>1, <1>3, <1>5, <1>6, <1>8, <1>9, <1>10, OtherLeases, LeaseMoves

LEMMA EnterKeeps ==
  ASSUME LInv, NEW c \in Clients, Enter(c)
  PROVE  /\ LInv' /\ Moves(c, None) /\ UNCHANGED <<db, ledger, cache, heap>>
         /\ pc'[c] = "command" /\ obj'[c] = None
<1>1. c \in Threads /\ c \notin Workers /\ pc[c] = "enter"
  BY Sorts DEF Enter
<1>2. /\ Types /\ LockInv /\ obj[c] = None /\ db \in SoundDocuments
      /\ Fits(c, pc[c], cmd[c], obj[c])
  BY <1>1, Facts DEF Fits, Unloaded, Types
<1>3. UNCHANGED <<workload, db, ledger, cache, heap, obj, cmd, expected, token>>
  BY DEF Enter, stored, local
<1>p. PICK k \in Commands \cup {NoCommand}, y \in Statuses, g \in Nat :
         k = cmd[c] /\ y = expected[c] /\ g = token[c]
  BY <1>1, Facts
<1>4. Take(c, "command", k, None, y, g) /\ "command" \in Places
  BY <1>1, <1>2, <1>3, <1>p, Unwritten DEF Enter, Goto, Take, Places, ClientPlaces
<1>5. /\ Others(c) /\ pc'[c] = "command" /\ cmd'[c] = k /\ obj'[c] = None
      /\ expected'[c] = y /\ token'[c] = g
  BY <1>1, <1>2, <1>4, TakeWrites
<1>6. Moves(c, None)
  BY <1>1, <1>2, <1>3, <1>5, StillMoves
<1>7. Fits(c, "command", k, None) /\ ~Loaded("command", k)
  BY <1>1, <1>2, <1>p DEF Fits, ClientPlaces, Unloaded, Loaded, Operations
<1>8. LockInv'
  <2>1. {Service(c)} \in SUBSET Ids /\ Acquire({Service(c)}, c)
    BY <1>1 DEF Ids, Enter
  <2>2. QED BY <1>1, <1>2, <1>5, <2>1, AcquireKeeps DEF Commanding
<1>9. db' \in SoundDocuments
  BY <1>2, <1>3
<1>10. QED BY <1>1, <1>3, <1>5, <1>6, <1>7, <1>8, <1>9, OtherLeases, LeaseMoves

\* The command lock of a client at its command.
LEMMA CommandLock ==
  ASSUME LInv, NEW c \in Clients, pc[c] = "command"
  PROVE  /\ cmd[c] \in Commands /\ {Lock(cmd[c])} \in SUBSET Ids
         /\ ~SharedDatabase => Store \in {Lock(cmd[c])}
<1>1. cmd[c] \in Commands
  BY Sorts, Facts DEF Fits
<1>2. QED BY <1>1 DEF Ids, Lock, Store

\* A document is loaded into a new object.
LEMMA LoadKeeps ==
  ASSUME LInv, NEW c \in Clients, pc[c] = "command",
         NEW d \in SoundDocuments, NEW n \in {"restore", "save"}, Load(c, d, n),
         UNCHANGED stored, UNCHANGED workload,
         cmd[c][1] \in Operations(n)
  PROVE  /\ LInv' /\ Moves(c, Fresh) /\ Fresh \in Unused
         /\ UNCHANGED <<db, ledger, cache>>
         /\ pc'[c] = n /\ cmd'[c] = cmd[c] /\ obj'[c] = Fresh /\ heap'[Fresh] = d
         /\ \A i \in Objects : heap'[i] \in {heap[i], d, NoDocument}
<1>1. c \in Threads /\ c \notin Workers
  BY Sorts
<1>2. /\ Types /\ LockInv /\ obj[c] = None /\ db \in SoundDocuments
      /\ Fits(c, pc[c], cmd[c], obj[c])
  BY <1>1, Facts DEF Fits, Unloaded, Types
<1>3. UNCHANGED <<workload, db, ledger, cache, cmd, expected, token>>
  BY DEF Load, stored, local
<1>4. Fresh \in Unused /\ Fresh \in Objects /\ None \notin Objects
  BY <1>1, <1>2, FreshIsUnused, NumbersOfThreads DEF Unused
<1>p. PICK k \in Commands, y \in Statuses, g \in Nat, f \in Objects :
         k = cmd[c] /\ y = expected[c] /\ g = token[c] /\ f = Fresh
  BY <1>1, <1>4, Facts, CommandLock
<1>5. /\ Take(c, n, k, f, y, g) /\ n \in Places
      /\ Acquire({Lock(k)}, c) /\ Heap([heap EXCEPT ![f] = d])
  BY <1>1, <1>2, <1>3, <1>p, Unwritten DEF Load, Goto, Take, Places, ClientPlaces
<1>6. /\ Others(c) /\ pc'[c] = n /\ cmd'[c] = k /\ obj'[c] = f
      /\ expected'[c] = y /\ token'[c] = g
  BY <1>1, <1>2, <1>5, TakeWrites
<1>7. /\ Spares(c, f) /\ heap'[f] = d
      /\ \A i \in Objects : heap'[i] \in {heap[i], d, NoDocument}
  BY <1>1, <1>2, <1>5, <1>6, WritesOne
<1>8. Moves(c, f)
  BY <1>2, <1>3, <1>4, <1>6, <1>7, <1>p DEF Moves, Cached, Types
<1>9. Fits(c, n, k, f)
  BY <1>1, <1>2, <1>4, <1>p DEF Fits, ClientPlaces, Unloaded
<1>10. LockInv'
  <2>1. {Lock(k)} \in SUBSET Ids /\ (~SharedDatabase => Store \in {Lock(k)})
    BY <1>p, CommandLock
  <2>2. pc[c] \in Serving
    BY DEF Serving
  <2>3. QED BY <1>1, <1>2, <1>5, <1>6, <2>1, <2>2, AcquireKeeps
<1>11. db' \in SoundDocuments
  BY <1>2, <1>3
<1>12. LInv'
  BY <1>1, <1>3, <1>4, <1>6, <1>8, <1>9, <1>10, <1>11, <1>p, OtherLeases, LeaseMoves
<1>13. QED BY <1>3, <1>4, <1>6, <1>7, <1>8, <1>12, <1>p

\* A stored run with one more attachment.
AttachedBy(d, a) == [d EXCEPT !.artifacts = @ \cup {a}]

LEMMA AttachedIsSound ==
  ASSUME NEW d \in SoundDocuments, NEW a \in Artifacts
  PROVE  /\ AttachedBy(d, a) \in SoundDocuments
         /\ AttachedBy(d, a).status = d.status /\ AttachedBy(d, a).progress = d.progress
         /\ AttachedBy(d, a).greenlight = d.greenlight
         /\ AttachedBy(d, a).artifacts = d.artifacts \cup {a}
  BY DEF AttachedBy, SoundDocuments, Documents

\* A command takes its lock and loads the run, or is refused or replayed.
LEMMA BeginCommandKeeps ==
  ASSUME LInv, NEW c \in Clients, BeginCommand(c)
  PROVE  /\ LInv' /\ UNCHANGED <<db, ledger, cache>> /\ pc[c] = "command"
         /\ \/ Finish(c)
            \/ /\ Moves(c, None) /\ pc'[c] = "create" /\ cmd'[c] = cmd[c] /\ obj'[c] = None
               /\ UNCHANGED heap
            \/ /\ cmd[c][1] \in Decisions /\ cmd[c] \notin ledger /\ db.status # "absent"
               /\ Load(c, db, "restore")
            \/ /\ cmd[c] \in {"attach"} \X Artifacts
               /\ db.status = "awaiting_greenlight" /\ cmd[c][2] \notin db.artifacts
               /\ Load(c, AttachedBy(db, cmd[c][2]), "save")
<1>1. c \in Threads /\ c \notin Workers /\ pc[c] = "command"
  BY Sorts DEF BeginCommand
<1>2. /\ Types /\ LockInv /\ obj[c] = None /\ db \in SoundDocuments
      /\ Fits(c, pc[c], cmd[c], obj[c]) /\ cmd[c] \in Commands
  BY <1>1, Facts, CommandLock DEF Fits, Unloaded, Types
<1>3. UNCHANGED stored /\ UNCHANGED workload /\ UNCHANGED <<db, ledger>>
  BY DEF BeginCommand, stored
<1>4. CASE Finish(c) /\ UNCHANGED cache
  <2>1. db' \in SoundDocuments
    BY <1>2, <1>3
  <2>2. QED BY <1>1, <1>3, <1>4, <2>1, FinishKeeps, OtherLeases
<1>5. CASE /\ cmd[c][1] = "create"
           /\ Acquire({Lock(cmd[c])}, c)
           /\ Goto(c, "create")
           /\ UNCHANGED <<heap, cache, obj, local>>
  <2>p. PICK k \in Commands, y \in Statuses, g \in Nat :
           k = cmd[c] /\ y = expected[c] /\ g = token[c]
    BY <1>1, <1>2, Facts
  <2>1. Take(c, "create", k, None, y, g) /\ "create" \in Places
    BY <1>1, <1>2, <1>5, <2>p, Unwritten DEF Goto, Take, local, Places, ClientPlaces
  <2>2. /\ Others(c) /\ pc'[c] = "create" /\ cmd'[c] = k /\ obj'[c] = None
        /\ expected'[c] = y /\ token'[c] = g
    BY <1>1, <1>2, <2>1, TakeWrites
  <2>3. Moves(c, None)
    BY <1>1, <1>2, <1>3, <1>5, <2>2, StillMoves
  <2>4. Fits(c, "create", k, None) /\ ~Loaded("create", k)
    BY <1>1, <1>2, <1>5, <2>p DEF Fits, ClientPlaces, Unloaded, Loaded, Operations
  <2>5. LockInv'
    <3>1. /\ {Lock(k)} \in SUBSET Ids /\ (~SharedDatabase => Store \in {Lock(k)})
          /\ Acquire({Lock(k)}, c)
      BY <1>1, <1>5, <2>p, CommandLock
    <3>2. pc[c] \in Serving
      BY <1>1 DEF Serving
    <3>3. QED BY <1>1, <1>2, <2>2, <3>1, <3>2, AcquireKeeps
  <2>6. db' \in SoundDocuments
    BY <1>2, <1>3
  <2>7. LInv'
    BY <1>1, <1>3, <2>2, <2>3, <2>4, <2>5, <2>6, OtherLeases, LeaseMoves
  <2>8. QED BY <1>1, <1>3, <1>5, <2>2, <2>3, <2>7, <2>p
<1>6. CASE /\ cmd[c][1] \in Decisions /\ cmd[c] \notin ledger /\ db.status # "absent"
           /\ Load(c, db, "restore")
  <2>1. cmd[c][1] \in Operations("restore")
    BY <1>6 DEF Operations
  <2>2. LInv' /\ UNCHANGED cache
    BY <1>1, <1>2, <1>3, <1>6, <2>1, LoadKeeps
  <2>3. QED BY <1>1, <1>3, <1>6, <2>2
<1>7. CASE /\ cmd[c][1] = "attach"
           /\ db.status = "awaiting_greenlight" /\ cmd[c][2] \notin db.artifacts
           /\ Load(c, [db EXCEPT !.artifacts = @ \cup {cmd[c][2]}], "save")
  <2>1. cmd[c] \in {"attach"} \X Artifacts /\ cmd[c][2] \in Artifacts
    BY <1>2, <1>7 DEF Commands, Decisions
  <2>d. PICK d \in SoundDocuments : d = AttachedBy(db, cmd[c][2])
    BY <1>2, <2>1, AttachedIsSound
  <2>2. Load(c, d, "save")
    BY <1>7, <2>d DEF AttachedBy
  <2>3. cmd[c][1] \in Operations("save")
    BY <1>7 DEF Operations
  <2>4. LInv' /\ UNCHANGED cache
    BY <1>1, <1>3, <2>2, <2>3, LoadKeeps
  <2>5. QED BY <1>1, <1>3, <1>7, <2>1, <2>2, <2>4, <2>d
<1>8. QED BY <1>4, <1>5, <1>6, <1>7 DEF BeginCommand

\* What a client may create: a run that is queued, or one executed inline.
Created == {[NoDocument EXCEPT !.status = "queued"],
            [NoDocument EXCEPT !.status = "awaiting_greenlight", !.progress = Steps]}

LEMMA CreatedIsSound ==
  ASSUME NEW d \in Created
  PROVE  /\ d \in SoundDocuments /\ d.status \in {"queued", "awaiting_greenlight"}
         /\ d.status = "awaiting_greenlight" => d.progress = Steps
         /\ d.greenlight = "none" /\ d.artifacts = {}
<1>1. CASE d = [NoDocument EXCEPT !.status = "queued"]
  BY <1>1, StepAssumption
     DEF NoDocument, SoundDocuments, Documents, Statuses, Runnable
<1>2. CASE d = [NoDocument EXCEPT !.status = "awaiting_greenlight", !.progress = Steps]
  <2>e. PICK e : e = [NoDocument EXCEPT !.status = "awaiting_greenlight"]
    OBVIOUS
  <2>1. /\ e \in Documents /\ e.status = "awaiting_greenlight"
        /\ e.greenlight = "none" /\ e.artifacts = {}
    BY <2>e, StepAssumption DEF NoDocument, Documents, Statuses
  <2>2. d = [e EXCEPT !.progress = Steps]
    BY <1>2, <2>e
  <2>3. /\ d \in Documents /\ d.status = "awaiting_greenlight" /\ d.progress = Steps
        /\ d.greenlight = "none" /\ d.artifacts = {}
    BY <2>1, <2>2, StepAssumption DEF Documents
  <2>4. QED BY <2>3 DEF SoundDocuments, Runnable
<1>3. QED BY <1>1, <1>2 DEF Created

\* A run is put into the orchestrator, or nothing but a receipt is written.
LEMMA CreateKeeps ==
  ASSUME LInv, NEW c \in Clients, Create(c)
  PROVE  /\ LInv' /\ UNCHANGED db /\ pc[c] = "create"
         /\ \/ Finish(c) /\ UNCHANGED cache /\ ledger' \in {ledger, ledger \cup {cmd[c]}}
            \/ /\ UNCHANGED ledger /\ Moves(c, Fresh) /\ Fresh \in Unused
               /\ pc'[c] = "insert" /\ cmd'[c] = cmd[c] /\ obj'[c] = Fresh
               /\ \A r \in Replicas : cache'[r] \in {cache[r], Fresh}
               /\ \A r \in Replicas : cache[r] # None => cache'[r] = cache[r]
               /\ db.status = "absent"
               /\ \E d \in Created :
                     /\ heap'[Fresh] = d
                     /\ \A i \in Objects : heap'[i] \in {heap[i], d, NoDocument}
<1>1. c \in Threads /\ c \notin Workers /\ pc[c] = "create"
  BY Sorts DEF Create
<1>2. /\ Types /\ LockInv /\ obj[c] = None /\ db \in SoundDocuments
      /\ Fits(c, pc[c], cmd[c], obj[c]) /\ Home[c] \in Replicas
      /\ cmd[c] \in Commands
  BY <1>1, Facts DEF Fits, Unloaded, Types
<1>3. UNCHANGED <<db, workload>>
  BY DEF Create
<1>4. CASE Finish(c) /\ UNCHANGED cache /\ ledger' \in {ledger, ledger \cup {cmd[c]}}
  <2>1. db' \in SoundDocuments
    BY <1>2, <1>3
  <2>2. QED BY <1>1, <1>3, <1>4, <2>1, FinishKeeps, OtherLeases
<1>5. CASE /\ db.status = "absent"
           /\ cache[Home[c]] = None
           /\ Acquire({Lock(Resource)}, c)
           /\ cache' = [cache EXCEPT ![Home[c]] = Fresh]
           /\ obj' = [obj EXCEPT ![c] = Fresh]
           /\ Goto(c, "insert")
           /\ UNCHANGED <<ledger, local>>
           /\ \E d \in Created : Heap([heap EXCEPT ![Fresh] = d])
  <2>d. PICK d \in Created : Heap([heap EXCEPT ![Fresh] = d])
    BY <1>5
  <2>1. Fresh \in Unused /\ Fresh \in Objects /\ None \notin Objects
    BY <1>1, <1>2, FreshIsUnused, NumbersOfThreads DEF Unused
  <2>p. PICK k \in Commands, y \in Statuses, g \in Nat, f \in Objects :
           k = cmd[c] /\ y = expected[c] /\ g = token[c] /\ f = Fresh
    BY <1>1, <1>2, <2>1, Facts
  <2>2. /\ Take(c, "insert", k, f, y, g) /\ "insert" \in Places
        /\ Acquire({Lock(Resource)}, c) /\ Heap([heap EXCEPT ![f] = d])
        /\ d \in SoundDocuments
    BY <1>1, <1>2, <1>5, <2>d, <2>p, Unwritten, CreatedIsSound
       DEF Goto, Take, local, Places, ClientPlaces
  <2>3. /\ Others(c) /\ pc'[c] = "insert" /\ cmd'[c] = k /\ obj'[c] = f
        /\ expected'[c] = y /\ token'[c] = g
    BY <1>1, <1>2, <2>2, TakeWrites
  <2>4. /\ Spares(c, f) /\ heap'[f] = d
        /\ \A i \in Objects : heap'[i] \in {heap[i], d, NoDocument}
    BY <1>1, <1>2, <2>2, <2>3, WritesOne
  <2>5. /\ cache' \in [Replicas -> Objects \cup {None}] /\ Cached(c)
        /\ \A r \in Replicas : cache'[r] \in {cache[r], f}
        /\ \A r \in Replicas : cache[r] # None => cache'[r] = cache[r]
    BY <1>2, <1>5, <2>1, <2>p DEF Types, Cached
  <2>6. Moves(c, f)
    BY <1>2, <1>3, <2>1, <2>3, <2>4, <2>5, <2>p DEF Moves
  <2>7. Fits(c, "insert", k, f) /\ ~Loaded("insert", k)
    BY <1>1, <1>2, <2>1, <2>p DEF Fits, ClientPlaces, Unloaded, Operations, Loaded
  <2>8. LockInv'
    <3>1. {Lock(Resource)} \in SUBSET Ids
      BY DEF Ids
    <3>2. pc[c] \in Serving /\ pc[c] \in Commanding
      BY <1>1 DEF Serving, Commanding
    <3>3. QED BY <1>1, <1>2, <2>2, <2>3, <3>1, <3>2, AcquireKeeps
  <2>9. db' \in SoundDocuments
    BY <1>2, <1>3
  <2>10. LInv'
    BY <1>1, <1>3, <2>3, <2>6, <2>7, <2>8, <2>9, OtherLeases, LeaseMoves
  <2>11. QED BY <1>1, <1>3, <1>5, <2>1, <2>3, <2>4, <2>5, <2>6, <2>10, <2>p
<1>6. QED BY <1>4, <1>5 DEF Create, Created

\* A run that no worker executes is replaced by the object of a client.
LEMMA StoreKeeps ==
  ASSUME LInv, NEW c \in Clients, obj[c] # None, db.status \notin Runnable,
         db' \in {db, heap[obj[c]]}, Finish(c), UNCHANGED <<cache, workload>>
  PROVE  LInv'
<1>1. c \in Threads /\ c \notin Workers
  BY Sorts
<1>2. db' \in SoundDocuments
  BY <1>1, Facts DEF Types
<1>3. \A u \in Workers \ {c} : SameLease(u)
  BY BusyRuns DEF SameLease
<1>4. QED BY <1>1, <1>2, <1>3, FinishKeeps

\* Saving writes both the document and its event, or neither.
LEMMA SaveWrites ==
  ASSUME NEW d, NEW x, NEW e, Save(d, x, e)
  PROVE  \/ UNCHANGED <<db, ledger>>
         \/ db.status = x /\ e \notin ledger /\ db' = d /\ ledger' = ledger \cup {e}
  BY DEF Save

LEMMA InsertKeeps ==
  ASSUME LInv, NEW c \in Clients, Insert(c)
  PROVE  LInv'
<1>1. c \in Threads /\ c \notin Workers /\ pc[c] = "insert"
  BY Sorts DEF Insert
<1>2. obj[c] # None /\ db \in SoundDocuments
  BY <1>1, Facts DEF Fits, Unloaded, Types
<1>3. /\ Finish(c) /\ UNCHANGED <<cache, workload>>
      /\ UNCHANGED db \/ (db.status = "absent" /\ db' = heap[obj[c]])
  BY SaveWrites DEF Insert
<1>4. CASE UNCHANGED db
  <2>1. db' \in SoundDocuments
    BY <1>2, <1>4
  <2>2. QED BY <1>1, <1>3, <1>4, <2>1, FinishKeeps, OtherLeases
<1>5. CASE db.status = "absent" /\ db' = heap[obj[c]]
  BY <1>2, <1>3, <1>5, StoreKeeps DEF Runnable
<1>6. QED BY <1>3, <1>4, <1>5

LEMMA SaveCommandKeeps ==
  ASSUME LInv, NEW c \in Clients, SaveCommand(c)
  PROVE  LInv'
<1>1. c \in Threads /\ c \notin Workers /\ pc[c] = "save"
  BY Sorts DEF SaveCommand
<1>2. obj[c] # None /\ db \in SoundDocuments
  BY <1>1, Facts DEF Fits, Unloaded, Types
<1>3. /\ Finish(c) /\ UNCHANGED <<cache, workload>>
      /\ UNCHANGED db \/ (db.status = Required(cmd[c][1]) /\ db' = heap[obj[c]])
  BY SaveWrites DEF SaveCommand
<1>4. CASE UNCHANGED db
  <2>1. db' \in SoundDocuments
    BY <1>2, <1>4
  <2>2. QED BY <1>1, <1>3, <1>4, <2>1, FinishKeeps, OtherLeases
<1>5. CASE db.status = Required(cmd[c][1]) /\ db' = heap[obj[c]]
  BY <1>2, <1>3, <1>5, StoreKeeps DEF Runnable, Required
<1>6. QED BY <1>3, <1>4, <1>5

\* The decision op of the run d.
LEMMA DecidedIsSound ==
  ASSUME NEW d \in SoundDocuments, NEW op \in Decisions
  PROVE  /\ Decided(d, op) \in SoundDocuments
         /\ Decided(d, op).status = Outcome(op)
         /\ Decided(d, op).greenlight # "none"
         /\ Decided(d, op).progress = d.progress
         /\ Decided(d, op).artifacts = d.artifacts
<1>p. PICK x, y : /\ x = Outcome(op)
                  /\ y = CASE op = "approve" -> "approved"
                           [] op = "reject"  -> "rejected"
                           [] op = "revoke"  -> "revoked"
  OBVIOUS
<1>1. /\ x \in Statuses /\ x \notin Runnable
      /\ y \in {"approved", "rejected", "revoked"}
  BY <1>p DEF Decisions, Outcome, Statuses, Runnable
<1>e. PICK e : e = [d EXCEPT !.status = x]
  OBVIOUS
<1>2. /\ e \in Documents /\ e.status = x /\ e.progress = d.progress
      /\ e.artifacts = d.artifacts
  BY <1>1, <1>e DEF SoundDocuments, Documents
<1>f. PICK f : f = [e EXCEPT !.greenlight = y]
  OBVIOUS
<1>3. /\ f \in Documents /\ f.status = x /\ f.progress = d.progress
      /\ f.artifacts = d.artifacts /\ f.greenlight = y
  BY <1>1, <1>2, <1>f DEF Documents
<1>4. Decided(d, op) = f
  <2>1. CASE op = "approve"
    BY <2>1, <1>p, <1>e, <1>f DEF Decided, Outcome
  <2>2. CASE op = "reject"
    BY <2>2, <1>p, <1>e, <1>f DEF Decided, Outcome
  <2>3. CASE op = "revoke"
    BY <2>3, <1>p, <1>e, <1>f DEF Decided, Outcome
  <2>4. QED BY <2>1, <2>2, <2>3 DEF Decisions
<1>5. f \in SoundDocuments
  BY <1>1, <1>3 DEF SoundDocuments
<1>6. QED BY <1>1, <1>3, <1>4, <1>5, <1>p

LEMMA DecideKeeps ==
  ASSUME LInv, NEW c \in Clients, Decide(c)
  PROVE  /\ LInv' /\ UNCHANGED <<db, ledger, cache>> /\ pc[c] = "decide"
         /\ cmd[c][1] \in Decisions /\ cache[Home[c]] \in Objects
         /\ \/ Finish(c)
            \/ /\ Moves(c, cache[Home[c]])
               /\ pc'[c] = "save" /\ cmd'[c] = cmd[c] /\ obj'[c] = cache[Home[c]]
               /\ heap[cache[Home[c]]].status = Required(cmd[c][1])
               /\ heap'[cache[Home[c]]] = Decided(heap[cache[Home[c]]], cmd[c][1])
               /\ \A i \in Objects :
                     heap'[i] \in {heap[i], NoDocument,
                                   Decided(heap[cache[Home[c]]], cmd[c][1])}
<1>1. c \in Threads /\ c \notin Workers /\ pc[c] = "decide"
  BY Sorts DEF Decide
<1>2. /\ Types /\ LockInv /\ obj[c] \in Objects /\ db \in SoundDocuments
      /\ Fits(c, pc[c], cmd[c], obj[c]) /\ Home[c] \in Replicas
      /\ cmd[c] \in Commands /\ None \notin Objects
      /\ cmd[c][1] \in Decisions /\ cache[Home[c]] \in Objects
  BY <1>1, Facts DEF Fits, Unloaded, Types, LInv, CacheInv, Operations
<1>3. UNCHANGED <<db, ledger, cache, workload>>
  BY DEF Decide, stored
<1>4. CASE Finish(c)
  <2>1. db' \in SoundDocuments
    BY <1>2, <1>3
  <2>2. QED BY <1>1, <1>2, <1>3, <1>4, <2>1, FinishKeeps, OtherLeases
<1>5. CASE /\ heap[cache[Home[c]]].status = Required(cmd[c][1])
           /\ obj' = [obj EXCEPT ![c] = cache[Home[c]]]
           /\ Goto(c, "save")
           /\ UNCHANGED <<locks, local>>
           /\ Heap([heap EXCEPT ![cache[Home[c]]] = Decided(@, cmd[c][1])])
  <2>p. PICK k \in Commands, y \in Statuses, g \in Nat, x \in Objects :
           k = cmd[c] /\ y = expected[c] /\ g = token[c] /\ x = cache[Home[c]]
    BY <1>1, <1>2, Facts
  <2>d. PICK d \in SoundDocuments : d = Decided(heap[x], k[1])
    BY <1>2, <2>p, DecidedIsSound DEF Types
  <2>1. /\ Take(c, "save", k, x, y, g) /\ "save" \in Places
        /\ UNCHANGED locks /\ Heap([heap EXCEPT ![x] = d])
    BY <1>1, <1>2, <1>5, <2>p, <2>d, Unwritten
       DEF Goto, Take, local, Places, ClientPlaces, Types
  <2>2. /\ Others(c) /\ pc'[c] = "save" /\ cmd'[c] = k /\ obj'[c] = x
        /\ expected'[c] = y /\ token'[c] = g
    BY <1>1, <1>2, <2>1, TakeWrites
  <2>3. /\ Spares(c, x) /\ heap'[x] = d
        /\ \A i \in Objects : heap'[i] \in {heap[i], d, NoDocument}
    BY <1>1, <1>2, <2>1, <2>2, WritesOne
  <2>4. cache' \in [Replicas -> Objects \cup {None}] /\ Cached(c)
    BY <1>2, <1>3 DEF Types, Cached
  <2>5. Moves(c, x)
    BY <1>3, <2>2, <2>3, <2>4, <2>p DEF Moves
  <2>6. Fits(c, "save", k, x) /\ ~Loaded("save", k)
    BY <1>1, <1>2, <2>p DEF Fits, ClientPlaces, Unloaded, Operations, Loaded, Decisions
  <2>7. LockInv'
    <3>1. Locked(c, pc[c])
      BY <1>1, <1>2 DEF LockInv
    <3>2. Locked(c, "save")
      BY <1>1, <3>1 DEF Locked, Busy, Serving, Commanding
    <3>3. QED BY <1>1, <1>2, <2>1, <2>2, <3>2, SameLocks
  <2>8. db' \in SoundDocuments
    BY <1>2, <1>3
  <2>9. LInv'
    BY <1>1, <1>3, <2>2, <2>5, <2>6, <2>7, <2>8, OtherLeases, LeaseMoves
  <2>10. QED BY <1>1, <1>2, <1>3, <1>5, <2>2, <2>3, <2>5, <2>9, <2>p, <2>d
<1>6. QED BY <1>4, <1>5 DEF Decide

-------------------------------------------------------------------------------
(* The lease: faults. *)

LEMMA AbortKeeps ==
  ASSUME LInv, NEW t \in Threads, Abort(t)
  PROVE  LInv' /\ Finish(t) /\ UNCHANGED <<db, ledger, cache, workload>>
<1>1. Finish(t) /\ UNCHANGED <<db, ledger, cache, workload>>
  BY DEF Abort, stored
<1>2. db' \in SoundDocuments
  BY <1>1 DEF LInv, Types
<1>3. QED BY <1>1, <1>2, FinishKeeps, OtherLeases

\* A lock is lost only where no worker executes, and is not a service lock.
LEMMA DropLockKeeps ==
  ASSUME SessionsLast, LInv, NEW t \in Threads, DropLock(t)
  PROVE  /\ LInv'
         /\ SharedDatabase /\ UNCHANGED <<db, ledger, heap, cache, pc, cmd, obj, workload>>
<1>1. /\ workload \in Workloads /\ workload.drops
      /\ UNCHANGED <<db, ledger, heap, cache, pc, cmd, obj, expected, token, workload>>
  BY DEF DropLock, LInv, Types, stored, local
<1>2. workload.workers = {} /\ SharedDatabase
  BY <1>1, StoreAssumption DEF SessionsLast
<1>3. /\ Types' /\ ThreadInv' /\ CacheInv' /\ PrivateInv' /\ LeaseInv'
  <2>1. Types'
    BY <1>1 DEF LInv, Types
  <2>2. ThreadInv'
    BY <1>1 DEF LInv, ThreadInv, Fits
  <2>3. CacheInv'
    BY <1>1 DEF LInv, CacheInv
  <2>4. PrivateInv'
    BY <1>1 DEF LInv, PrivateInv, Unshared
  <2>5. LeaseInv'
    BY <1>1 DEF LInv, LeaseInv, Leased
  <2>6. QED BY <2>1, <2>2, <2>3, <2>4, <2>5
<1>4. LockInv'
  <2>1. PICK l \in locks : l[2] = t /\ l[1] # Service(t) /\ locks' = locks \ {l}
    BY DEF DropLock
  <2>2. locks' \subseteq Ids \X Threads /\ Exclusive(locks')
    BY <2>1 DEF LInv, LockInv, Exclusive
  <2>3. ASSUME NEW u \in Threads PROVE Locked(u, pc[u])'
    <3>1. Locked(u, pc[u])
      BY DEF LInv, LockInv
    <3>2. u \in Workers => pc[u] \notin Busy
      BY <1>2 DEF LInv, ThreadInv, Fits, Busy
    <3>3. <<Service(u), u>> \in locks => <<Service(u), u>> \in locks'
      BY <2>1
    <3>4. QED BY <1>1, <1>2, <3>1, <3>2, <3>3 DEF Locked
  <2>4. QED BY <2>2, <2>3 DEF LockInv, Exclusive
<1>5. QED BY <1>1, <1>2, <1>3, <1>4 DEF LInv

LEMMA ExpireLeaseKeeps ==
  ASSUME LInv,
         UNCHANGED <<db, ledger, heap, cache, locks, pc, obj, local, workload>>
  PROVE  LInv'
<1>1. UNCHANGED <<db, heap, cache, locks, pc, cmd, obj, expected, token, workload>>
  BY DEF local
<1>2. Types'
  BY <1>1 DEF LInv, Types
<1>3. ThreadInv'
  BY <1>1 DEF LInv, ThreadInv, Fits
<1>4. CacheInv'
  BY <1>1 DEF LInv, CacheInv
<1>5. LockInv'
  BY <1>1 DEF LInv, LockInv, Locked
<1>6. PrivateInv'
  BY <1>1 DEF LInv, PrivateInv, Unshared
<1>7. LeaseInv'
  BY <1>1 DEF LInv, LeaseInv, Leased
<1>8. QED BY <1>2, <1>3, <1>4, <1>5, <1>6, <1>7 DEF LInv

\* The registers of the threads of r are reset, the others are as they were.
Resets(r) ==
    /\ pc' \in [Threads -> Places]
    /\ cmd' \in [Threads -> Commands \cup {NoCommand}]
    /\ obj' \in [Threads -> Objects \cup {None}]
    /\ expected' \in [Threads -> Statuses]
    /\ token' \in [Threads -> Nat]
    /\ \A t \in Threads : Home[t] = r =>
          pc'[t] = "idle" /\ cmd'[t] = NoCommand /\ obj'[t] = None
    /\ \A t \in Threads : Home[t] # r =>
          /\ pc'[t] = pc[t] /\ cmd'[t] = cmd[t] /\ obj'[t] = obj[t]
          /\ expected'[t] = expected[t] /\ token'[t] = token[t]

\* The owner of the stored lease, if it died, is none of the workers.
Orphans(r) ==
    /\ db' \in SoundDocuments
    /\ db'.status = db.status /\ db'.fence = db.fence /\ db'.progress = db.progress
    /\ db'.artifacts = db.artifacts /\ db'.greenlight = db.greenlight
    /\ \A w \in Workers : Home[w] # r /\ db.owner = w => db'.owner = w

LEMMA CrashWrites ==
  ASSUME Types, NEW r \in Replicas, Crash(r)
  PROVE  /\ Resets(r) /\ Orphans(r) /\ UNCHANGED <<ledger, workload>>
         /\ cache' = [cache EXCEPT ![r] = None]
         /\ locks' = {l \in locks : l[2] \notin {t \in Threads : Home[t] = r}}
         /\ Heap(heap)
<1>1. Resets(r)
  <2>1. "idle" \in Places /\ "absent" \in Statuses /\ 0 \in Nat
    BY DEF Places, WorkerPlaces, Statuses
  <2>2. /\ pc' \in [Threads -> Places]
        /\ \A t \in Threads : pc'[t] = IF Home[t] = r THEN "idle" ELSE pc[t]
    BY <2>1 DEF Crash, Types, Places
  <2>3. /\ cmd' \in [Threads -> Commands \cup {NoCommand}]
        /\ \A t \in Threads : cmd'[t] = IF Home[t] = r THEN NoCommand ELSE cmd[t]
    BY DEF Crash, Types
  <2>4. /\ obj' \in [Threads -> Objects \cup {None}]
        /\ \A t \in Threads : obj'[t] = IF Home[t] = r THEN None ELSE obj[t]
    BY DEF Crash, Types
  <2>5. /\ expected' \in [Threads -> Statuses]
        /\ \A t \in Threads : expected'[t] = IF Home[t] = r THEN "absent" ELSE expected[t]
    BY <2>1 DEF Crash, Types
  <2>6. /\ token' \in [Threads -> Nat]
        /\ \A t \in Threads : token'[t] = IF Home[t] = r THEN 0 ELSE token[t]
    BY <2>1 DEF Crash, Types
  <2>7. QED BY <2>2, <2>3, <2>4, <2>5, <2>6 DEF Resets
<1>2. Orphans(r)
  <2>1. CASE db.owner \notin {t \in Threads : Home[t] = r}
    BY <2>1 DEF Crash, Types, Orphans
  <2>2. CASE db.owner \in {t \in Threads : Home[t] = r}
    <3>1. db' = [db EXCEPT !.owner = "gone"] /\ Home[db.owner] = r
      BY <2>2 DEF Crash
    <3>2. QED BY <3>1 DEF Types, SoundDocuments, Documents, Orphans
  <2>3. QED BY <2>1, <2>2
<1>3. QED BY <1>1, <1>2 DEF Crash

LEMMA CrashKeeps ==
  ASSUME LInv, NEW r \in Replicas, Crash(r)
  PROVE  /\ LInv' /\ Resets(r) /\ Orphans(r) /\ UNCHANGED ledger
         /\ \A q \in Replicas : cache'[q] = IF q = r THEN None ELSE cache[q]
         /\ \A t \in Threads : obj'[t] \in Objects => heap'[obj'[t]] = heap[obj'[t]]
         /\ \A o \in Objects : heap'[o] \in {heap[o], NoDocument}
<1>1. Types /\ ThreadInv /\ CacheInv /\ LockInv /\ PrivateInv /\ LeaseInv
  BY DEF LInv
<1>2. /\ Resets(r) /\ Orphans(r) /\ UNCHANGED <<ledger, workload>>
      /\ cache' = [cache EXCEPT ![r] = None]
      /\ locks' = {l \in locks : l[2] \notin {t \in Threads : Home[t] = r}}
      /\ Heap(heap)
  BY <1>1, CrashWrites
<1>3. /\ heap' \in [Objects -> SoundDocuments]
      /\ \A t \in Threads : obj'[t] \in Objects => heap'[obj'[t]] = heap[obj'[t]]
      /\ \A o \in Objects : heap'[o] \in {heap[o], NoDocument}
  BY <1>1, <1>2, HeapWrites DEF Types
<1>4. /\ cache' \in [Replicas -> Objects \cup {None}]
      /\ \A q \in Replicas : cache'[q] = IF q = r THEN None ELSE cache[q]
  BY <1>1, <1>2 DEF Types
<1>5. Types'
  BY <1>1, <1>2, <1>3, <1>4 DEF Types, Resets, Orphans, Places
<1>6. ThreadInv'
  <2>1. ASSUME NEW t \in Threads PROVE Fits(t, pc[t], cmd[t], obj[t])'
    <3>1. CASE Home[t] = r
      BY <3>1, <1>2 DEF Resets, Fits, WorkerPlaces, ClientPlaces, Unloaded
    <3>2. CASE Home[t] # r
      BY <3>2, <1>1, <1>2 DEF Resets, Fits, ThreadInv
    <3>3. QED BY <3>1, <3>2
  <2>2. QED BY <2>1 DEF ThreadInv
<1>7. CacheInv'
  <2>1. ASSUME NEW t \in Threads, pc'[t] \in {"advance", "decide"}
        PROVE  cache'[Home[t]] # None
    <3>1. Home[t] # r /\ Home[t] \in Replicas /\ pc'[t] = pc[t]
      BY <1>2, <2>1, NumbersOfThreads DEF Resets
    <3>2. QED BY <1>1, <1>4, <2>1, <3>1 DEF CacheInv
  <2>2. QED BY <2>1 DEF CacheInv
<1>8. LockInv'
  <2>1. locks' \subseteq Ids \X Threads /\ Exclusive(locks')
    BY <1>1, <1>2 DEF LockInv, Exclusive
  <2>2. ASSUME NEW t \in Threads PROVE Locked(t, pc[t])'
    <3>1. CASE Home[t] = r
      BY <3>1, <1>2 DEF Resets, Locked, Busy, Serving, Commanding
    <3>2. CASE Home[t] # r
      <4>1. pc'[t] = pc[t] /\ Locked(t, pc[t])
        BY <3>2, <1>1, <1>2 DEF Resets, LockInv
      <4>2. \A id : <<id, t>> \in locks => <<id, t>> \in locks'
        BY <3>2, <1>2
      <4>3. QED BY <4>1, <4>2 DEF Locked
    <3>3. QED BY <3>1, <3>2
  <2>3. QED BY <2>1, <2>2 DEF LockInv, Exclusive
<1>9. PrivateInv'
  <2>1. ASSUME NEW t \in Threads, Loaded(pc'[t], cmd'[t]) PROVE Unshared(t, obj[t])'
    <3>1. pc'[t] = pc[t] /\ cmd'[t] = cmd[t] /\ obj'[t] = obj[t]
      <4>1. Home[t] # r
        BY <1>2, <2>1 DEF Resets, Loaded
      <4>2. QED BY <1>2, <4>1 DEF Resets
    <3>2. Unshared(t, obj[t]) /\ obj[t] # None
      BY <1>1, <2>1, <3>1 DEF PrivateInv, Loaded, ThreadInv, Fits, Unloaded
    <3>3. \A u \in Threads : obj'[u] \in {obj[u], None}
      BY <1>2 DEF Resets
    <3>4. QED BY <1>4, <3>1, <3>2, <3>3 DEF Unshared
  <2>2. QED BY <2>1 DEF PrivateInv
<1>10. LeaseInv'
  <2>1. ASSUME NEW w \in Workers PROVE Leased(w, pc[w], obj[w], expected[w], token[w])'
    <3>1. w \in Threads
      BY Sorts
    <3>2. CASE Home[w] = r
      BY <1>2, <3>1, <3>2 DEF Resets, Leased, Busy
    <3>3. CASE Home[w] # r
      <4>1. /\ pc'[w] = pc[w] /\ obj'[w] = obj[w]
            /\ expected'[w] = expected[w] /\ token'[w] = token[w]
        BY <1>2, <3>1, <3>3 DEF Resets
      <4>2. Leased(w, pc[w], obj[w], expected[w], token[w])
        BY <1>1 DEF LeaseInv
      <4>3. pc[w] = "save_lease" => heap'[obj[w]] = heap[obj[w]]
        <5>1. pc[w] = "save_lease" => obj[w] \in Objects
          BY <1>1, <3>1 DEF ThreadInv, Fits, Unloaded, Types
        <5>2. QED BY <1>3, <3>1, <4>1, <5>1
      <4>4. QED BY <1>2, <3>3, <4>1, <4>2, <4>3 DEF Leased, Orphans
    <3>4. QED BY <3>2, <3>3
  <2>2. QED BY <2>1 DEF LeaseInv
<1>11. LInv'
  BY <1>5, <1>6, <1>7, <1>8, <1>9, <1>10 DEF LInv
<1>12. QED BY <1>2, <1>3, <1>4, <1>11

LEMMA LeaseInit ==
  ASSUME Init
  PROVE  LInv
<1>1. /\ NoDocument \in SoundDocuments /\ "idle" \in Places /\ "absent" \in Statuses
  BY StepAssumption DEF NoDocument, SoundDocuments, Documents, Statuses, Runnable,
                        Places, WorkerPlaces
<1>2. Types
  BY <1>1 DEF Init, Types, Places
<1>3. \A t \in Threads : pc[t] = "idle" /\ cmd[t] = NoCommand /\ obj[t] = None
  BY DEF Init
<1>4. ThreadInv
  BY <1>3 DEF ThreadInv, Fits, WorkerPlaces, ClientPlaces, Unloaded
<1>5. CacheInv /\ PrivateInv
  BY <1>3 DEF CacheInv, PrivateInv, Loaded
<1>6. LockInv
  BY <1>3 DEF Init, LockInv, Locked, Busy, Serving, Commanding
<1>7. LeaseInv
  BY <1>3, Sorts DEF LeaseInv, Leased, Busy
<1>8. QED BY <1>2, <1>4, <1>5, <1>6, <1>7 DEF LInv

LEMMA LeaseNext ==
  ASSUME SessionsLast, LInv, [Next]_vars
  PROVE  LInv'
<1>1. CASE Next
  <2>1. ASSUME NEW w \in Workers, Poll(w) \/ Work(w) \/ AdvanceFails(w) PROVE LInv'
    <3>1. w \in Threads
      BY Sorts
    <3>2. QED BY <2>1, <3>1, PollKeeps, ClaimKeeps, SaveLeaseKeeps, RestoreRunKeeps,
                 AdvanceKeeps, AdvanceFailsKeeps, CheckpointKeeps DEF Work
  <2>2. ASSUME NEW c \in Clients, Request(c) \/ Serve(c) PROVE LInv'
    <3>1. c \in Threads
      BY Sorts
    <3>2. QED BY <2>2, <3>1, RequestKeeps, EnterKeeps, BeginCommandKeeps, CreateKeeps,
                 InsertKeeps, RestoreRunKeeps, DecideKeeps, SaveCommandKeeps DEF Serve
  <2>3. ASSUME NEW t \in Threads, Abort(t) \/ DropLock(t) PROVE LInv'
    BY <2>3, AbortKeeps, DropLockKeeps
  <2>4. ASSUME NEW r \in Replicas, Crash(r) PROVE LInv'
    BY <2>4, CrashKeeps
  <2>5. CASE ExpireLease
    <3>1. UNCHANGED <<db, ledger, heap, cache, locks, pc, obj, local, workload>>
      BY <2>5 DEF ExpireLease
    <3>2. QED BY <3>1, ExpireLeaseKeeps
  <2>6. QED BY <1>1, <2>1, <2>2, <2>3, <2>4, <2>5 DEF Next
<1>2. CASE UNCHANGED vars
  <2>1. UNCHANGED <<db, ledger, heap, cache, locks, pc, obj, local, workload>>
    BY <1>2 DEF vars, stored
  <2>2. QED BY <2>1, ExpireLeaseKeeps
<1>3. QED BY <1>1, <1>2

\* Whatever locks, objects and leases the threads have, they stay as LInv says.
THEOREM LeaseInvariant == SessionsLast => (Spec => []LInv)
<1>1. ASSUME SessionsLast PROVE Spec => []LInv
  <2>1. LInv /\ [Next]_vars => LInv'
    BY <1>1, LeaseNext
  <2>2. QED BY <2>1, LeaseInit, PTL DEF Spec
<1>2. QED BY <1>1

\* While a worker executes a station the stored lease is its own, and the run is
\* neither executed nor decided by another: the execution lock, the lease stored
\* before the station and the compared status suffice for any number of replicas,
\* if the sessions that hold the locks of workers last.
THEOREM ExclusiveLease == SessionsLast => (Spec => []LeaseIsExclusive)
<1>1. LInv => LeaseIsExclusive
  BY DEF LInv, LeaseInv, Leased, Busy, LeaseIsExclusive
<1>2. QED BY <1>1, LeaseInvariant, PTL

-------------------------------------------------------------------------------
(* The documents: what each step keeps. *)

\* The stored run has not changed, but for its lease.
SameRun ==
    /\ db'.status = db.status /\ db'.progress = db.progress
    /\ db'.artifacts = db.artifacts /\ db'.greenlight = db.greenlight

BundleStays ==
    db.status \in {"completed", "rejected", "revoked"} => db'.artifacts = db.artifacts

\* A step of t stores another run only if t works on the run, and no worker
\* executes it; a decided run is at most revoked.
Evolves(t) ==
    /\ Whole(db')
    /\ SameRun \/ (Critical(t) /\ \A w \in Workers \ {t} : pc[w] \notin Busy)
    /\ BundleStays
    /\ db.status \in {"completed", "revoked"} => db'.status \in {"completed", "revoked"}

LEMMA SameRunEvolves ==
  ASSUME DInv, NEW t, SameRun
  PROVE  Evolves(t) /\ BundleStays
  BY DEF DInv, DocumentInv, Whole, SameRun, Evolves, BundleStays

\* A worker and a command that decides do not work on the run at the same time.
LEMMA Apart ==
  ASSUME LInv, WorkersApart, NEW w \in Workers, NEW c \in Clients, pc[w] \in Busy,
         pc[c] \in Commanding, cmd[c][1] \in Decisions
  PROVE  FALSE
<1>1. /\ w \in Threads /\ c \in Threads /\ w # c /\ workload \in Workloads
      /\ ThreadInv /\ LockInv
  BY Sorts DEF LInv, Types
<1>2. workload.workers # {} /\ workload.operations \cap Decisions # {}
  BY <1>1 DEF ThreadInv, Fits, Busy, Commanding
<1>3. ~SharedDatabase
  BY <1>1, <1>2 DEF WorkersApart
<1>4. Critical(w) /\ Critical(c)
  BY DEF Critical
<1>5. QED BY <1>1, <1>3, <1>4, OneCritical

\* Two threads that have loaded the run, of which one is about to use the cache
\* of their replica, are one thread.
LEMMA OneRestores ==
  ASSUME LInv, WorkersApart, NEW t \in Threads, NEW u \in Threads, Home[t] = Home[u],
         pc[t] = "restore", pc[u] \in {"advance", "decide"}
  PROVE  t = u
<1>1. /\ Fits(t, pc[t], cmd[t], obj[t]) /\ Fits(u, pc[u], cmd[u], obj[u])
      /\ LockInv
  BY Facts
<1>2. CASE t \in Workers /\ u \in Workers
  BY <1>1, <1>2, OneBusy DEF Busy, Fits, WorkerPlaces
<1>3. CASE t \in Clients /\ u \in Clients
  BY <1>1, <1>3, OneServed DEF Serving, Commanding, Fits, ClientPlaces
<1>4. CASE t \in Workers /\ u \in Clients
  <2>1. pc[t] \in Busy /\ pc[u] \in Commanding /\ cmd[u][1] \in Decisions
    BY <1>1, <1>4 DEF Busy, Commanding, Fits, ClientPlaces, Operations
  <2>2. QED BY <1>4, <2>1, Apart
<1>5. CASE t \in Clients /\ u \in Workers
  <2>1. pc[u] \in Busy /\ pc[t] \in Commanding /\ cmd[t][1] \in Decisions
    BY <1>1, <1>5 DEF Busy, Commanding, Fits, WorkerPlaces, Operations
  <2>2. QED BY <1>5, <2>1, Apart
<1>6. QED BY <1>2, <1>3, <1>4, <1>5, NumbersOfThreads

\* The caches that the others are about to use are as they were.
SparesCaches(t) ==
    \A u \in Threads \ {t} : pc[u] \in {"advance", "decide"} =>
        cache'[Home[u]] = cache[Home[u]]

LEMMA OwnersKeep ==
  ASSUME LInv, OwnInv, NEW t \in Threads, NEW x, Moves(t, x), SparesCaches(t),
         NEW n, pc'[t] = n, NEW o, obj'[t] = o, o \in {None, obj[t]} \cup Unused,
         n \in {"advance", "decide"} => cache'[Home[t]] = o
  PROVE  OwnInv'
<1>1. \A u \in Threads \ {t} : obj'[u] = obj[u] /\ pc'[u] = pc[u]
  BY DEF Moves, Others
<1>2. ASSUME NEW u \in Threads, NEW v \in Threads, obj'[u] # None, obj'[u] = obj'[v]
      PROVE  u = v
  <2>1. \A y \in Threads \ {t} : obj[y] # None => obj[y] # o
    BY DEF OwnInv, Unused
  <2>2. QED BY <1>1, <1>2, <2>1 DEF OwnInv
<1>3. ASSUME NEW u \in Threads, pc'[u] \in {"advance", "decide"}
      PROVE  cache'[Home[u]] = obj'[u]
  <2>1. CASE u = t
    BY <1>3, <2>1
  <2>2. CASE u # t
    BY <1>1, <1>3, <2>2 DEF OwnInv, SparesCaches
  <2>3. QED BY <2>1, <2>2
<1>4. QED BY <1>2, <1>3 DEF OwnInv

LEMMA WorkersDocumentsKeep ==
  ASSUME LInv, DInv, NEW t \in Threads, Evolves(t), NEW u \in Workers \ {t},
         pc'[u] = pc[u], obj'[u] = obj[u],
         obj[u] # None => heap'[obj[u]] = heap[obj[u]], obj[u] # None
  PROVE  WorkerHas(pc[u], heap[obj[u]])'
<1>1. u \in Threads /\ u \in Workers
  BY Sorts
<1>2. pc[u] \in Busy
  BY <1>1, Facts DEF Fits, WorkerPlaces, Unloaded, Busy
<1>3. SameRun
  BY <1>2 DEF Evolves
<1>4. WorkerHas(pc[u], heap[obj[u]])
  BY <1>1 DEF DInv, DocumentInv
<1>5. QED BY <1>3, <1>4 DEF WorkerHas, SameRun

LEMMA ClientsDocumentsKeep ==
  ASSUME LInv, DInv, NEW t \in Threads, Evolves(t), NEW u \in Clients \ {t},
         pc'[u] = pc[u], cmd'[u] = cmd[u], obj'[u] = obj[u],
         obj[u] # None => heap'[obj[u]] = heap[obj[u]], obj[u] # None
  PROVE  ClientHas(pc[u], cmd[u], heap[obj[u]])'
<1>1. u \in Threads /\ u \in Clients /\ u # t
  BY Sorts
<1>2. Critical(u)
  BY <1>1, Facts DEF Fits, ClientPlaces, Unloaded, Critical, Commanding
<1>3. ClientHas(pc[u], cmd[u], heap[obj[u]])
  BY <1>1 DEF DInv, DocumentInv
<1>4. CASE SameRun
  BY <1>3, <1>4 DEF ClientHas, SameRun
<1>5. CASE ~SameRun
  <2>1. SharedDatabase
    <3>1. LockInv /\ ThreadInv /\ Critical(t)
      BY <1>5 DEF LInv, Evolves
    <3>2. QED BY <1>1, <1>2, <3>1, OneCritical
  <2>2. db.status \in {"completed", "revoked"} =>
           db'.status \in {"completed", "revoked"} /\ db'.artifacts = db.artifacts
    BY DEF Evolves, BundleStays
  <2>3. QED BY <1>3, <2>1, <2>2 DEF ClientHas
<1>6. QED BY <1>4, <1>5

LEMMA DocumentMoves ==
  ASSUME LInv, DInv, NEW t \in Threads, NEW x, Moves(t, x), SparesCaches(t),
         x \in {None, obj[t]} \cup Unused,
         NEW n, pc'[t] = n, NEW k, cmd'[t] = k,
         NEW o, obj'[t] = o, o \in {None, obj[t]} \cup Unused,
         n \in {"advance", "decide"} => cache'[Home[t]] = o,
         Evolves(t), \A i \in Objects : Whole(heap'[i]),
         o # None /\ t \in Workers => WorkerHas(n, heap[o])',
         o # None /\ t \in Clients => ClientHas(n, k, heap[o])'
  PROVE  OwnInv' /\ DocumentInv' /\ BundleStays
<1>1. OwnInv'
  BY OwnersKeep DEF DInv
<1>2. ASSUME NEW u \in Threads \ {t}
      PROVE  /\ pc'[u] = pc[u] /\ cmd'[u] = cmd[u] /\ obj'[u] = obj[u]
             /\ obj[u] # None => heap'[obj[u]] = heap[obj[u]]
  <2>1. obj[u] # None => obj[u] # x
    BY DEF DInv, OwnInv, Unused
  <2>2. QED BY <2>1 DEF Moves, Others, Spares
<1>3. ASSUME NEW w \in Workers, obj'[w] # None PROVE WorkerHas(pc[w], heap[obj[w]])'
  <2>1. CASE w = t
    BY <1>3, <2>1
  <2>2. CASE w # t
    BY <1>2, <1>3, <2>2, Sorts, WorkersDocumentsKeep
  <2>3. QED BY <2>1, <2>2
<1>4. ASSUME NEW c \in Clients, obj'[c] # None PROVE ClientHas(pc[c], cmd[c], heap[obj[c]])'
  <2>1. CASE c = t
    BY <1>4, <2>1
  <2>2. CASE c # t
    BY <1>2, <1>4, <2>2, Sorts, ClientsDocumentsKeep
  <2>3. QED BY <2>1, <2>2
<1>5. DocumentInv'
  BY <1>3, <1>4 DEF DocumentInv, Evolves
<1>6. QED BY <1>1, <1>5 DEF Evolves

\* The objects that a step writes are whole.
LEMMA NothingIsWhole == Whole(NoDocument)
  BY DEF Whole, NoDocument

LEMMA HeapStaysWhole ==
  ASSUME DInv, NEW d, Whole(d), \A i \in Objects : heap'[i] \in {heap[i], d, NoDocument}
  PROVE  \A i \in Objects : Whole(heap'[i])
  BY NothingIsWhole DEF DInv, DocumentInv

LEMMA FinishDocuments ==
  ASSUME LInv, DInv, NEW t \in Threads, Finish(t), UNCHANGED <<cache, workload>>, Evolves(t)
  PROVE  OwnInv' /\ DocumentInv' /\ BundleStays
<1>1. /\ Moves(t, None) /\ pc'[t] = "idle" /\ cmd'[t] = NoCommand /\ obj'[t] = None
      /\ \A o \in Objects : heap'[o] \in {heap[o], NoDocument}
  BY FinishMoves DEF LInv
<1>2. \A i \in Objects : Whole(heap'[i])
  BY <1>1, NothingIsWhole, HeapStaysWhole
<1>3. SparesCaches(t)
  BY DEF SparesCaches
<1>4. QED BY <1>1, <1>2, <1>3, DocumentMoves

\* Nothing is decided by a step that writes no receipt of a decision.
Undecided(x) == x \notin {"completed", "rejected", "revoked"}

LEMMA ReceiptsKeep ==
  ASSUME ReceiptInv, NEW e, e[1] \notin Decisions, ledger' \in {ledger, ledger \cup {e}},
         db'.status = db.status \/ (Undecided(db.status) /\ Undecided(db'.status))
  PROVE  ReceiptInv'
<1>1. \A op \in Decisions : {f \in ledger' : f[1] = op} = Receipts(op)
  BY DEF Receipts
<1>2. /\ {f \in ledger' : f[1] = "approve"} = Receipts("approve")
      /\ {f \in ledger' : f[1] = "reject"} = Receipts("reject")
      /\ {f \in ledger' : f[1] = "revoke"} = Receipts("revoke")
  BY <1>1 DEF Decisions
<1>3. QED BY <1>2 DEF ReceiptInv, Receipts, Undecided

LEMMA AttachmentsKeep ==
  ASSUME AttachInv, NEW e, e[1] # "attach", ledger' \in {ledger, ledger \cup {e}},
         ~SharedDatabase => db'.artifacts = db.artifacts,
         db'.status = "absent" => db.status = "absent"
  PROVE  AttachInv'
<1>1. \A a \in Artifacts : <<"attach", a>> # e
  OBVIOUS
<1>2. QED BY <1>1 DEF AttachInv, AttachmentsAreKept

LEMMA StoredKeeps ==
  ASSUME DInv, SameRun, UNCHANGED ledger
  PROVE  ReceiptInv' /\ AttachInv'
<1>1. PICK e : e = <<"create", None>>
  OBVIOUS
<1>2. e[1] \notin Decisions /\ e[1] # "attach"
  BY <1>1 DEF Decisions
<1>3. QED BY <1>2, ReceiptsKeep, AttachmentsKeep DEF DInv, SameRun

-------------------------------------------------------------------------------
(* The documents: steps of the workers. *)

\* A step that changes neither the stored run, the ledger, the heap nor the cache,
\* and loads nothing.
LEMMA StillDocuments ==
  ASSUME LInv, DInv, NEW t \in Threads, NEW x, Moves(t, x), x = None,
         UNCHANGED <<db, ledger, cache, heap>>, obj'[t] = None,
         NEW n \in {"claim", "enter", "command", "create"}, pc'[t] = n
  PROVE  DInv' /\ BundleStays
<1>1. SameRun
  BY DEF SameRun
<1>2. Evolves(t) /\ SparesCaches(t) /\ \A i \in Objects : Whole(heap'[i])
  BY <1>1, SameRunEvolves DEF SparesCaches, DInv, DocumentInv
<1>p. PICK k, o : k = cmd'[t] /\ o = None
  OBVIOUS
<1>3. OwnInv' /\ DocumentInv' /\ BundleStays
  BY <1>2, <1>p, DocumentMoves
<1>4. QED BY <1>1, <1>3, StoredKeeps DEF DInv

\* A step that ends and changes neither the stored run nor the ledger.
LEMMA QuitDocuments ==
  ASSUME LInv, DInv, NEW t \in Threads, Finish(t), UNCHANGED <<db, ledger, cache, workload>>
  PROVE  DInv' /\ BundleStays
<1>1. SameRun
  BY DEF SameRun
<1>2. OwnInv' /\ DocumentInv' /\ BundleStays
  BY <1>1, SameRunEvolves, FinishDocuments
<1>3. QED BY <1>1, <1>2, StoredKeeps DEF DInv

LEMMA ClaimDocuments ==
  ASSUME LInv, DInv, NEW w \in Workers, Claim(w)
  PROVE  DInv' /\ BundleStays
<1>1. w \in Threads /\ w \notin Clients /\ UNCHANGED <<db, ledger, workload>>
  BY Sorts DEF Claim, stored
<1>2. CASE Finish(w) /\ UNCHANGED cache
  BY <1>1, <1>2, QuitDocuments
<1>3. CASE /\ Moves(w, Fresh) /\ Fresh \in Unused /\ UNCHANGED cache
           /\ pc'[w] = "save_lease" /\ obj'[w] = Fresh /\ heap'[Fresh] = db
           /\ \A o \in Objects : heap'[o] \in {heap[o], db, NoDocument}
  <2>p. PICK f, k : f = Fresh /\ k = cmd'[w]
    OBVIOUS
  <2>1. SameRun
    BY <1>1 DEF SameRun
  <2>2. Evolves(w) /\ SparesCaches(w)
    BY <1>3, <2>1, SameRunEvolves DEF SparesCaches
  <2>3. \A i \in Objects : Whole(heap'[i])
    BY <1>3, HeapStaysWhole DEF DInv, DocumentInv
  <2>4. WorkerHas("save_lease", heap[f])'
    BY <1>1, <1>3, <2>p DEF WorkerHas
  <2>5. OwnInv' /\ DocumentInv' /\ BundleStays
    BY <1>1, <1>3, <2>2, <2>3, <2>4, <2>p, DocumentMoves
  <2>6. QED BY <1>1, <2>1, <2>5, StoredKeeps DEF DInv
<1>4. QED BY <1>2, <1>3, ClaimKeeps

LEMMA SaveLeaseDocuments ==
  ASSUME LInv, DInv, NEW w \in Workers, SaveLease(w)
  PROVE  DInv' /\ BundleStays
<1>1. w \in Threads /\ w \notin Clients /\ UNCHANGED <<ledger, cache, workload>>
  BY Sorts, SaveLeaseKeeps DEF SaveLease
<1>2. CASE Finish(w) /\ UNCHANGED db
  BY <1>1, <1>2, QuitDocuments
<1>3. CASE /\ Moves(w, obj[w])
           /\ pc[w] = "save_lease" /\ pc'[w] = "restore" /\ obj'[w] = obj[w]
           /\ heap'[obj[w]] = db'
           /\ db'.status = heap[obj[w]].status /\ db'.progress = heap[obj[w]].progress
           /\ db'.artifacts = heap[obj[w]].artifacts
           /\ db'.greenlight = heap[obj[w]].greenlight
           /\ \A o \in Objects : heap'[o] \in {heap[o], db', NoDocument}
  <2>p. PICK o, k, d : o = obj[w] /\ k = cmd'[w] /\ d = db'
    OBVIOUS
  <2>1. obj[w] \in Objects /\ None \notin Objects
    BY <1>1, <1>3, Facts DEF Fits, Unloaded
  <2>2. WorkerHas("save_lease", heap[obj[w]]) /\ Whole(heap[obj[w]]) /\ Whole(db)
    BY <1>3, <2>1 DEF DInv, DocumentInv
  <2>3. /\ db'.status = db.status /\ db'.progress = db.progress
        /\ db'.artifacts = db.artifacts
    BY <1>3, <2>2 DEF WorkerHas, Busy
  <2>4. Whole(d)
    BY <1>3, <2>2, <2>p DEF Whole
  <2>5. db.status \in Runnable
    BY <1>3, BusyRuns DEF Busy
  <2>6. /\ Critical(w) /\ \A u \in Workers \ {w} : pc[u] \notin Busy
    <3>1. pc[w] \in Busy
      BY <1>3 DEF Busy
    <3>2. QED BY <3>1, OneBusy DEF Critical, LInv
  <2>7. Evolves(w) /\ SparesCaches(w)
    BY <1>1, <2>3, <2>4, <2>5, <2>6, <2>p DEF Evolves, BundleStays, Runnable, SparesCaches
  <2>8. \A i \in Objects : Whole(heap'[i])
    BY <1>3, <2>4, <2>p, HeapStaysWhole
  <2>9. WorkerHas("restore", heap[o])'
    BY <1>3, <2>p DEF WorkerHas
  <2>10. OwnInv' /\ DocumentInv' /\ BundleStays
    BY <1>1, <1>3, <2>7, <2>8, <2>9, <2>p, DocumentMoves
  <2>11. ReceiptInv' /\ AttachInv'
    <3>e. PICK e : e = <<"create", None>>
      OBVIOUS
    <3>1. e[1] \notin Decisions /\ e[1] # "attach"
      BY <3>e DEF Decisions
    <3>2. QED BY <1>1, <2>3, <3>1, ReceiptsKeep, AttachmentsKeep DEF DInv
  <2>12. QED BY <2>10, <2>11 DEF DInv
<1>4. QED BY <1>2, <1>3, SaveLeaseKeeps

LEMMA RestoreRunDocuments ==
  ASSUME LInv, DInv, WorkersApart, NEW t \in Threads, RestoreRun(t)
  PROVE  DInv' /\ BundleStays
<1>p. PICK n, k, o : /\ n = IF t \in Workers THEN "advance" ELSE "decide"
                     /\ k = cmd[t] /\ o = obj[t]
  OBVIOUS
<1>1. /\ Moves(t, None) /\ UNCHANGED <<db, ledger>> /\ pc[t] = "restore"
      /\ pc'[t] = n /\ cmd'[t] = k /\ obj'[t] = o /\ o \in Objects
      /\ heap'[o] = heap[o]
      /\ cache' = [cache EXCEPT ![Home[t]] = o]
      /\ \A i \in Objects : heap'[i] \in {heap[i], NoDocument}
  BY <1>p, RestoreRunKeeps
<1>2. /\ Home[t] \in Replicas /\ None \notin Objects
      /\ cache \in [Replicas -> Objects \cup {None}]
  BY Facts DEF Types
<1>3. SameRun
  BY <1>1 DEF SameRun
<1>4. SparesCaches(t)
  <2>1. ASSUME NEW u \in Threads \ {t}, pc[u] \in {"advance", "decide"}
        PROVE  cache'[Home[u]] = cache[Home[u]]
    <3>1. Home[t] # Home[u]
      BY <1>1, <2>1, OneRestores
    <3>2. Home[u] \in Replicas
      BY NumbersOfThreads
    <3>3. QED BY <1>1, <1>2, <3>1, <3>2
  <2>2. QED BY <2>1 DEF SparesCaches
<1>5. \A i \in Objects : Whole(heap'[i])
  BY <1>1, NothingIsWhole, HeapStaysWhole
<1>6. cache'[Home[t]] = o
  BY <1>1, <1>2
<1>7. t \in Workers => WorkerHas(n, heap[o])'
  <2>1. t \in Workers => WorkerHas(pc[t], heap[o])
    BY <1>1, <1>2, <1>p DEF DInv, DocumentInv
  <2>2. QED BY <1>1, <1>p, <2>1 DEF WorkerHas, Busy
<1>8. t \in Clients => ClientHas(n, k, heap[o])'
  <2>1. t \in Clients => ClientHas(pc[t], cmd[t], heap[o]) /\ n = "decide"
    BY <1>1, <1>2, <1>p, Sorts DEF DInv, DocumentInv
  <2>2. QED BY <1>1, <1>p, <2>1 DEF ClientHas
<1>9. OwnInv' /\ DocumentInv' /\ BundleStays
  BY <1>1, <1>3, <1>4, <1>5, <1>6, <1>7, <1>8, <1>p, SameRunEvolves, DocumentMoves
<1>10. QED BY <1>1, <1>3, <1>9, StoredKeeps DEF DInv

LEMMA AdvanceDocuments ==
  ASSUME LInv, DInv, NEW w \in Workers, Advance(w)
  PROVE  DInv' /\ BundleStays
<1>p. PICK o, k, d : o = obj[w] /\ k = cmd'[w] /\ d = AdvancedBy(heap[obj[w]])
  OBVIOUS
<1>1. w \in Threads /\ w \notin Clients /\ pc[w] = "advance"
  BY Sorts DEF Advance
<1>2. cache[Home[w]] = o /\ o \in Objects /\ None \notin Objects
      /\ heap[o] \in SoundDocuments
  BY <1>1, <1>p, Facts DEF DInv, OwnInv, Fits, Unloaded, Types
<1>3. /\ UNCHANGED <<db, ledger, cache>> /\ Moves(w, o) /\ pc'[w] = "checkpoint"
      /\ obj'[w] = o /\ heap'[o] = d
      /\ \A i \in Objects : heap'[i] \in {heap[i], d, NoDocument}
  BY <1>2, <1>p, AdvanceKeeps
<1>4. /\ WorkerHas("advance", heap[o]) /\ Whole(heap[o])
      /\ db.status \in Runnable
  <2>1. db.status \in Runnable
    BY <1>1, BusyRuns DEF Busy
  <2>2. QED BY <1>1, <1>2, <1>p, <2>1 DEF DInv, DocumentInv
<1>5. heap[o].status \in Runnable /\ heap[o].progress = db.progress
      /\ heap[o].artifacts = db.artifacts
  BY <1>4 DEF WorkerHas, Busy
<1>6. /\ d.artifacts = heap[o].artifacts /\ d.greenlight = heap[o].greenlight
      /\ d.status \in {"running", "awaiting_greenlight"}
      /\ d.status = "awaiting_greenlight" => d.progress = Steps
  BY <1>2, <1>5, <1>p, AdvancedIsSound
<1>7. Whole(d)
  BY <1>4, <1>5, <1>6 DEF Whole, Runnable
<1>8. WorkerHas("checkpoint", heap[o])'
  BY <1>3, <1>5, <1>6 DEF WorkerHas
<1>9. SameRun /\ SparesCaches(w)
  BY <1>3 DEF SameRun, SparesCaches
<1>10. \A i \in Objects : Whole(heap'[i])
  BY <1>3, <1>7, HeapStaysWhole
<1>11. OwnInv' /\ DocumentInv' /\ BundleStays
  BY <1>1, <1>3, <1>8, <1>9, <1>10, <1>p, SameRunEvolves, DocumentMoves
<1>12. QED BY <1>3, <1>9, <1>11, StoredKeeps DEF DInv

LEMMA AdvanceFailsDocuments ==
  ASSUME LInv, DInv, NEW w \in Workers, AdvanceFails(w)
  PROVE  DInv' /\ BundleStays
<1>p. PICK o, k, d : o = obj[w] /\ k = cmd'[w] /\ d = FailedBy(heap[obj[w]])
  OBVIOUS
<1>1. w \in Threads /\ w \notin Clients /\ pc[w] = "advance"
  BY Sorts DEF AdvanceFails
<1>2. cache[Home[w]] = o /\ o \in Objects /\ None \notin Objects
      /\ heap[o] \in SoundDocuments
  BY <1>1, <1>p, Facts DEF DInv, OwnInv, Fits, Unloaded, Types
<1>3. /\ UNCHANGED <<db, ledger, cache>> /\ Moves(w, o) /\ pc'[w] = "checkpoint"
      /\ obj'[w] = o /\ heap'[o] = d
      /\ \A i \in Objects : heap'[i] \in {heap[i], d, NoDocument}
  BY <1>p, AdvanceFailsKeeps
<1>4. /\ WorkerHas("advance", heap[o]) /\ Whole(heap[o])
      /\ db.status \in Runnable
  <2>1. db.status \in Runnable
    BY <1>1, BusyRuns DEF Busy
  <2>2. QED BY <1>1, <1>2, <1>p, <2>1 DEF DInv, DocumentInv
<1>5. heap[o].status \in Runnable /\ heap[o].progress = db.progress
      /\ heap[o].artifacts = db.artifacts
  BY <1>4 DEF WorkerHas, Busy
<1>6. /\ d.artifacts = heap[o].artifacts /\ d.greenlight = heap[o].greenlight
      /\ d.status = "failed"
  BY <1>2, <1>p, FailedIsSound
<1>7. Whole(d)
  BY <1>4, <1>5, <1>6 DEF Whole, Runnable
<1>8. WorkerHas("checkpoint", heap[o])'
  BY <1>3, <1>5, <1>6 DEF WorkerHas
<1>9. SameRun /\ SparesCaches(w)
  BY <1>3 DEF SameRun, SparesCaches
<1>10. \A i \in Objects : Whole(heap'[i])
  BY <1>3, <1>7, HeapStaysWhole
<1>11. OwnInv' /\ DocumentInv' /\ BundleStays
  BY <1>1, <1>3, <1>8, <1>9, <1>10, <1>p, SameRunEvolves, DocumentMoves
<1>12. QED BY <1>3, <1>9, <1>11, StoredKeeps DEF DInv

LEMMA CheckpointDocuments ==
  ASSUME LInv, DInv, NEW w \in Workers, Checkpoint(w)
  PROVE  DInv' /\ BundleStays
<1>1. w \in Threads /\ pc[w] = "checkpoint" /\ pc[w] \in Busy
  BY Sorts DEF Checkpoint, Busy
<1>2. /\ obj[w] \in Objects /\ None \notin Objects /\ db.status \in Runnable
  BY <1>1, Facts, BusyRuns DEF Fits, Unloaded
<1>3. /\ WorkerHas("checkpoint", heap[obj[w]]) /\ Whole(heap[obj[w]])
  BY <1>1, <1>2 DEF DInv, DocumentInv
<1>e. PICK e : e = <<"checkpoint", token[w]>>
  OBVIOUS
<1>4. /\ Finish(w) /\ UNCHANGED <<cache, workload>>
      /\ \/ UNCHANGED <<db, ledger>>
         \/ db' = heap[obj[w]] /\ ledger' = ledger \cup {e}
  BY <1>e, SaveWrites DEF Checkpoint
<1>5. CASE UNCHANGED <<db, ledger>>
  BY <1>1, <1>4, <1>5, QuitDocuments
<1>6. CASE db' = heap[obj[w]] /\ ledger' = ledger \cup {e}
  <2>1. /\ db'.artifacts = db.artifacts /\ Whole(db')
        /\ db'.status \in {"running", "awaiting_greenlight", "failed"}
    BY <1>3, <1>6 DEF WorkerHas, Busy
  <2>2. /\ Critical(w) /\ \A u \in Workers \ {w} : pc[u] \notin Busy
    BY <1>1, OneBusy DEF Critical, LInv
  <2>3. Evolves(w)
    BY <1>2, <2>1, <2>2 DEF Evolves, BundleStays, Runnable
  <2>4. OwnInv' /\ DocumentInv' /\ BundleStays
    BY <1>1, <1>4, <2>3, FinishDocuments
  <2>5. ReceiptInv' /\ AttachInv'
    <3>1. e[1] \notin Decisions /\ e[1] # "attach"
      BY <1>e DEF Decisions
    <3>2. Undecided(db.status) /\ Undecided(db'.status) /\ db'.status # "absent"
      BY <1>2, <2>1 DEF Undecided, Runnable
    <3>3. QED BY <1>6, <2>1, <3>1, <3>2, ReceiptsKeep, AttachmentsKeep DEF DInv
  <2>6. QED BY <2>4, <2>5 DEF DInv
<1>7. QED BY <1>4, <1>5, <1>6

-------------------------------------------------------------------------------
(* The documents: steps of the clients. *)

\* A document that a client loads.
LEMMA LoadDocuments ==
  ASSUME LInv, DInv, NEW c \in Clients, pc[c] = "command",
         NEW d \in SoundDocuments, Whole(d), NEW n \in {"restore", "save"}, Load(c, d, n),
         UNCHANGED stored, UNCHANGED workload,
         cmd[c][1] \in Operations(n), ClientHas(n, cmd[c], d)
  PROVE  DInv' /\ BundleStays
<1>p. PICK f, k : f = Fresh /\ k = cmd[c]
  OBVIOUS
<1>1. /\ Moves(c, f) /\ f \in Unused /\ UNCHANGED <<db, ledger, cache>>
      /\ pc'[c] = n /\ cmd'[c] = k /\ obj'[c] = f /\ heap'[f] = d
      /\ \A i \in Objects : heap'[i] \in {heap[i], d, NoDocument}
  BY <1>p, LoadKeeps
<1>2. SameRun /\ SparesCaches(c) /\ c \in Threads /\ c \notin Workers
  BY <1>1, Sorts DEF SameRun, SparesCaches
<1>3. \A i \in Objects : Whole(heap'[i])
  BY <1>1, HeapStaysWhole
<1>4. ClientHas(n, k, heap[f])'
  <2>1. ClientHas(n, k, d)'
    BY <1>1, <1>p DEF ClientHas
  <2>2. QED BY <1>1, <2>1
<1>5. OwnInv' /\ DocumentInv' /\ BundleStays
  BY <1>1, <1>2, <1>3, <1>4, SameRunEvolves, DocumentMoves
<1>6. QED BY <1>1, <1>2, <1>5, StoredKeeps DEF DInv

LEMMA BeginCommandDocuments ==
  ASSUME LInv, DInv, NEW c \in Clients, BeginCommand(c)
  PROVE  DInv' /\ BundleStays
<1>1. /\ c \in Threads /\ pc[c] = "command" /\ UNCHANGED <<db, ledger, cache>>
      /\ UNCHANGED stored /\ UNCHANGED workload
      /\ db \in SoundDocuments /\ Whole(db)
  BY Sorts, BeginCommandKeeps DEF BeginCommand, LInv, Types, DInv, DocumentInv
<1>2. CASE Finish(c)
  BY <1>1, <1>2, QuitDocuments
<1>3. CASE /\ Moves(c, None) /\ pc'[c] = "create" /\ cmd'[c] = cmd[c] /\ obj'[c] = None
           /\ UNCHANGED heap
  BY <1>1, <1>3, StillDocuments
<1>4. CASE /\ cmd[c][1] \in Decisions /\ cmd[c] \notin ledger /\ db.status # "absent"
           /\ Load(c, db, "restore")
  <2>1. cmd[c][1] \in Operations("restore")
    BY <1>4 DEF Operations
  <2>2. ClientHas("restore", cmd[c], db)
    BY <1>4 DEF ClientHas
  <2>3. QED BY <1>1, <1>4, <2>1, <2>2, LoadDocuments
<1>5. CASE /\ cmd[c] \in {"attach"} \X Artifacts
           /\ db.status = "awaiting_greenlight" /\ cmd[c][2] \notin db.artifacts
           /\ Load(c, AttachedBy(db, cmd[c][2]), "save")
  <2>1. cmd[c][1] = "attach" /\ cmd[c][2] \in Artifacts
    BY <1>5
  <2>d. PICK d \in SoundDocuments :
           /\ d = AttachedBy(db, cmd[c][2])
           /\ d.status = db.status /\ d.progress = db.progress
           /\ d.greenlight = db.greenlight
           /\ d.artifacts = db.artifacts \cup {cmd[c][2]}
    BY <1>1, <2>1, AttachedIsSound
  <2>2. Whole(d) /\ cmd[c][1] \in Operations("save")
    BY <1>1, <2>1, <2>d DEF Whole, Operations
  <2>3. ClientHas("save", cmd[c], d)
    BY <1>5, <2>1, <2>d DEF ClientHas, Decisions
  <2>4. Load(c, d, "save")
    BY <1>5, <2>d
  <2>5. QED BY <1>1, <2>2, <2>3, <2>4, LoadDocuments
<1>6. QED BY <1>2, <1>3, <1>4, <1>5, BeginCommandKeeps

LEMMA CreateDocuments ==
  ASSUME LInv, DInv, NEW c \in Clients, Create(c)
  PROVE  DInv' /\ BundleStays
<1>1. /\ c \in Threads /\ c \notin Workers /\ pc[c] = "create"
      /\ UNCHANGED <<db, workload>> /\ cmd[c][1] = "create"
  <2>1. c \in Threads /\ c \notin Workers /\ pc[c] = "create" /\ UNCHANGED <<db, workload>>
    BY Sorts DEF Create
  <2>2. QED BY <2>1, Facts DEF Fits, Operations
<1>2. SameRun
  BY <1>1 DEF SameRun
<1>3. CASE Finish(c) /\ UNCHANGED cache /\ ledger' \in {ledger, ledger \cup {cmd[c]}}
  <2>1. OwnInv' /\ DocumentInv' /\ BundleStays
    BY <1>1, <1>2, <1>3, SameRunEvolves, FinishDocuments
  <2>2. ReceiptInv' /\ AttachInv'
    <3>1. cmd[c][1] \notin Decisions /\ cmd[c][1] # "attach"
      BY <1>1 DEF Decisions
    <3>2. QED BY <1>2, <1>3, <3>1, ReceiptsKeep, AttachmentsKeep DEF DInv, SameRun
  <2>3. QED BY <2>1, <2>2 DEF DInv
<1>4. CASE /\ UNCHANGED ledger /\ Moves(c, Fresh) /\ Fresh \in Unused
           /\ pc'[c] = "insert" /\ cmd'[c] = cmd[c] /\ obj'[c] = Fresh
           /\ \A r \in Replicas : cache'[r] \in {cache[r], Fresh}
           /\ \A r \in Replicas : cache[r] # None => cache'[r] = cache[r]
           /\ db.status = "absent"
           /\ \E d \in Created :
                 /\ heap'[Fresh] = d
                 /\ \A i \in Objects : heap'[i] \in {heap[i], d, NoDocument}
  <2>p. PICK f, k : f = Fresh /\ k = cmd[c]
    OBVIOUS
  <2>d. PICK d \in Created :
           /\ heap'[f] = d
           /\ \A i \in Objects : heap'[i] \in {heap[i], d, NoDocument}
    BY <1>4, <2>p
  <2>1. /\ d.status \in {"queued", "awaiting_greenlight"}
        /\ d.status = "awaiting_greenlight" => d.progress = Steps
        /\ d.greenlight = "none" /\ d.artifacts = {}
    BY CreatedIsSound
  <2>2. SparesCaches(c)
    <3>1. ASSUME NEW u \in Threads \ {c}, pc[u] \in {"advance", "decide"}
          PROVE  cache'[Home[u]] = cache[Home[u]]
      <4>1. Home[u] \in Replicas /\ cache[Home[u]] # None
        BY <3>1, NumbersOfThreads DEF LInv, CacheInv
      <4>2. QED BY <1>4, <4>1
    <3>2. QED BY <3>1 DEF SparesCaches
  <2>3. \A i \in Objects : Whole(heap'[i])
    <3>1. Whole(d)
      BY <2>1 DEF Whole
    <3>2. QED BY <2>d, <3>1, HeapStaysWhole
  <2>4. ClientHas("insert", k, heap[f])'
    BY <2>1, <2>d DEF ClientHas
  <2>5. OwnInv' /\ DocumentInv' /\ BundleStays
    BY <1>1, <1>2, <1>4, <2>2, <2>3, <2>4, <2>p, SameRunEvolves, DocumentMoves
  <2>6. QED BY <1>2, <1>4, <2>5, StoredKeeps DEF DInv
<1>5. QED BY <1>3, <1>4, CreateKeeps

LEMMA InsertDocuments ==
  ASSUME LInv, DInv, NEW c \in Clients, Insert(c)
  PROVE  DInv' /\ BundleStays
<1>1. /\ c \in Threads /\ c \notin Workers /\ pc[c] = "insert" /\ cmd[c][1] = "create"
      /\ obj[c] \in Objects /\ None \notin Objects
  <2>1. c \in Threads /\ c \notin Workers /\ pc[c] = "insert"
    BY Sorts DEF Insert
  <2>2. QED BY <2>1, Facts DEF Fits, Unloaded, Operations
<1>2. ClientHas("insert", cmd[c], heap[obj[c]]) /\ Whole(heap[obj[c]])
  BY <1>1 DEF DInv, DocumentInv
<1>3. /\ Finish(c) /\ UNCHANGED <<cache, workload>>
      /\ \/ UNCHANGED <<db, ledger>>
         \/ /\ db.status = "absent" /\ db' = heap[obj[c]]
            /\ ledger' = ledger \cup {cmd[c]}
  BY SaveWrites DEF Insert
<1>4. CASE UNCHANGED <<db, ledger>>
  BY <1>1, <1>3, <1>4, QuitDocuments
<1>5. CASE /\ db.status = "absent" /\ db' = heap[obj[c]]
           /\ ledger' = ledger \cup {cmd[c]}
  <2>1. /\ db'.status \in {"queued", "awaiting_greenlight"} /\ db'.artifacts = {}
        /\ Whole(db')
    BY <1>2, <1>5 DEF ClientHas
  <2>2. Critical(c) /\ \A u \in Workers \ {c} : pc[u] \notin Busy
    <3>1. db.status \notin Runnable
      BY <1>5 DEF Runnable
    <3>2. QED BY <1>1, <3>1, BusyRuns DEF Critical, Commanding
  <2>3. Evolves(c)
    BY <1>5, <2>1, <2>2 DEF Evolves, BundleStays
  <2>4. OwnInv' /\ DocumentInv' /\ BundleStays
    BY <1>1, <1>3, <2>3, FinishDocuments
  <2>5. ReceiptInv' /\ AttachInv'
    <3>1. cmd[c][1] \notin Decisions /\ cmd[c][1] # "attach"
      BY <1>1 DEF Decisions
    <3>2. Undecided(db.status) /\ Undecided(db'.status)
      BY <1>5, <2>1 DEF Undecided
    <3>3. ~SharedDatabase => db'.artifacts = db.artifacts
      BY <1>5, <2>1 DEF DInv, AttachInv
    <3>4. QED BY <1>5, <3>1, <3>2, <3>3, ReceiptsKeep, AttachmentsKeep DEF DInv
  <2>6. QED BY <2>4, <2>5 DEF DInv
<1>6. QED BY <1>3, <1>4, <1>5

LEMMA DecideDocuments ==
  ASSUME LInv, DInv, NEW c \in Clients, Decide(c)
  PROVE  DInv' /\ BundleStays
<1>1. /\ c \in Threads /\ c \notin Workers /\ pc[c] = "decide" /\ None \notin Objects
      /\ UNCHANGED <<db, ledger, cache, workload>> /\ cmd[c][1] \in Decisions
      /\ Fits(c, pc[c], cmd[c], obj[c])
  <2>1. UNCHANGED workload
    BY DEF Decide
  <2>2. QED BY <2>1, Sorts, Facts, DecideKeeps
<1>p. PICK x, k, d : /\ x = cache[Home[c]] /\ k = cmd[c]
                     /\ d = Decided(heap[cache[Home[c]]], cmd[c][1])
  OBVIOUS
<1>2. /\ x = obj[c] /\ x \in Objects /\ x # None /\ heap[x] \in SoundDocuments
      /\ ClientHas("decide", k, heap[x]) /\ Whole(heap[x])
  <2>1. x = obj[c] /\ x \in Objects
    BY <1>1, <1>p, DecideKeeps DEF DInv, OwnInv
  <2>2. QED BY <1>1, <1>p, <2>1 DEF DInv, DocumentInv, LInv, Types
<1>3. CASE Finish(c)
  BY <1>1, <1>3, QuitDocuments
<1>4. CASE /\ Moves(c, x)
           /\ pc'[c] = "save" /\ cmd'[c] = k /\ obj'[c] = x
           /\ heap[x].status = Required(k[1])
           /\ heap'[x] = d
           /\ \A i \in Objects : heap'[i] \in {heap[i], NoDocument, d}
  <2>1. /\ d.status = Outcome(k[1]) /\ d.greenlight # "none"
        /\ d.progress = heap[x].progress /\ d.artifacts = heap[x].artifacts
    BY <1>1, <1>2, <1>p, DecidedIsSound
  <2>2. Whole(d)
    BY <1>1, <1>2, <1>4, <1>p, <2>1 DEF Whole, Required, Outcome, Decisions
  <2>3. ClientHas("save", k, d)
    <3>1. k[1] = "revoke" => heap[x].status = "completed"
      BY <1>4 DEF Required
    <3>2. k[1] # "attach"
      BY <1>1, <1>p DEF Decisions
    <3>3. QED BY <1>2, <2>1, <3>1, <3>2 DEF ClientHas
  <2>4. ClientHas("save", k, heap[x])'
    <3>1. ClientHas("save", k, d)'
      BY <1>1, <2>3 DEF ClientHas
    <3>2. QED BY <1>4, <3>1
  <2>5. SameRun /\ SparesCaches(c)
    BY <1>1 DEF SameRun, SparesCaches
  <2>6. \A i \in Objects : Whole(heap'[i])
    <3>1. \A i \in Objects : heap'[i] \in {heap[i], d, NoDocument}
      BY <1>4
    <3>2. QED BY <2>2, <3>1, HeapStaysWhole
  <2>7. OwnInv' /\ DocumentInv' /\ BundleStays
    BY <1>1, <1>2, <1>4, <2>4, <2>5, <2>6, SameRunEvolves, DocumentMoves
  <2>8. QED BY <1>1, <2>5, <2>7, StoredKeeps DEF DInv
<1>5. QED BY <1>3, <1>4, <1>p, DecideKeeps

\* The receipt of a decision, with the status that it leads to.
LEMMA ReceiptIsKept ==
  ASSUME ReceiptInv, NEW e, NEW op \in Decisions, e[1] = op, ledger' = ledger \cup {e},
         db.status = Required(op), db'.status = Outcome(op)
  PROVE  ReceiptInv'
<1>1. \A p : {f \in ledger' : f[1] = p} =
                IF p = op THEN Receipts(p) \cup {e} ELSE Receipts(p)
  BY DEF Receipts
<1>2. CASE op = "approve"
  <2>1. /\ {f \in ledger' : f[1] = "approve"} = Receipts("approve") \cup {e}
        /\ {f \in ledger' : f[1] = "reject"} = Receipts("reject")
        /\ {f \in ledger' : f[1] = "revoke"} = Receipts("revoke")
    BY <1>1, <1>2
  <2>2. db.status = "awaiting_greenlight" /\ db'.status = "completed"
    BY <1>2 DEF Required, Outcome
  <2>3. Receipts("approve") = {} /\ Receipts("reject") = {} /\ Receipts("revoke") = {}
    BY <2>2 DEF ReceiptInv
  <2>4. QED BY <2>1, <2>2, <2>3 DEF ReceiptInv, Receipts
<1>3. CASE op = "reject"
  <2>1. /\ {f \in ledger' : f[1] = "approve"} = Receipts("approve")
        /\ {f \in ledger' : f[1] = "reject"} = Receipts("reject") \cup {e}
        /\ {f \in ledger' : f[1] = "revoke"} = Receipts("revoke")
    BY <1>1, <1>3
  <2>2. db.status = "awaiting_greenlight" /\ db'.status = "rejected"
    BY <1>3 DEF Required, Outcome
  <2>3. Receipts("approve") = {} /\ Receipts("reject") = {} /\ Receipts("revoke") = {}
    BY <2>2 DEF ReceiptInv
  <2>4. QED BY <2>1, <2>2, <2>3 DEF ReceiptInv, Receipts
<1>4. CASE op = "revoke"
  <2>1. /\ {f \in ledger' : f[1] = "approve"} = Receipts("approve")
        /\ {f \in ledger' : f[1] = "reject"} = Receipts("reject")
        /\ {f \in ledger' : f[1] = "revoke"} = Receipts("revoke") \cup {e}
    BY <1>1, <1>4
  <2>2. db.status = "completed" /\ db'.status = "revoked"
    BY <1>4 DEF Required, Outcome
  <2>3. Receipts("approve") # {} /\ Receipts("reject") = {} /\ Receipts("revoke") = {}
    BY <2>2 DEF ReceiptInv
  <2>4. QED BY <2>1, <2>2, <2>3 DEF ReceiptInv, Receipts
<1>5. QED BY <1>2, <1>3, <1>4 DEF Decisions

LEMMA SaveCommandDocuments ==
  ASSUME LInv, DInv, NEW c \in Clients, SaveCommand(c)
  PROVE  DInv' /\ BundleStays
<1>1. /\ c \in Threads /\ c \notin Workers /\ pc[c] = "save"
      /\ cmd[c] \in Commands /\ cmd[c][1] \in Decisions \cup {"attach"}
      /\ obj[c] \in Objects /\ None \notin Objects
  <2>1. c \in Threads /\ c \notin Workers /\ pc[c] = "save"
    BY Sorts DEF SaveCommand
  <2>2. QED BY <2>1, Facts DEF Fits, Unloaded, Operations
<1>p. PICK k, d : k = cmd[c] /\ d = heap[obj[c]]
  OBVIOUS
<1>2. ClientHas("save", k, d) /\ Whole(d)
  BY <1>1, <1>p DEF DInv, DocumentInv
<1>3. /\ Finish(c) /\ UNCHANGED <<cache, workload>>
      /\ \/ UNCHANGED <<db, ledger>>
         \/ db.status = Required(k[1]) /\ db' = d /\ ledger' = ledger \cup {k}
  BY <1>p, SaveWrites DEF SaveCommand
<1>4. CASE UNCHANGED <<db, ledger>>
  BY <1>1, <1>3, <1>4, QuitDocuments
<1>5. CASE db.status = Required(k[1]) /\ db' = d /\ ledger' = ledger \cup {k}
  <2>1. Critical(c) /\ \A u \in Workers \ {c} : pc[u] \notin Busy
    <3>1. db.status \notin Runnable
      BY <1>5 DEF Runnable, Required
    <3>2. QED BY <1>1, <3>1, BusyRuns DEF Critical, Commanding
  <2>2. CASE k[1] = "attach"
    <3>1. /\ db.status = "awaiting_greenlight" /\ db'.status = "awaiting_greenlight"
          /\ ~SharedDatabase => db'.artifacts = db.artifacts \cup {k[2]}
      BY <1>2, <1>5, <2>2 DEF ClientHas, Required
    <3>2. Evolves(c)
      BY <1>2, <1>5, <2>1, <3>1 DEF Evolves, BundleStays
    <3>3. OwnInv' /\ DocumentInv' /\ BundleStays
      BY <1>1, <1>3, <3>2, FinishDocuments
    <3>4. ReceiptInv'
      <4>1. k[1] \notin Decisions /\ Undecided(db.status) /\ Undecided(db'.status)
        BY <2>2, <3>1 DEF Decisions, Undecided
      <4>2. QED BY <1>5, <4>1, ReceiptsKeep DEF DInv
    <3>5. AttachInv'
      <4>1. k = <<"attach", k[2]>>
        BY <1>1, <1>p, <2>2 DEF Commands
      <4>2. QED BY <1>5, <3>1, <4>1 DEF DInv, AttachInv, AttachmentsAreKept
    <3>6. QED BY <3>3, <3>4, <3>5 DEF DInv
  <2>3. CASE k[1] \in Decisions
    <3>1. /\ db'.status = Outcome(k[1])
          /\ ~SharedDatabase => db'.artifacts = db.artifacts
          /\ k[1] = "revoke" => db'.artifacts = db.artifacts
      BY <1>2, <1>5, <2>3 DEF ClientHas
    <3>2. /\ db.status \in {"completed", "rejected", "revoked"} => k[1] = "revoke"
          /\ k[1] = "revoke" => db'.status = "revoked"
          /\ db'.status # "absent" /\ k[1] # "attach"
      BY <1>5, <2>3, <3>1 DEF Required, Outcome, Decisions
    <3>3. Evolves(c)
      BY <1>2, <1>5, <2>1, <3>1, <3>2 DEF Evolves, BundleStays
    <3>4. OwnInv' /\ DocumentInv' /\ BundleStays
      BY <1>1, <1>3, <3>3, FinishDocuments
    <3>5. ReceiptInv'
      BY <1>5, <2>3, <3>1, ReceiptIsKept DEF DInv
    <3>6. AttachInv'
      BY <1>5, <3>1, <3>2, AttachmentsKeep DEF DInv
    <3>7. QED BY <3>4, <3>5, <3>6 DEF DInv
  <2>4. QED BY <1>1, <1>p, <2>2, <2>3
<1>6. QED BY <1>3, <1>4, <1>5

-------------------------------------------------------------------------------
(* The documents: faults. *)

LEMMA CrashDocuments ==
  ASSUME LInv, DInv, NEW r \in Replicas, Crash(r)
  PROVE  DInv' /\ BundleStays
<1>1. /\ Resets(r) /\ Orphans(r) /\ UNCHANGED ledger
      /\ \A q \in Replicas : cache'[q] = IF q = r THEN None ELSE cache[q]
      /\ \A t \in Threads : obj'[t] \in Objects => heap'[obj'[t]] = heap[obj'[t]]
      /\ \A o \in Objects : heap'[o] \in {heap[o], NoDocument}
  BY CrashKeeps
<1>2. SameRun /\ BundleStays /\ Whole(db')
  BY <1>1 DEF Orphans, SameRun, BundleStays, DInv, DocumentInv, Whole
<1>3. OwnInv'
  <2>1. ASSUME NEW t \in Threads, NEW u \in Threads, obj'[t] # None, obj'[t] = obj'[u]
        PROVE  t = u
    BY <1>1, <2>1 DEF Resets, DInv, OwnInv
  <2>2. ASSUME NEW t \in Threads, pc'[t] \in {"advance", "decide"}
        PROVE  cache'[Home[t]] = obj'[t]
    <3>1. Home[t] # r
      BY <1>1, <2>2 DEF Resets
    <3>2. Home[t] \in Replicas /\ pc'[t] = pc[t] /\ obj'[t] = obj[t]
      BY <1>1, <3>1, NumbersOfThreads DEF Resets
    <3>3. QED BY <1>1, <2>2, <3>1, <3>2 DEF DInv, OwnInv
  <2>3. QED BY <2>1, <2>2 DEF OwnInv
<1>4. ASSUME NEW t \in Threads, obj'[t] # None
      PROVE  /\ pc'[t] = pc[t] /\ cmd'[t] = cmd[t] /\ obj'[t] = obj[t]
             /\ heap'[obj[t]] = heap[obj[t]]
  <2>1. Home[t] # r
    BY <1>1, <1>4 DEF Resets
  <2>2. pc'[t] = pc[t] /\ cmd'[t] = cmd[t] /\ obj'[t] = obj[t] /\ obj[t] \in Objects
    BY <1>1, <1>4, <2>1, Facts DEF Resets
  <2>3. QED BY <1>1, <2>2
<1>5. DocumentInv'
  <2>1. \A i \in Objects : Whole(heap'[i])
    BY <1>1, NothingIsWhole, HeapStaysWhole
  <2>2. ASSUME NEW w \in Workers, obj'[w] # None PROVE WorkerHas(pc[w], heap[obj[w]])'
    <3>1. w \in Threads
      BY Sorts
    <3>2. WorkerHas(pc[w], heap[obj[w]])
      BY <1>4, <2>2, <3>1 DEF DInv, DocumentInv
    <3>3. QED BY <1>2, <1>4, <2>2, <3>1, <3>2 DEF WorkerHas, SameRun
  <2>3. ASSUME NEW c \in Clients, obj'[c] # None
        PROVE  ClientHas(pc[c], cmd[c], heap[obj[c]])'
    <3>1. c \in Threads
      BY Sorts
    <3>2. ClientHas(pc[c], cmd[c], heap[obj[c]])
      BY <1>4, <2>3, <3>1 DEF DInv, DocumentInv
    <3>3. QED BY <1>2, <1>4, <2>3, <3>1, <3>2 DEF ClientHas, SameRun
  <2>4. QED BY <1>2, <2>1, <2>2, <2>3 DEF DocumentInv
<1>6. QED BY <1>1, <1>2, <1>3, <1>5, StoredKeeps DEF DInv

\* A step that changes neither the run nor what the threads know of it.
LEMMA IdleDocuments ==
  ASSUME DInv, UNCHANGED <<db, ledger, heap, cache, pc, cmd, obj>>
  PROVE  DInv' /\ BundleStays
<1>1. SameRun /\ BundleStays
  BY DEF SameRun, BundleStays
<1>2. OwnInv'
  BY DEF DInv, OwnInv
<1>3. DocumentInv'
  BY DEF DInv, DocumentInv, WorkerHas, ClientHas
<1>4. QED BY <1>1, <1>2, <1>3, StoredKeeps DEF DInv

LEMMA DocumentsInit ==
  ASSUME Init
  PROVE  DInv
<1>1. \A t \in Threads : pc[t] = "idle" /\ obj[t] = None
  BY DEF Init
<1>2. OwnInv
  BY <1>1 DEF OwnInv
<1>3. DocumentInv
  BY <1>1, NothingIsWhole, Sorts DEF Init, DocumentInv
<1>4. db.status = "absent" /\ db.artifacts = {} /\ ledger = {}
  BY DEF Init, NoDocument
<1>5. ReceiptInv /\ AttachInv
  BY <1>4 DEF ReceiptInv, Receipts, AttachInv, AttachmentsAreKept
<1>6. QED BY <1>2, <1>3, <1>5 DEF DInv

\* The station that a worker executes follows the last stored checkpoint.
StationFollows ==
    \A w \in Workers : pc[w] = "advance" => heap[cache[Home[w]]].progress = db.progress

LEMMA StationsFollow ==
  ASSUME LInv, DInv
  PROVE  StationFollows
<1>1. ASSUME NEW w \in Workers, pc[w] = "advance"
      PROVE  heap[cache[Home[w]]].progress = db.progress
  <2>1. w \in Threads /\ obj[w] \in Objects /\ None \notin Objects
    BY <1>1, Sorts, Facts DEF Fits, Unloaded
  <2>2. cache[Home[w]] = obj[w] /\ WorkerHas("advance", heap[obj[w]])
    BY <1>1, <2>1 DEF DInv, OwnInv, DocumentInv
  <2>3. QED BY <2>2 DEF WorkerHas
<1>2. QED BY <1>1 DEF StationFollows

LEMMA DocumentsNext ==
  ASSUME SessionsLast, WorkersApart, LInv, DInv, [Next]_vars
  PROVE  DInv' /\ BundleStays
<1>1. CASE Next
  <2>1. ASSUME NEW w \in Workers, Poll(w) \/ Work(w) \/ AdvanceFails(w)
        PROVE  DInv' /\ BundleStays
    <3>1. w \in Threads
      BY Sorts
    <3>2. CASE Poll(w)
      <4>1. UNCHANGED <<db, ledger, cache, heap>>
        BY <3>2 DEF Poll, stored
      <4>2. QED BY <3>1, <3>2, <4>1, PollKeeps, StillDocuments
    <3>3. QED BY <2>1, <3>1, <3>2, ClaimDocuments, SaveLeaseDocuments,
                 RestoreRunDocuments, AdvanceDocuments, AdvanceFailsDocuments,
                 CheckpointDocuments DEF Work
  <2>2. ASSUME NEW c \in Clients, Request(c) \/ Serve(c) PROVE DInv' /\ BundleStays
    <3>1. c \in Threads
      BY Sorts
    <3>2. CASE Request(c)
      BY <3>1, <3>2, RequestKeeps, StillDocuments
    <3>3. CASE Enter(c)
      BY <3>1, <3>3, EnterKeeps, StillDocuments
    <3>4. QED BY <2>2, <3>1, <3>2, <3>3, BeginCommandDocuments, CreateDocuments,
                 InsertDocuments, RestoreRunDocuments, DecideDocuments,
                 SaveCommandDocuments DEF Serve
  <2>3. ASSUME NEW t \in Threads, Abort(t) \/ DropLock(t) PROVE DInv' /\ BundleStays
    <3>1. CASE Abort(t)
      BY <3>1, AbortKeeps, QuitDocuments
    <3>2. CASE DropLock(t)
      BY <3>2, DropLockKeeps, IdleDocuments
    <3>3. QED BY <2>3, <3>1, <3>2
  <2>4. ASSUME NEW r \in Replicas, Crash(r) PROVE DInv' /\ BundleStays
    BY <2>4, CrashDocuments
  <2>5. CASE ExpireLease
    <3>1. UNCHANGED <<db, ledger, heap, cache, pc, cmd, obj>>
      BY <2>5 DEF ExpireLease, local
    <3>2. QED BY <3>1, IdleDocuments
  <2>6. QED BY <1>1, <2>1, <2>2, <2>3, <2>4, <2>5 DEF Next
<1>2. CASE UNCHANGED vars
  <2>1. UNCHANGED <<db, ledger, heap, cache, pc, cmd, obj>>
    BY <1>2 DEF vars, stored, local
  <2>2. QED BY <2>1, IdleDocuments
<1>3. QED BY <1>1, <1>2

-------------------------------------------------------------------------------
(* The theorems about the documents. *)

LEMMA ReceiptsAreFew ==
  ASSUME NEW S, \A e, f \in S : e = f
  PROVE  Cardinality(S) <= 1
<1>1. CASE S = {}
  BY <1>1, FS_EmptySet
<1>2. CASE S # {}
  <2>1. PICK e \in S : TRUE
    BY <1>2
  <2>2. S = {e}
    BY <2>1
  <2>3. Cardinality({e}) = 1
    BY FS_Singleton
  <2>4. QED BY <2>2, <2>3
<1>3. QED BY <1>1, <1>2

LEMMA ReceiptedDecisions ==
  ASSUME ReceiptInv, Whole(db)
  PROVE  DecisionsAreReceipted
<1>1. /\ Cardinality(Receipts("approve") \cup Receipts("reject")) <= 1
      /\ Cardinality(Receipts("revoke")) <= 1
  BY ReceiptsAreFew DEF ReceiptInv
<1>2. db.greenlight # "none" => db.progress = Steps
  BY DEF Whole
<1>3. QED BY <1>1, <1>2 DEF DecisionsAreReceipted, ReceiptInv, Receipts

\* The documents that threads hold, the stored run and the receipts in the ledger
\* stay related as DInv says, for any number of workers, requests and replicas.
THEOREM DocumentInvariant == SessionsLast /\ WorkersApart => (Spec => [](LInv /\ DInv))
<1>1. ASSUME SessionsLast, WorkersApart PROVE Spec => [](LInv /\ DInv)
  <2>1. LInv /\ DInv /\ [Next]_vars => (LInv /\ DInv)'
    BY <1>1, LeaseNext, DocumentsNext
  <2>2. Init => LInv /\ DInv
    BY LeaseInit, DocumentsInit
  <2>3. QED BY <2>1, <2>2, PTL DEF Spec
<1>2. QED BY <1>1

\* A worker executes the station that follows the last stored checkpoint, although
\* it advances the object in the cache, which a command may replace: no station is
\* executed again after its checkpoint, and none is skipped.
THEOREM StationsOnce == SessionsLast /\ WorkersApart => (Spec => StationsRunOnce)
<1>1. ASSUME SessionsLast, WorkersApart PROVE Spec => StationsRunOnce
  <2>1. LInv /\ DInv => StationFollows
    BY StationsFollow
  <2>2. StationFollows =>
           [\A w \in Workers :
               pc[w] = "advance" /\ pc'[w] = "checkpoint" =>
                   heap[cache[Home[w]]].progress = db.progress]_vars
    BY DEF StationFollows
  <2>3. QED BY <1>1, <2>1, <2>2, DocumentInvariant, PTL DEF StationsRunOnce
<1>2. QED BY <1>1

\* The human gate: the run is decided once and not before its last station, and
\* the status, the Greenlight and the receipts in the ledger always agree.
THEOREM ReceiptedOnce == SessionsLast /\ WorkersApart => (Spec => []DecisionsAreReceipted)
<1>1. DInv => DecisionsAreReceipted
  BY ReceiptedDecisions DEF DInv, DocumentInv
<1>2. QED BY <1>1, DocumentInvariant, PTL

\* The bundle that was decided on does not change afterwards: not by an attachment
\* or a checkpoint that was begun before, nor by the decision to revoke it.
THEOREM BundleIsFixed == SessionsLast /\ WorkersApart => (Spec => DecidedBundleIsFixed)
<1>1. ASSUME SessionsLast, WorkersApart PROVE Spec => DecidedBundleIsFixed
  <2>1. LInv /\ DInv /\ [Next]_vars =>
           [db.greenlight # "none" => db'.artifacts = db.artifacts]_stored
    <3>1. ASSUME LInv, DInv, [Next]_vars
          PROVE  db.greenlight # "none" => db'.artifacts = db.artifacts
      <4>1. BundleStays /\ Whole(db)
        BY <1>1, <3>1, DocumentsNext DEF DInv, DocumentInv
      <4>2. QED BY <4>1 DEF BundleStays, Whole
    <3>2. QED BY <3>1
  <2>2. QED BY <1>1, <2>1, DocumentInvariant, PTL DEF Spec, DecidedBundleIsFixed
<1>2. QED BY <1>1

\* With SQLite, whose store lock is held by whoever works on the run, a reported
\* attachment is in the stored run and stays there, whatever workers, commands and
\* crashes come next.
THEOREM AttachmentsKept == ~SharedDatabase => (Spec => []AttachmentsAreKept)
<1>1. ASSUME ~SharedDatabase PROVE Spec => []AttachmentsAreKept
  <2>1. SessionsLast /\ WorkersApart
    BY <1>1, StoreAssumption DEF SessionsLast, WorkersApart
  <2>2. DInv => AttachmentsAreKept
    BY <1>1 DEF DInv, AttachInv
  <2>3. QED BY <2>1, <2>2, DocumentInvariant, PTL
<1>2. QED BY <1>1

-------------------------------------------------------------------------------
(* The types. *)

Events == Commands \cup ({"checkpoint"} \X Nat)

CountInv ==
    /\ ledger \subseteq Events
    /\ faults \in 0 .. workload.faults
    /\ leaseLive \in BOOLEAN

\* An event is that of a checkpoint, with the fence of its lease, or of a command.
LEMMA LedgerKeeps ==
  ASSUME LInv, CountInv, Next
  PROVE  ledger' \subseteq Events
<1>1. ASSUME NEW w \in Workers, Checkpoint(w) PROVE ledger' \subseteq Events
  <2>1. token[w] \in Nat
    BY Sorts, Facts
  <2>2. <<"checkpoint", token[w]>> \in Events
    BY <2>1 DEF Events
  <2>3. QED BY <1>1, <2>2 DEF Checkpoint, Save, CountInv
<1>2. ASSUME NEW c \in Clients, Create(c) \/ Insert(c) \/ SaveCommand(c)
      PROVE  ledger' \subseteq Events
  <2>1. c \in Threads /\ pc[c] # "idle"
    BY <1>2, Sorts DEF Create, Insert, SaveCommand
  <2>2. cmd[c] \in Events
    BY <2>1, Facts DEF Fits, Events
  <2>3. QED BY <1>2, <2>2 DEF Create, Insert, SaveCommand, Save, CountInv
<1>3. CASE UNCHANGED ledger
  BY <1>3 DEF CountInv
<1>4. ASSUME NEW w \in Workers, Poll(w) \/ Work(w) \/ AdvanceFails(w)
      PROVE  UNCHANGED ledger \/ Checkpoint(w)
  BY <1>4 DEF Poll, Work, Claim, SaveLease, RestoreRun, Advance, AdvanceFails, stored
<1>5. ASSUME NEW c \in Clients, Request(c) \/ Serve(c)
      PROVE  UNCHANGED ledger \/ Create(c) \/ Insert(c) \/ SaveCommand(c)
  BY <1>5 DEF Request, Serve, Enter, BeginCommand, RestoreRun, Decide, stored
<1>6. ASSUME NEW t \in Threads, Abort(t) \/ DropLock(t) PROVE UNCHANGED ledger
  BY <1>6 DEF Abort, DropLock, stored
<1>7. ASSUME NEW r \in Replicas, Crash(r) PROVE UNCHANGED ledger
  BY <1>7 DEF Crash
<1>8. ExpireLease => UNCHANGED ledger
  BY DEF ExpireLease
<1>9. QED BY <1>1, <1>2, <1>3, <1>4, <1>5, <1>6, <1>7, <1>8 DEF Next

\* A fault is counted, and none comes after the last.
LEMMA FaultsKeep ==
  ASSUME LInv, CountInv, Next
  PROVE  UNCHANGED workload /\ faults' \in 0 .. workload.faults
<1>1. workload.faults \in Nat /\ faults \in 0 .. workload.faults
  BY WorkloadAssumption DEF LInv, Types, CountInv
<1>2. UNCHANGED <<faults, workload>>
         \/ (faults < workload.faults /\ faults' = faults + 1 /\ UNCHANGED workload)
  <2>1. ASSUME NEW w \in Workers, Poll(w) \/ Work(w) PROVE UNCHANGED <<faults, workload>>
    BY <2>1 DEF Poll, Work, Claim, SaveLease, RestoreRun, Advance, Checkpoint
  <2>2. ASSUME NEW c \in Clients, Request(c) \/ Serve(c)
        PROVE  UNCHANGED <<faults, workload>>
    BY <2>2 DEF Request, Serve, Enter, BeginCommand, Create, Insert, RestoreRun, Decide,
                SaveCommand
  <2>3. ASSUME NEW w \in Workers, AdvanceFails(w)
        PROVE  faults < workload.faults /\ faults' = faults + 1 /\ UNCHANGED workload
    BY <2>3 DEF AdvanceFails
  <2>4. ASSUME NEW t \in Threads, Abort(t) \/ DropLock(t)
        PROVE  faults < workload.faults /\ faults' = faults + 1 /\ UNCHANGED workload
    BY <2>4 DEF Abort, DropLock
  <2>5. ASSUME NEW r \in Replicas, Crash(r)
        PROVE  faults < workload.faults /\ faults' = faults + 1 /\ UNCHANGED workload
    BY <2>5 DEF Crash
  <2>6. ExpireLease => UNCHANGED <<faults, workload>>
    BY DEF ExpireLease
  <2>7. QED BY <2>1, <2>2, <2>3, <2>4, <2>5, <2>6 DEF Next
<1>3. QED BY <1>1, <1>2

LEMMA Typed ==
  ASSUME LInv, CountInv
  PROVE  TypeOK
<1>1. Types /\ ThreadInv /\ LockInv
  BY DEF LInv
<1>2. /\ db \in Documents /\ heap \in [Objects -> Documents]
      /\ cache \in [Replicas -> Objects \cup {None}]
      /\ cmd \in [Threads -> Commands \cup {NoCommand}]
      /\ expected \in [Threads -> Statuses] /\ token \in [Threads -> Nat]
  BY <1>1 DEF Types, SoundDocuments
<1>3. pc \in [Workers \cup Clients -> {"idle", "claim", "save_lease", "restore",
                  "advance", "checkpoint", "enter", "command", "create",
                  "insert", "decide", "save"}]
  BY <1>1 DEF Types, Threads, WorkerPlaces, ClientPlaces
<1>4. \A t \in Threads :
         pc[t] \in {"save_lease", "restore", "checkpoint", "insert", "save"} =>
             obj[t] \in Objects
  BY Facts DEF Fits, Unloaded
<1>5. locks \subseteq ({Execution, Resource, Lock(Execution)}
                          \cup {<<"service", r>> : r \in Replicas}
                          \cup Commands) \X Threads
  <2>1. ASSUME NEW t \in Threads PROVE Service(t) \in {<<"service", r>> : r \in Replicas}
    BY NumbersOfThreads DEF Service
  <2>2. Lock(Resource) \in {Resource, Lock(Execution)}
    BY DEF Lock
  <2>3. ASSUME NEW k \in Commands PROVE Lock(k) \in Commands \cup {Lock(Execution)}
    BY DEF Lock
  <2>4. QED BY <1>1, <2>1, <2>2, <2>3 DEF LockInv, Ids
<1>6. QED BY <1>2, <1>3, <1>4, <1>5 DEF TypeOK, CountInv, Events

LEMMA LeaseIsBoolean ==
  ASSUME CountInv, Next
  PROVE  leaseLive' \in BOOLEAN
<1>1. ASSUME NEW w \in Workers, Poll(w) \/ Work(w) \/ AdvanceFails(w)
      PROVE  leaseLive' \in {leaseLive, TRUE}
  BY <1>1 DEF Poll, Work, Claim, SaveLease, RestoreRun, Advance, AdvanceFails, Checkpoint,
              stored
<1>2. ASSUME NEW c \in Clients, Request(c) \/ Serve(c) PROVE UNCHANGED leaseLive
  BY <1>2 DEF Request, Serve, Enter, BeginCommand, Create, Insert, RestoreRun, Decide,
              SaveCommand, stored
<1>3. ASSUME NEW t \in Threads, Abort(t) \/ DropLock(t) PROVE UNCHANGED leaseLive
  BY <1>3 DEF Abort, DropLock, stored
<1>4. ASSUME NEW r \in Replicas, Crash(r) PROVE UNCHANGED leaseLive
  BY <1>4 DEF Crash
<1>5. ExpireLease => leaseLive' = FALSE
  BY DEF ExpireLease
<1>6. QED BY <1>1, <1>2, <1>3, <1>4, <1>5 DEF Next, CountInv

\* Every variable holds a value of its type, and a thread that has loaded the run
\* holds an object.
THEOREM TypeCorrect == SessionsLast => (Spec => []TypeOK)
<1>1. Init => CountInv
  <2>1. SUFFICES ASSUME Init PROVE CountInv
    OBVIOUS
  <2>2. workload.faults \in Nat
    BY <2>1, WorkloadAssumption DEF Init
  <2>3. ledger = {} /\ faults = 0 /\ leaseLive = FALSE
    BY <2>1 DEF Init
  <2>4. ledger \subseteq Events /\ leaseLive \in BOOLEAN
    BY <2>3
  <2>5. faults \in 0 .. workload.faults
    BY <2>2, <2>3
  <2>6. QED BY <2>4, <2>5 DEF CountInv
<1>2. LInv /\ CountInv /\ [Next]_vars => CountInv'
  <2>1. CASE Next
    BY <2>1, LedgerKeeps, FaultsKeep, LeaseIsBoolean DEF CountInv
  <2>2. CASE UNCHANGED vars
    BY <2>2 DEF vars, stored, CountInv
  <2>3. QED BY <2>1, <2>2
<1>3. ASSUME SessionsLast PROVE Spec => []TypeOK
  <2>1. LInv /\ CountInv => TypeOK
    BY Typed
  <2>2. QED BY <1>1, <1>2, <1>3, <2>1, LeaseInvariant, PTL DEF Spec
<1>4. QED BY <1>3

===============================================================================
