--------------------------- MODULE ModelEffectProofs ---------------------------
(***************************************************************************)
(* Proofs about ModelEffect, for every number of threads, replicas, keys,  *)
(* requests and faults.                                                    *)
(*                                                                         *)
(* IInv is the inductive invariant: what each thread may rely on (Holds),  *)
(* that no row has two executing threads, what holds of the rows, the      *)
(* calls and the run, and who holds which lock.  EventsHaveOutputs is the  *)
(* one property that needs the service lock; that lock belongs to a        *)
(* process, so it is proved for threads of one replica.                    *)
(***************************************************************************)
EXTENDS ModelEffect, TLAPS

\* The threads that execute the effect of their row.
Executing == {"call", "complete", "mark_unknown"}

\* The places where a thread holds the service lock, with a run it has read.
Critical == Saving \cup {"list_effects", "save_decision"}

\* The output o is the one that its effect has stored.
Durable(o) == status[o[1]] = "succeeded" /\ receipt[o[1]] = o[2]

\* What a thread at c, with the registers k, t, d and l, may rely on.
Holds(c, k, t, d, l) ==
    /\ c \in Executing \cup {"reserve"} => k \in Keys /\ t \in Requests
    /\ c \in Executing => binding[k] = t
    /\ c = "call" => status[k] = "pending" /\ calls[t] = 0
    /\ c = "complete" => status[k] = "pending" /\ calls[t] = 1
    /\ c = "mark_unknown" => status[k] \in {"pending", "succeeded"} /\ calls[t] = 1
    /\ c = "reconcile" => k \in Keys /\ t \in Evidence /\ Exists(k)
    /\ c \in Attaching \cup Saving => k \in Keys /\ status[k] = "succeeded"
    /\ \A o \in d.outputs : Durable(o)
    /\ c \in Critical => d.status = "awaiting_greenlight"
    /\ c # "save_decision" => l = {}
    /\ \A j \in l : status[j] = "succeeded" /\ \E o \in d.outputs : o[1] = j

HolderInv == \A p \in Procs : Holds(pc[p], key[p], target[p], document[p], listed[p])

\* No row has two executing threads.
Exclusive ==
    \A p, q \in Procs :
        pc[p] \in Executing /\ pc[q] \in Executing /\ key[p] = key[q] => p = q

\* A request has one row, and was sent once if its row says that it was sent.
RowInv ==
    /\ \A j, k \in Keys : Exists(j) /\ binding[j] = binding[k] => j = k
    /\ \A q \in Requests :
          /\ calls[q] <= 1
          /\ calls[q] = 1 => \E k \in Keys : binding[k] = q
    /\ \A k \in Keys : status[k] \in {"succeeded", "unknown"} => calls[binding[k]] = 1

\* A lock has one holder, and the service lock is held where a run is used.
LockInv ==
    /\ \A l, m \in locks : l[1] = m[1] => l = m
    /\ \A p \in Procs : pc[p] \in Critical => <<Service(p), p>> \in locks

OneReplica == \A p, q \in Procs : Home[p] = Home[q]

\* In one replica nobody changes the run that a thread has read.
EventInv ==
    OneReplica => /\ \A p \in Procs : pc[p] \in Critical =>
                         document[p].outputs = run.outputs
                  /\ EventsHaveOutputs

IInv == TypeOK /\ HolderInv /\ Exclusive /\ RowInv /\ OutputsAreDurable
        /\ LockInv /\ EventInv
-------------------------------------------------------------------------------
(* Types, in the parts that a step can change on its own. *)

RowTypes ==
    /\ status \in [Keys -> {"none", "pending", "succeeded", "unknown"}]
    /\ binding \in [Keys -> Requests \cup {None}]
    /\ receipt \in [Keys -> Receipts \cup {None}]
    /\ \A k \in Keys : /\ status[k] = "none" <=> binding[k] = None
                       /\ status[k] = "succeeded" <=> receipt[k] # None
    /\ calls \in [Requests -> Nat]

RunTypes == run \in Documents /\ audit \subseteq Events

Names == ({"service"} \X Replicas) \cup ({"model-effect-attachment"} \X Keys)

Targets == Requests \cup Evidence \cup Decisions \cup {None}

ThreadTypes ==
    /\ locks \subseteq Names \X Procs
    /\ pc \in [Procs -> Pcs]
    /\ key \in [Procs -> Keys \cup {None}]
    /\ target \in [Procs -> Targets]
    /\ document \in [Procs -> Documents]
    /\ listed \in [Procs -> SUBSET Keys]
    /\ faults \in 0 .. MaxFaults

\* What is promised to the threads, and what is true of the rows and the run.
ThreadInv == ThreadTypes /\ HolderInv /\ Exclusive /\ LockInv

StoreInv == RowTypes /\ RunTypes /\ RowInv /\ OutputsAreDurable

LEMMA Parts == IInv <=> ThreadInv /\ StoreInv /\ EventInv
<1>1. TypeOK <=> RowTypes /\ RunTypes /\ ThreadTypes
  BY DEF TypeOK, RowTypes, RunTypes, ThreadTypes, Names, Targets
<1>2. QED BY <1>1 DEF IInv, ThreadInv, StoreInv

LEMMA PartsNext == ThreadInv' /\ StoreInv' /\ EventInv' => IInv'
  BY Parts, PTL

-------------------------------------------------------------------------------
(* The threads. *)

\* Take writes the program counter and the registers of one thread.
Take(p, c, k, t, d, l) ==
    /\ pc' = [pc EXCEPT ![p] = c]
    /\ key' = [key EXCEPT ![p] = k]
    /\ target' = [target EXCEPT ![p] = t]
    /\ document' = [document EXCEPT ![p] = d]
    /\ listed' = [listed EXCEPT ![p] = l]

Typed(c, k, t, d, l) ==
    /\ c \in Pcs /\ k \in Keys \cup {None} /\ t \in Targets
    /\ d \in Documents /\ l \in SUBSET Keys

LEMMA TakeWrites ==
  ASSUME ThreadTypes, NEW p \in Procs, NEW c, NEW k, NEW t, NEW d, NEW l,
         Typed(c, k, t, d, l), Take(p, c, k, t, d, l)
  PROVE  /\ pc' \in [Procs -> Pcs] /\ key' \in [Procs -> Keys \cup {None}]
         /\ target' \in [Procs -> Targets] /\ document' \in [Procs -> Documents]
         /\ listed' \in [Procs -> SUBSET Keys]
         /\ pc'[p] = c /\ key'[p] = k /\ target'[p] = t /\ document'[p] = d
         /\ listed'[p] = l
         /\ \A q \in Procs \ {p} :
               /\ pc'[q] = pc[q] /\ key'[q] = key[q] /\ target'[q] = target[q]
               /\ document'[q] = document[q] /\ listed'[q] = listed[q]
  BY DEF ThreadTypes, Typed, Take

\* What a step of p that goes to c does to the locks.
LockStep(p, c) ==
    \/ locks' = locks /\ (c \in Critical => pc[p] \in Critical)
    \/ locks' = {l \in locks : l[2] # p} /\ c \notin Critical
    \/ \E ids \in SUBSET Names : Acquire(ids, p) /\ Service(p) \in ids

LEMMA ServiceNamed ==
  ASSUME NEW p \in Procs
  PROVE  Service(p) \in Names
  BY HomeAssumption DEF Service, Names, HomeAssumption

LEMMA LocksKeep ==
  ASSUME ThreadTypes, LockInv, NEW p \in Procs, NEW c, LockStep(p, c),
         pc'[p] = c, \A q \in Procs \ {p} : pc'[q] = pc[q]
  PROVE  LockInv' /\ locks' \subseteq Names \X Procs
<1>1. CASE locks' = locks /\ (c \in Critical => pc[p] \in Critical)
  BY <1>1 DEF LockInv, Service, ThreadTypes
<1>2. CASE locks' = {l \in locks : l[2] # p} /\ c \notin Critical
  <2>1. ASSUME NEW q \in Procs, pc'[q] \in Critical
        PROVE  <<Service(q), q>> \in locks'
    BY <1>2, <2>1 DEF LockInv
  <2>2. QED BY <1>2, <2>1 DEF LockInv, Service, ThreadTypes
<1>3. CASE \E ids \in SUBSET Names : Acquire(ids, p) /\ Service(p) \in ids
  <2>1. PICK ids \in SUBSET Names : Acquire(ids, p) /\ Service(p) \in ids
    BY <1>3
  <2>2. ASSUME NEW l \in locks', NEW m \in locks', l[1] = m[1]
        PROVE  l = m
    <3>1. \A n \in ids \X {p} : n = <<n[1], p>> /\ n[1] \in ids
      OBVIOUS
    <3>2. QED BY <2>1, <2>2, <3>1 DEF Acquire, LockInv
  <2>3. ASSUME NEW q \in Procs, pc'[q] \in Critical
        PROVE  <<Service(q), q>> \in locks'
    BY <2>1, <2>3 DEF Acquire, LockInv
  <2>4. locks' \subseteq Names \X Procs
    BY <2>1 DEF Acquire, ThreadTypes
  <2>5. QED BY <2>2, <2>3, <2>4 DEF LockInv, Service
<1>4. QED BY <1>1, <1>2, <1>3 DEF LockStep

\* A step of p keeps the promises to all threads when it keeps those of the
\* place p goes to, and those to every other thread, which stays where it is.
LEMMA ThreadKeeps ==
  ASSUME ThreadInv, NEW p \in Procs, NEW c, NEW k, NEW t, NEW d, NEW l,
         Typed(c, k, t, d, l), Take(p, c, k, t, d, l),
         faults' \in 0 .. MaxFaults, LockStep(p, c), Holds(c, k, t, d, l)',
         c \in Executing => \A q \in Procs \ {p} : pc[q] \in Executing => key[q] # k,
         \A q \in Procs \ {p} : \A c2, k2, t2, d2, l2 :
             /\ c2 = pc[q] /\ k2 = key[q] /\ t2 = target[q]
             /\ d2 = document[q] /\ l2 = listed[q]
             => Holds(c2, k2, t2, d2, l2)'
  PROVE  ThreadInv'
<1>1. ThreadTypes /\ LockInv /\ Exclusive
  BY DEF ThreadInv
<1>2. ThreadTypes' /\ LockInv'
  <2>1. LockInv' /\ locks' \subseteq Names \X Procs
    BY <1>1, TakeWrites, LocksKeep
  <2>2. QED BY <1>1, <2>1, TakeWrites DEF ThreadTypes
<1>3. HolderInv'
  <2>1. ASSUME NEW q \in Procs
        PROVE  Holds(pc[q], key[q], target[q], document[q], listed[q])'
    <3>1. CASE q = p
      BY <1>1, <3>1, TakeWrites DEF Holds
    <3>2. CASE q # p
      <4>1. PICK c2, k2, t2, d2, l2 : /\ c2 = pc[q] /\ k2 = key[q] /\ t2 = target[q]
                                      /\ d2 = document[q] /\ l2 = listed[q]
        OBVIOUS
      <4>2. Holds(c2, k2, t2, d2, l2)'
        BY <3>2, <4>1
      <4>3. /\ pc'[q] = c2 /\ key'[q] = k2 /\ target'[q] = t2
            /\ document'[q] = d2 /\ listed'[q] = l2
        BY <1>1, <3>2, <4>1, TakeWrites
      <4>4. QED BY <4>2, <4>3 DEF Holds
    <3>3. QED BY <3>1, <3>2
  <2>2. QED BY <2>1 DEF HolderInv
<1>4. Exclusive'
  <2>1. ASSUME NEW q \in Procs, NEW r \in Procs, pc'[q] \in Executing,
               pc'[r] \in Executing, key'[q] = key'[r]
        PROVE  q = r
    BY <1>1, <2>1, TakeWrites DEF Exclusive
  <2>2. QED BY <2>1 DEF Exclusive
<1>5. QED BY <1>2, <1>3, <1>4 DEF ThreadInv

\* A request that ends.
LEMMA FinishTakes ==
  ASSUME NEW p \in Procs, Finish(p)
  PROVE  /\ Take(p, "idle", None, None, NoDocument, {})
         /\ Typed("idle", None, None, NoDocument, {})
         /\ LockStep(p, "idle") /\ "idle" \notin Executing
<1>1. NoDocument \in Documents
  BY DEF NoDocument, Documents, RunStatuses
<1>2. QED
  BY <1>1 DEF Finish, Goto, Take, Typed, Pcs, Targets, LockStep, Critical, Saving,
              Executing

LEMMA IdleHolds == Holds("idle", None, None, NoDocument, {})
  BY DEF Holds, Executing, Attaching, Saving, Critical, NoDocument

LEMMA IdleHoldsNext == Holds("idle", None, None, NoDocument, {})'
  BY IdleHolds, PTL

\* A thread that goes on with its registers as they are.
LEMMA GotoTakes ==
  ASSUME ThreadInv, NEW p \in Procs, NEW c \in Pcs, Goto(p, c), UNCHANGED local
  PROVE  /\ Take(p, c, key[p], target[p], document[p], listed[p])
         /\ Typed(c, key[p], target[p], document[p], listed[p])
  BY DEF ThreadInv, ThreadTypes, Goto, Take, Typed, local

\* What a thread may rely on.
LEMMA ThreadFacts ==
  ASSUME ThreadInv, NEW p \in Procs
  PROVE  /\ Typed(pc[p], key[p], target[p], document[p], listed[p])
         /\ Holds(pc[p], key[p], target[p], document[p], listed[p])
  BY DEF ThreadInv, ThreadTypes, HolderInv, Typed

\* Two threads of a replica do not use the run at the same time.
LEMMA OneCritical ==
  ASSUME LockInv, OneReplica, NEW p \in Procs, NEW q \in Procs,
         pc[p] \in Critical, pc[q] \in Critical
  PROVE  p = q
<1>1. Service(p) = Service(q)
  BY DEF OneReplica, Service
<1>2. <<Service(p), p>> \in locks /\ <<Service(q), q>> \in locks
  BY DEF LockInv
<1>3. <<Service(p), p>> = <<Service(q), q>>
  BY <1>1, <1>2 DEF LockInv
<1>4. QED BY <1>3

\* A step that leaves the run and the ledger alone.
LEMMA EventsKeep ==
  ASSUME ThreadTypes, EventInv, NEW p \in Procs, NEW c, NEW k, NEW t, NEW d, NEW l,
         Typed(c, k, t, d, l), Take(p, c, k, t, d, l), UNCHANGED stored,
         OneReplica /\ c \in Critical => d.outputs = run.outputs
  PROVE  EventInv'
<1>1. UNCHANGED <<run, audit>>
  BY DEF stored
<1>2. ASSUME OneReplica, NEW q \in Procs, pc'[q] \in Critical
      PROVE  document'[q].outputs = run'.outputs
  BY <1>1, <1>2, TakeWrites DEF EventInv
<1>3. ASSUME OneReplica PROVE EventsHaveOutputs'
  BY <1>1, <1>3 DEF EventInv, EventsHaveOutputs
<1>4. QED BY <1>2, <1>3 DEF EventInv, OneReplica
-------------------------------------------------------------------------------
(* Steps that move a thread and change neither the rows nor the run. *)

Moves(p, c, k, t, d, l) ==
    /\ Take(p, c, k, t, d, l)
    /\ Typed(c, k, t, d, l)
    /\ LockStep(p, c)
    /\ Holds(c, k, t, d, l)
    /\ c \in Executing => pc[p] \in Executing /\ k = key[p]
    /\ OneReplica /\ c \in Critical => d.outputs = run.outputs

Unmoved == UNCHANGED <<rows, calls, stored>> /\ faults' \in 0 .. MaxFaults

LEMMA MoveKeeps ==
  ASSUME IInv, NEW p \in Procs, NEW c, NEW k, NEW t, NEW d, NEW l,
         Moves(p, c, k, t, d, l), Unmoved
  PROVE  IInv'
<1>1. ThreadInv /\ StoreInv /\ EventInv
  BY Parts
<1>2. UNCHANGED <<status, binding, receipt, calls, run, audit>>
  BY DEF Unmoved, rows, stored
<1>3. ThreadInv'
  <2>1. Holds(c, k, t, d, l)'
    BY <1>2 DEF Moves, Holds, Durable, Exists
  <2>2. c \in Executing => \A q \in Procs \ {p} : pc[q] \in Executing => key[q] # k
    BY <1>1 DEF Moves, ThreadInv, Exclusive
  <2>3. ASSUME NEW q \in Procs \ {p}, NEW c2, NEW k2, NEW t2, NEW d2, NEW l2,
               c2 = pc[q] /\ k2 = key[q] /\ t2 = target[q]
               /\ d2 = document[q] /\ l2 = listed[q]
        PROVE  Holds(c2, k2, t2, d2, l2)'
    <3>1. Holds(c2, k2, t2, d2, l2)
      BY <1>1, <2>3, ThreadFacts
    <3>2. QED BY <1>2, <3>1 DEF Holds, Durable, Exists
  <2>4. QED BY <1>1, <2>1, <2>2, <2>3, ThreadKeeps DEF Moves, Unmoved
<1>4. StoreInv'
  BY <1>1, <1>2 DEF StoreInv, RowTypes, RunTypes, RowInv, OutputsAreDurable, Exists
<1>5. EventInv'
  BY <1>1, EventsKeep DEF Moves, Unmoved, ThreadInv
<1>6. QED BY <1>3, <1>4, <1>5, PartsNext

LEMMA SameFaults ==
  ASSUME IInv, UNCHANGED <<rows, calls, stored, faults>>
  PROVE  Unmoved
  BY Parts DEF Unmoved, ThreadInv, ThreadTypes

LEMMA FinishMoves ==
  ASSUME IInv, NEW p \in Procs, Finish(p)
  PROVE  Moves(p, "idle", None, None, NoDocument, {})
  BY FinishTakes, IdleHolds DEF Moves, Executing, Critical, Saving

LEMMA FinishKeeps ==
  ASSUME IInv, NEW p \in Procs, Finish(p), Unmoved
  PROVE  IInv'
  BY FinishMoves, MoveKeeps

LEMMA PrepareKeeps ==
  ASSUME IInv, NEW p \in Procs, PrepareModelEffect(p)
  PROVE  IInv'
<1>1. PICK k \in Keys, t \in Requests :
          key' = [key EXCEPT ![p] = k] /\ target' = [target EXCEPT ![p] = t]
  BY DEF PrepareModelEffect
<1>2. PICK d, l : d = document[p] /\ l = listed[p]
  OBVIOUS
<1>3. Typed(pc[p], key[p], target[p], d, l) /\ Holds(pc[p], key[p], target[p], d, l)
  BY <1>2, ThreadFacts, Parts
<1>4. Take(p, "reserve", k, t, d, l) /\ Typed("reserve", k, t, d, l)
  BY <1>1, <1>2, <1>3, Parts
     DEF PrepareModelEffect, Goto, Take, Typed, Pcs, Targets, ThreadInv, ThreadTypes
<1>5. Holds("reserve", k, t, d, l)
  BY <1>3 DEF PrepareModelEffect, Holds, Executing, Attaching, Saving, Critical
<1>6. Moves(p, "reserve", k, t, d, l)
  BY <1>4, <1>5
     DEF PrepareModelEffect, Moves, LockStep, Executing, Critical, Saving
<1>7. QED BY <1>6, MoveKeeps, SameFaults DEF PrepareModelEffect

LEMMA ReplayKeeps ==
  ASSUME IInv, NEW p \in Procs, Replay(p)
  PROVE  IInv'
<1>1. Unmoved /\ pc[p] = "reserve"
  BY SameFaults DEF Replay
<1>2. CASE Finish(p)
  BY <1>1, <1>2, FinishKeeps
<1>3. CASE ~Finish(p)
  <2>1. PICK k, t, d, l : /\ k = Found(key[p], target[p])
                          /\ t = target[p] /\ d = document[p] /\ l = listed[p]
    OBVIOUS
  <2>2. Typed(pc[p], key[p], t, d, l) /\ Holds(pc[p], key[p], t, d, l)
    BY <2>1, ThreadFacts, Parts
  <2>3. k \in Keys
    <3>1. key[p] \in Keys /\ Matches(key[p], t) # {}
      BY <1>1, <2>1, <2>2 DEF Holds, Replay
    <3>2. Matches(key[p], t) \subseteq Keys
      BY DEF Matches, BoundTo
    <3>3. QED BY <2>1, <3>1, <3>2 DEF Found
  <2>4. /\ key' = [key EXCEPT ![p] = k] /\ Goto(p, "attach_succeeded")
        /\ UNCHANGED <<locks, target, document, listed>> /\ status[k] = "succeeded"
    BY <1>3, <2>1 DEF Replay
  <2>5. Take(p, "attach_succeeded", k, t, d, l) /\ Typed("attach_succeeded", k, t, d, l)
    BY <2>1, <2>2, <2>3, <2>4, Parts
       DEF Goto, Take, Typed, Pcs, ThreadInv, ThreadTypes
  <2>6. Holds("attach_succeeded", k, t, d, l)
    BY <1>1, <2>2, <2>3, <2>4 DEF Holds, Executing, Attaching, Saving, Critical
  <2>7. Moves(p, "attach_succeeded", k, t, d, l)
    BY <2>4, <2>5, <2>6 DEF Moves, LockStep, Executing, Critical, Saving
  <2>8. QED BY <1>1, <2>7, MoveKeeps
<1>4. QED BY <1>2, <1>3

LEMMA BeginReconcileKeeps ==
  ASSUME IInv, NEW p \in Procs, BeginReconcile(p)
  PROVE  IInv'
<1>1. PICK k \in Keys, t \in Evidence :
          /\ Exists(k)
          /\ key' = [key EXCEPT ![p] = k] /\ target' = [target EXCEPT ![p] = t]
  BY DEF BeginReconcile
<1>2. PICK d, l : d = document[p] /\ l = listed[p]
  OBVIOUS
<1>3. Typed(pc[p], key[p], target[p], d, l) /\ Holds(pc[p], key[p], target[p], d, l)
  BY <1>2, ThreadFacts, Parts
<1>4. Take(p, "reconcile", k, t, d, l) /\ Typed("reconcile", k, t, d, l)
  BY <1>1, <1>2, <1>3, Parts
     DEF BeginReconcile, Goto, Take, Typed, Pcs, Targets, ThreadInv, ThreadTypes
<1>5. Holds("reconcile", k, t, d, l)
  BY <1>1, <1>3 DEF BeginReconcile, Holds, Executing, Attaching, Saving, Critical
<1>6. Moves(p, "reconcile", k, t, d, l)
  BY <1>4, <1>5
     DEF BeginReconcile, Moves, LockStep, Executing, Critical, Saving
<1>7. QED BY <1>6, MoveKeeps, SameFaults DEF BeginReconcile

LEMMA BeginAttachKeeps ==
  ASSUME IInv, NEW p \in Procs, BeginAttach(p)
  PROVE  IInv'
<1>1. PICK c, k, t, l : /\ c = (IF pc[p] = "attach_succeeded" THEN "save_succeeded"
                                ELSE "save_reconciled")
                        /\ k = key[p] /\ t = target[p] /\ l = listed[p]
  OBVIOUS
<1>2. Typed(pc[p], k, t, document[p], l) /\ Holds(pc[p], k, t, document[p], l)
  BY <1>1, ThreadFacts, Parts
<1>3. run \in Documents /\ (\A o \in run.outputs : Durable(o)) /\ c \in Saving
  BY <1>1, Parts DEF StoreInv, RunTypes, OutputsAreDurable, Durable, Saving
<1>4. Take(p, c, k, t, run, l) /\ Typed(c, k, t, run, l)
  BY <1>1, <1>2, <1>3, Parts
     DEF BeginAttach, Goto, Take, Typed, Pcs, Saving, ThreadInv, ThreadTypes
<1>5. Holds(c, k, t, run, l)
  BY <1>2, <1>3 DEF BeginAttach, Holds, Executing, Attaching, Saving, Critical
<1>6. LockStep(p, c)
  <2>1. k \in Keys
    BY <1>2 DEF BeginAttach, Holds
  <2>2. {Service(p), Attachment(p)} \in SUBSET Names
    BY <1>1, <2>1, ServiceNamed DEF Attachment, Names
  <2>3. QED BY <2>2 DEF BeginAttach, LockStep
<1>7. Moves(p, c, k, t, run, l)
  BY <1>3, <1>4, <1>5, <1>6 DEF Moves, Executing, Saving
<1>8. QED BY <1>7, MoveKeeps, SameFaults DEF BeginAttach

LEMMA BeginDecisionKeeps ==
  ASSUME IInv, NEW p \in Procs, BeginDecision(p)
  PROVE  IInv'
<1>1. PICK t \in Decisions, c \in {"list_effects", "save_decision"} :
          /\ c = (IF t = "approved" THEN "list_effects" ELSE "save_decision")
          /\ target' = [target EXCEPT ![p] = t] /\ Goto(p, c)
  BY DEF BeginDecision
<1>2. PICK k, l : k = key[p] /\ l = listed[p]
  OBVIOUS
<1>3. Typed(pc[p], k, target[p], document[p], l) /\ Holds(pc[p], k, target[p], document[p], l)
  BY <1>2, ThreadFacts, Parts
<1>4. run \in Documents /\ (\A o \in run.outputs : Durable(o)) /\ l = {}
  BY <1>2, <1>3, Parts
     DEF BeginDecision, Holds, StoreInv, RunTypes, OutputsAreDurable, Durable
<1>5. Take(p, c, k, t, run, l) /\ Typed(c, k, t, run, l)
  BY <1>1, <1>2, <1>3, <1>4, Parts
     DEF BeginDecision, Goto, Take, Typed, Pcs, Targets, ThreadInv, ThreadTypes
<1>6. Holds(c, k, t, run, l)
  BY <1>1, <1>3, <1>4 DEF BeginDecision, Holds, Executing, Attaching, Saving, Critical
<1>7. LockStep(p, c)
  BY ServiceNamed DEF BeginDecision, LockStep
<1>8. Moves(p, c, k, t, run, l)
  BY <1>1, <1>5, <1>6, <1>7 DEF Moves, Executing
<1>9. QED BY <1>8, MoveKeeps, SameFaults DEF BeginDecision

LEMMA ListEffectsKeeps ==
  ASSUME IInv, NEW p \in Procs, ListEffects(p)
  PROVE  IInv'
<1>1. Unmoved /\ pc[p] = "list_effects"
  BY SameFaults DEF ListEffects
<1>2. CASE Finish(p)
  BY <1>1, <1>2, FinishKeeps
<1>3. CASE ~Finish(p)
  <2>1. PICK k, t, d, l : /\ k = key[p] /\ t = target[p] /\ d = document[p]
                          /\ l = {j \in Keys : Exists(j)}
    OBVIOUS
  <2>2. Typed(pc[p], k, t, d, listed[p]) /\ Holds(pc[p], k, t, d, listed[p])
    BY <2>1, ThreadFacts, Parts
  <2>3. /\ Ready(d) /\ listed' = [listed EXCEPT ![p] = l] /\ Goto(p, "save_decision")
        /\ UNCHANGED <<locks, key, target, document>>
    BY <1>3, <2>1 DEF ListEffects
  <2>4. Take(p, "save_decision", k, t, d, l) /\ Typed("save_decision", k, t, d, l)
    BY <2>1, <2>2, <2>3, Parts DEF Goto, Take, Typed, Pcs, ThreadInv, ThreadTypes
  <2>5. \A j \in l : status[j] = "succeeded" /\ \E o \in d.outputs : o[1] = j
    BY <2>1, <2>3, Parts DEF Ready, Unresolved, Exists, StoreInv, RowTypes
  <2>6. Holds("save_decision", k, t, d, l)
    BY <1>1, <2>2, <2>5 DEF Holds, Executing, Attaching, Saving, Critical
  <2>7. OneReplica => d.outputs = run.outputs
    BY <1>1, <2>1, Parts DEF EventInv, Critical
  <2>8. Moves(p, "save_decision", k, t, d, l)
    BY <1>1, <2>3, <2>4, <2>6, <2>7 DEF Moves, LockStep, Executing, Critical
  <2>9. QED BY <1>1, <2>8, MoveKeeps
<1>4. QED BY <1>2, <1>3

LEMMA RefuseAttachKeeps ==
  ASSUME IInv, NEW p \in Procs, RefuseAttach(p)
  PROVE  IInv'
  BY FinishKeeps, SameFaults DEF RefuseAttach

LEMMA CrashKeeps ==
  ASSUME IInv, NEW p \in Procs, Crash(p)
  PROVE  IInv'
<1>1. faults' \in 0 .. MaxFaults
  BY Parts, FaultAssumption DEF Crash, ThreadInv, ThreadTypes, FaultAssumption
<1>2. Unmoved /\ Finish(p)
  BY <1>1 DEF Crash, Unmoved
<1>3. QED BY <1>2, FinishKeeps
-------------------------------------------------------------------------------
(* Steps that write a row, or send a request. *)

\* No step removes a row or changes a success.
Grows ==
    \A j \in Keys :
        /\ Exists(j) => status'[j] # "none"
        /\ status[j] = "succeeded" => status'[j] = "succeeded" /\ receipt'[j] = receipt[j]

LEMMA OutputsKeep ==
  ASSUME StoreInv, Grows, UNCHANGED stored
  PROVE  OutputsAreDurable' /\ RunTypes'
<1>1. \A o \in run.outputs : o[1] \in Keys
  BY DEF StoreInv, RunTypes, Documents
<1>2. QED BY <1>1 DEF StoreInv, OutputsAreDurable, RunTypes, Grows, stored

\* What a row step has to leave alone for the thread q.
LEMMA OtherHolds ==
  ASSUME ThreadInv, Grows, NEW q \in Procs,
         NEW c, NEW k, NEW t, NEW d, NEW l,
         c = pc[q] /\ k = key[q] /\ t = target[q] /\ d = document[q] /\ l = listed[q],
         c \in Executing => /\ status'[k] = status[k] /\ binding'[k] = binding[k]
                            /\ calls'[t] = calls[t]
  PROVE  Holds(c, k, t, d, l)'
<1>1. Typed(c, k, t, d, l) /\ Holds(c, k, t, d, l)
  BY ThreadFacts
<1>2. \A o \in d.outputs : Durable(o)'
  <2>1. \A o \in d.outputs : o[1] \in Keys /\ Durable(o)
    BY <1>1 DEF Typed, Documents, Holds
  <2>2. QED BY <2>1 DEF Durable, Grows
<1>3. \A j \in l : status'[j] = "succeeded" /\ \E o \in d.outputs : o[1] = j
  BY <1>1 DEF Typed, Holds, Grows
<1>4. /\ c \in Executing => binding'[k] = t
      /\ c = "call" => status'[k] = "pending" /\ calls'[t] = 0
      /\ c = "complete" => status'[k] = "pending" /\ calls'[t] = 1
      /\ c = "mark_unknown" => status'[k] \in {"pending", "succeeded"} /\ calls'[t] = 1
  BY <1>1 DEF Holds, Executing
<1>5. /\ c = "reconcile" => k \in Keys /\ t \in Evidence /\ status'[k] # "none"
      /\ c \in Attaching \cup Saving => k \in Keys /\ status'[k] = "succeeded"
  BY <1>1 DEF Holds, Grows
<1>6. QED BY <1>1, <1>2, <1>3, <1>4, <1>5 DEF Holds, Exists

\* The row of the executing thread p, and what others have to do with it.
LEMMA HolderRow ==
  ASSUME IInv, NEW p \in Procs, pc[p] \in Executing
  PROVE  /\ key[p] \in Keys /\ target[p] \in Requests /\ binding[key[p]] = target[p]
         /\ Exists(key[p])
         /\ \A j \in Keys : Exists(j) /\ binding[j] = target[p] => j = key[p]
         /\ \A q \in Procs \ {p} : pc[q] \in Executing =>
               key[q] \in Keys /\ key[q] # key[p] /\ target[q] # target[p]
<1>1. \A q \in Procs : pc[q] \in Executing =>
          /\ key[q] \in Keys /\ target[q] \in Requests
          /\ binding[key[q]] = target[q] /\ Exists(key[q])
  <2>1. ASSUME NEW q \in Procs, pc[q] \in Executing
        PROVE  /\ key[q] \in Keys /\ target[q] \in Requests
               /\ binding[key[q]] = target[q] /\ Exists(key[q])
    <3>1. ThreadInv /\ RowTypes
      BY Parts DEF StoreInv
    <3>2. Holds(pc[q], key[q], target[q], document[q], listed[q])
      BY <3>1, ThreadFacts
    <3>3. /\ key[q] \in Keys /\ target[q] \in Requests
          /\ binding[key[q]] = target[q]
      BY <2>1, <3>2 DEF Holds
    <3>4. binding[key[q]] # None
      BY <3>3, NoneAssumption
    <3>5. QED BY <3>1, <3>3, <3>4 DEF RowTypes, Exists
  <2>2. QED BY <2>1
<1>2. \A q \in Procs \ {p} : pc[q] \in Executing => key[q] # key[p]
  BY Parts DEF ThreadInv, Exclusive
<1>3. \A j \in Keys : Exists(j) /\ binding[j] = target[p] => j = key[p]
  BY <1>1, Parts DEF StoreInv, RowInv
<1>4. QED BY <1>1, <1>2, <1>3

\* The executing thread p stores the outcome o, with the output r.
LEMMA SettleKeeps ==
  ASSUME IInv, NEW p \in Procs, pc[p] \in {"complete", "mark_unknown"},
         NEW o \in {"succeeded", "unknown"}, NEW r \in Receipts \cup {None},
         o = "succeeded" <=> r # None,
         Pending(key[p]), Transition(key[p], o, r), UNCHANGED <<binding, calls, stored>>,
         faults' \in 0 .. MaxFaults,
         NEW c, NEW k, NEW t, NEW d, NEW l,
         Typed(c, k, t, d, l), Take(p, c, k, t, d, l), LockStep(p, c),
         c \notin Critical, c \in Executing => k = key[p],
         Holds(c, k, t, d, l)'
  PROVE  IInv'
<1> DEFINE me == key[p]
<1>1. ThreadInv /\ StoreInv /\ EventInv
  BY Parts
<1>2. /\ me \in Keys /\ target[p] \in Requests /\ binding[me] = target[p]
      /\ calls[target[p]] = 1 /\ status[me] = "pending"
  BY <1>1, HolderRow, ThreadFacts DEF Executing, Holds, Pending
<1>3. /\ status' \in [Keys -> {"none", "pending", "succeeded", "unknown"}]
      /\ receipt' \in [Keys -> Receipts \cup {None}]
      /\ status'[me] = o /\ receipt'[me] = r
      /\ \A j \in Keys \ {me} : status'[j] = status[j] /\ receipt'[j] = receipt[j]
  BY <1>1, <1>2 DEF Transition, StoreInv, RowTypes
<1>4. Grows
  BY <1>2, <1>3 DEF Grows, Exists
<1>5. ThreadInv'
  <2>1. ASSUME NEW q \in Procs \ {p}, NEW c2, NEW k2, NEW t2, NEW d2, NEW l2,
               c2 = pc[q] /\ k2 = key[q] /\ t2 = target[q]
               /\ d2 = document[q] /\ l2 = listed[q]
        PROVE  Holds(c2, k2, t2, d2, l2)'
    <3>1. c2 \in Executing => k2 \in Keys /\ k2 # me
      BY <2>1, HolderRow DEF Executing
    <3>2. c2 \in Executing => /\ status'[k2] = status[k2] /\ binding'[k2] = binding[k2]
                              /\ calls'[t2] = calls[t2]
      BY <1>3, <3>1
    <3>3. QED BY <1>1, <1>4, <2>1, <3>2, OtherHolds
  <2>2. c \in Executing => \A q \in Procs \ {p} : pc[q] \in Executing => key[q] # k
    BY HolderRow DEF Executing
  <2>3. QED BY <1>1, <2>1, <2>2, ThreadKeeps
<1>6. StoreInv'
  <2>1. RowTypes'
    BY <1>1, <1>2, <1>3, NoneAssumption DEF StoreInv, RowTypes, NoneAssumption
  <2>2. RowInv'
    BY <1>1, <1>2, <1>3 DEF StoreInv, RowInv, Exists
  <2>3. QED BY <1>1, <1>4, <2>1, <2>2, OutputsKeep DEF StoreInv
<1>7. EventInv'
  BY <1>1, EventsKeep DEF ThreadInv
<1>8. QED BY <1>5, <1>6, <1>7, PartsNext

LEMMA CompleteKeeps ==
  ASSUME IInv, NEW p \in Procs, Complete(p)
  PROVE  IInv'
<1>1. /\ pc[p] = "complete" /\ UNCHANGED <<binding, calls, stored, locks, local>>
      /\ faults' \in 0 .. MaxFaults
  BY Parts, FaultAssumption
     DEF Complete, ThreadInv, ThreadTypes, FaultAssumption, local
<1>2. PICK k, t, d, l : k = key[p] /\ t = target[p] /\ d = document[p] /\ l = listed[p]
  OBVIOUS
<1>3. /\ Typed("complete", k, t, d, l) /\ Holds("complete", k, t, d, l)
      /\ k \in Keys /\ binding[k] = t /\ Pending(k)
  BY <1>1, <1>2, ThreadFacts, Parts DEF Holds, Executing, Pending
<1>4. PICK c \in {"attach_succeeded", "mark_unknown"} :
        /\ Goto(p, c)
        /\ \/ Transition(k, "succeeded", "provider")
           \/ UNCHANGED <<status, receipt>> /\ c = "mark_unknown"
  BY <1>2 DEF Complete
<1>5. /\ Take(p, c, k, t, d, l) /\ Typed(c, k, t, d, l) /\ LockStep(p, c)
      /\ c \notin Critical
  <2>1. Take(p, c, k, t, d, l) /\ Typed(c, k, t, d, l)
    BY <1>1, <1>2, <1>4, GotoTakes, Parts DEF Pcs
  <2>2. QED BY <1>1, <2>1 DEF LockStep, Critical, Saving
<1>6. CASE Transition(k, "succeeded", "provider")
  <2>1. /\ Grows /\ status'[k] = "succeeded" /\ calls'[t] = 1 /\ binding'[k] = t
    BY <1>1, <1>3, <1>6, Parts
       DEF Grows, Holds, Transition, Pending, Exists, StoreInv, RowTypes
  <2>2. Holds(c, k, t, d, l)'
    <3>1. \A o \in d.outputs : Durable(o)'
      <4>1. \A o \in d.outputs : o[1] \in Keys /\ Durable(o)
        BY <1>3 DEF Typed, Documents, Holds
      <4>2. QED BY <2>1, <4>1 DEF Durable, Grows
    <3>2. l = {} /\ t \in Requests
      BY <1>3 DEF Holds, Executing
    <3>3. QED
      BY <1>3, <1>4, <2>1, <3>1, <3>2
         DEF Holds, Executing, Attaching, Saving, Critical
  <2>3. "provider" \in Receipts /\ "provider" # None
    BY NoneAssumption DEF Receipts, NoneAssumption
  <2>4. QED BY <1>1, <1>2, <1>3, <1>4, <1>5, <1>6, <2>2, <2>3, SettleKeeps
<1>7. CASE UNCHANGED <<status, receipt>> /\ c = "mark_unknown"
  <2>1. Holds(c, k, t, d, l)
    BY <1>3, <1>7 DEF Holds, Executing, Attaching, Saving, Critical, Pending
  <2>2. Moves(p, c, k, t, d, l)
    BY <1>1, <1>2, <1>5, <2>1 DEF Moves, Executing
  <2>3. Unmoved
    BY <1>1, <1>7 DEF Unmoved, rows
  <2>4. QED BY <2>2, <2>3, MoveKeeps
<1>8. QED BY <1>4, <1>6, <1>7

LEMMA MarkUnknownKeeps ==
  ASSUME IInv, NEW p \in Procs, MarkUnknown(p)
  PROVE  IInv'
<1>1. /\ pc[p] = "mark_unknown" /\ Finish(p) /\ Transition(key[p], "unknown", None)
      /\ UNCHANGED <<binding, calls, stored, faults>>
  BY DEF MarkUnknown
<1>2. CASE Pending(key[p])
  <2>1. faults' \in 0 .. MaxFaults
    BY <1>1, Parts DEF ThreadInv, ThreadTypes
  <2>2. /\ Take(p, "idle", None, None, NoDocument, {})
        /\ Typed("idle", None, None, NoDocument, {})
        /\ LockStep(p, "idle") /\ "idle" \notin Executing
    BY <1>1, FinishTakes
  <2>3. "idle" \notin Critical
    BY DEF Critical, Saving
  <2>4. QED BY <1>1, <1>2, <2>1, <2>2, <2>3, IdleHoldsNext, SettleKeeps
<1>3. CASE ~Pending(key[p])
  BY <1>1, <1>3, FinishKeeps, SameFaults DEF Transition, rows
<1>4. QED BY <1>2, <1>3

LEMMA GrantKeeps ==
  ASSUME IInv, NEW p \in Procs, Grant(p)
  PROVE  IInv'
<1>1. ThreadInv /\ StoreInv /\ EventInv
  BY Parts
<1>2. PICK k, t, d, l : k = key[p] /\ t = target[p] /\ d = document[p] /\ l = listed[p]
  OBVIOUS
<1>3. /\ Typed("reserve", k, t, d, l) /\ Holds("reserve", k, t, d, l)
      /\ k \in Keys /\ t \in Requests /\ t # None
  <2>1. Typed("reserve", k, t, d, l) /\ Holds("reserve", k, t, d, l)
    BY <1>1, <1>2, ThreadFacts DEF Grant
  <2>2. QED BY <2>1, NoneAssumption DEF Holds
<1>4. /\ ~Exists(k) /\ binding[k] = None /\ receipt[k] = None
      /\ \A j \in Keys : binding[j] # t
  <2>1. ~Exists(k) /\ \A j \in Keys : Exists(j) => binding[j] # t
    BY <1>2, <1>3 DEF Grant, Matches, BoundTo
  <2>2. QED BY <1>1, <1>3, <2>1 DEF Exists, StoreInv, RowTypes
<1>5. calls[t] = 0
  <2>1. calls[t] \in Nat /\ calls[t] <= 1 /\ calls[t] # 1
    BY <1>1, <1>3, <1>4 DEF StoreInv, RowTypes, RowInv
  <2>2. QED BY <2>1
<1>6. /\ status' \in [Keys -> {"none", "pending", "succeeded", "unknown"}]
      /\ binding' \in [Keys -> Requests \cup {None}]
      /\ status'[k] = "pending" /\ binding'[k] = t
      /\ \A j \in Keys \ {k} : status'[j] = status[j] /\ binding'[j] = binding[j]
      /\ UNCHANGED <<receipt, calls>>
  BY <1>1, <1>2, <1>3 DEF Grant, StoreInv, RowTypes
<1>7. Grows
  BY <1>3, <1>4, <1>6 DEF Grows, Exists
<1>8. Take(p, "call", k, t, d, l) /\ Typed("call", k, t, d, l)
  BY <1>1, <1>2, GotoTakes DEF Grant, Pcs
<1>9. Holds("call", k, t, d, l)'
  <2>1. \A o \in d.outputs : Durable(o)'
    <3>1. \A o \in d.outputs : o[1] \in Keys /\ Durable(o)
      BY <1>3 DEF Typed, Documents, Holds
    <3>2. QED BY <1>7, <3>1 DEF Durable, Grows
  <2>2. l = {}
    BY <1>3 DEF Holds
  <2>3. QED
    BY <1>3, <1>5, <1>6, <2>1, <2>2 DEF Holds, Executing, Attaching, Saving, Critical
<1>10. \A q \in Procs : pc[q] \in Executing =>
          key[q] \in Keys /\ key[q] # k
  <2>1. ASSUME NEW q \in Procs, pc[q] \in Executing
        PROVE  key[q] \in Keys /\ key[q] # k
    BY <1>4, <2>1, HolderRow
  <2>2. QED BY <2>1
<1>11. ThreadInv'
  <2>1. ASSUME NEW q \in Procs \ {p}, NEW c2, NEW k2, NEW t2, NEW d2, NEW l2,
               c2 = pc[q] /\ k2 = key[q] /\ t2 = target[q]
               /\ d2 = document[q] /\ l2 = listed[q]
        PROVE  Holds(c2, k2, t2, d2, l2)'
    <3>1. c2 \in Executing => /\ status'[k2] = status[k2] /\ binding'[k2] = binding[k2]
                              /\ calls'[t2] = calls[t2]
      BY <1>6, <1>10, <2>1
    <3>2. QED BY <1>1, <1>7, <2>1, <3>1, OtherHolds
  <2>2. LockStep(p, "call") /\ faults' \in 0 .. MaxFaults
    BY <1>1 DEF Grant, LockStep, Critical, Saving, ThreadInv, ThreadTypes
  <2>3. QED BY <1>1, <1>8, <1>9, <1>10, <2>1, <2>2, ThreadKeeps
<1>12. StoreInv'
  <2>1. RowTypes'
    BY <1>1, <1>3, <1>4, <1>6 DEF StoreInv, RowTypes
  <2>2. RowInv'
    <3>1. \A j, i \in Keys : Exists(j)' /\ binding'[j] = binding'[i] => j = i
      BY <1>1, <1>3, <1>4, <1>6 DEF StoreInv, RowInv, Exists
    <3>2. \A q \in Requests :
             calls'[q] <= 1 /\ (calls'[q] = 1 => \E j \in Keys : binding'[j] = q)
      BY <1>1, <1>3, <1>4, <1>6, NoneAssumption DEF StoreInv, RowInv
    <3>3. \A j \in Keys : status'[j] \in {"succeeded", "unknown"} => calls'[binding'[j]] = 1
      BY <1>1, <1>6 DEF StoreInv, RowInv
    <3>4. QED BY <3>1, <3>2, <3>3 DEF RowInv
  <2>3. QED BY <1>1, <1>7, <2>1, <2>2, OutputsKeep DEF Grant, StoreInv
<1>13. EventInv'
  BY <1>1, <1>8, EventsKeep DEF Grant, ThreadInv, Critical, Saving
<1>14. QED BY <1>11, <1>12, <1>13, PartsNext

LEMMA CallProviderKeeps ==
  ASSUME IInv, NEW p \in Procs, CallProvider(p)
  PROVE  IInv'
<1>1. ThreadInv /\ StoreInv /\ EventInv
  BY Parts
<1>2. PICK k, t, d, l : k = key[p] /\ t = target[p] /\ d = document[p] /\ l = listed[p]
  OBVIOUS
<1>3. /\ Typed("call", k, t, d, l) /\ Holds("call", k, t, d, l) /\ pc[p] = "call"
      /\ k \in Keys /\ t \in Requests /\ binding[k] = t
      /\ status[k] = "pending" /\ calls[t] = 0
  <2>1. Typed("call", k, t, d, l) /\ Holds("call", k, t, d, l) /\ pc[p] = "call"
    BY <1>1, <1>2, ThreadFacts DEF CallProvider
  <2>2. QED BY <2>1 DEF Holds, Executing
<1>4. PICK c \in {"complete", "mark_unknown"} : Goto(p, c)
  BY DEF CallProvider, AfterAnswer
<1>5. /\ calls' \in [Requests -> Nat] /\ calls'[t] = 1
      /\ \A q \in Requests \ {t} : calls'[q] = calls[q]
      /\ UNCHANGED <<status, binding, receipt>>
  <2>1. calls' = [calls EXCEPT ![t] = 1]
    <3>1. calls' = [calls EXCEPT ![t] = calls[t] + 1] /\ calls[t] + 1 = 1
      BY <1>2, <1>3 DEF CallProvider
    <3>2. QED BY <3>1
  <2>2. QED BY <1>1, <1>3, <2>1 DEF CallProvider, rows, StoreInv, RowTypes
<1>6. Grows
  BY <1>5 DEF Grows, Exists
<1>7. Take(p, c, k, t, d, l) /\ Typed(c, k, t, d, l)
  BY <1>1, <1>2, <1>4, GotoTakes DEF CallProvider, Pcs
<1>8. Holds(c, k, t, d, l)'
  BY <1>3, <1>4, <1>5 DEF Holds, Executing, Attaching, Saving, Critical, Durable, Exists
<1>9. \A q \in Procs \ {p} : pc[q] \in Executing => key[q] # k /\ target[q] # t
      /\ target[q] \in Requests
  <2>1. ASSUME NEW q \in Procs \ {p}, pc[q] \in Executing
        PROVE  key[q] # k /\ target[q] # t /\ target[q] \in Requests
    BY <1>2, <1>3, <2>1, HolderRow DEF Executing
  <2>2. QED BY <2>1
<1>10. ThreadInv'
  <2>1. ASSUME NEW q \in Procs \ {p}, NEW c2, NEW k2, NEW t2, NEW d2, NEW l2,
               c2 = pc[q] /\ k2 = key[q] /\ t2 = target[q]
               /\ d2 = document[q] /\ l2 = listed[q]
        PROVE  Holds(c2, k2, t2, d2, l2)'
    <3>1. c2 \in Executing => /\ status'[k2] = status[k2] /\ binding'[k2] = binding[k2]
                              /\ calls'[t2] = calls[t2]
      BY <1>5, <1>9, <2>1
    <3>2. QED BY <1>1, <1>6, <2>1, <3>1, OtherHolds
  <2>2. LockStep(p, c) /\ faults' \in 0 .. MaxFaults
    BY <1>1, <1>4 DEF CallProvider, LockStep, Critical, Saving, ThreadInv, ThreadTypes
  <2>3. QED BY <1>1, <1>7, <1>8, <1>9, <2>1, <2>2, ThreadKeeps
<1>11. StoreInv'
  <2>1. RowTypes'
    BY <1>1, <1>5 DEF StoreInv, RowTypes
  <2>2. RowInv'
    <3>1. \A j \in Keys : status[j] \in {"succeeded", "unknown"} =>
             binding[j] \in Requests /\ binding[j] # t
      BY <1>1, <1>3 DEF StoreInv, RowTypes, RowInv
    <3>2. QED BY <1>1, <1>3, <1>5, <3>1 DEF StoreInv, RowInv, Exists
  <2>3. QED BY <1>1, <1>6, <2>1, <2>2, OutputsKeep DEF CallProvider, StoreInv
<1>12. EventInv'
  <2>1. c \notin Critical
    BY DEF Critical, Saving
  <2>2. QED BY <1>1, <1>7, <2>1, EventsKeep DEF CallProvider, ThreadInv
<1>13. QED BY <1>10, <1>11, <1>12, PartsNext

LEMMA ReconcileKeeps ==
  ASSUME IInv, NEW p \in Procs, Reconcile(p)
  PROVE  IInv'
<1>1. ThreadInv /\ StoreInv /\ EventInv
  BY Parts
<1>2. PICK k, t, d, l : k = key[p] /\ t = target[p] /\ d = document[p] /\ l = listed[p]
  OBVIOUS
<1>3. /\ Typed("reconcile", k, t, d, l) /\ Holds("reconcile", k, t, d, l)
      /\ pc[p] = "reconcile" /\ k \in Keys /\ t \in Evidence /\ l = {}
  <2>1. Typed("reconcile", k, t, d, l) /\ Holds("reconcile", k, t, d, l)
        /\ pc[p] = "reconcile"
    BY <1>1, <1>2, ThreadFacts DEF Reconcile
  <2>2. QED BY <2>1 DEF Holds
<1>4. UNCHANGED <<binding, calls, stored, faults>>
  BY DEF Reconcile
<1>5. CASE Finish(p) /\ UNCHANGED <<status, receipt>>
  BY <1>4, <1>5, FinishKeeps, SameFaults DEF rows
<1>6. CASE /\ ~Reconcilable(k) /\ status[k] = "succeeded"
           /\ Goto(p, "attach_reconciled") /\ UNCHANGED <<status, receipt, locks, local>>
  <2>1. Take(p, "attach_reconciled", k, t, d, l) /\ Typed("attach_reconciled", k, t, d, l)
    BY <1>1, <1>2, <1>6, GotoTakes DEF Pcs
  <2>2. Holds("attach_reconciled", k, t, d, l)
    BY <1>3, <1>6 DEF Holds, Executing, Attaching, Saving, Critical
  <2>3. Moves(p, "attach_reconciled", k, t, d, l)
    BY <1>6, <2>1, <2>2 DEF Moves, LockStep, Executing, Critical, Saving
  <2>4. QED BY <1>4, <1>6, <2>3, MoveKeeps, SameFaults DEF rows
<1>7. CASE /\ Reconcilable(k) /\ Goto(p, "attach_reconciled") /\ UNCHANGED <<locks, local>>
           /\ status' = [status EXCEPT ![k] = "succeeded"]
           /\ receipt' = [receipt EXCEPT ![k] = t]
  <2>1. Take(p, "attach_reconciled", k, t, d, l) /\ Typed("attach_reconciled", k, t, d, l)
    BY <1>1, <1>2, <1>7, GotoTakes DEF Pcs
  <2>2. /\ status' \in [Keys -> {"none", "pending", "succeeded", "unknown"}]
        /\ receipt' \in [Keys -> Receipts \cup {None}]
        /\ status'[k] = "succeeded" /\ receipt'[k] = t /\ status[k] = "unknown"
        /\ t # None
        /\ \A j \in Keys \ {k} : status'[j] = status[j] /\ receipt'[j] = receipt[j]
    <3>1. t \in Receipts /\ t # None
      BY <1>3, NoneAssumption DEF Receipts
    <3>2. QED BY <1>1, <1>3, <1>7, <3>1 DEF Reconcilable, StoreInv, RowTypes
  <2>3. Grows
    BY <1>3, <2>2 DEF Grows, Exists
  <2>4. Holds("attach_reconciled", k, t, d, l)'
    <3>1. \A o \in d.outputs : Durable(o)'
      <4>1. \A o \in d.outputs : o[1] \in Keys /\ Durable(o)
        BY <1>3 DEF Typed, Documents, Holds
      <4>2. QED BY <2>3, <4>1 DEF Durable, Grows
    <3>2. QED BY <1>3, <2>2, <3>1 DEF Holds, Executing, Attaching, Saving, Critical
  <2>5. ThreadInv'
    <3>1. ASSUME NEW q \in Procs \ {p}, NEW c2, NEW k2, NEW t2, NEW d2, NEW l2,
                 c2 = pc[q] /\ k2 = key[q] /\ t2 = target[q]
                 /\ d2 = document[q] /\ l2 = listed[q]
          PROVE  Holds(c2, k2, t2, d2, l2)'
      <4>1. Holds(c2, k2, t2, d2, l2)
        BY <1>1, <3>1, ThreadFacts
      <4>2. c2 \in Executing => k2 \in Keys /\ k2 # k
        BY <2>2, <4>1 DEF Holds, Executing
      <4>3. c2 \in Executing => /\ status'[k2] = status[k2] /\ binding'[k2] = binding[k2]
                                /\ calls'[t2] = calls[t2]
        BY <1>4, <2>2, <4>2
      <4>4. QED BY <1>1, <2>3, <3>1, <4>3, OtherHolds
    <3>2. LockStep(p, "attach_reconciled") /\ faults' \in 0 .. MaxFaults
      BY <1>1, <1>4, <1>7 DEF LockStep, Critical, Saving, ThreadInv, ThreadTypes
    <3>3. QED BY <1>1, <2>1, <2>4, <3>1, <3>2, ThreadKeeps DEF Executing
  <2>6. StoreInv'
    <3>1. RowTypes'
      BY <1>1, <1>3, <1>4, <2>2 DEF StoreInv, RowTypes
    <3>2. RowInv'
      BY <1>1, <1>3, <1>4, <2>2 DEF StoreInv, RowInv, Exists
    <3>3. QED BY <1>1, <1>4, <2>3, <3>1, <3>2, OutputsKeep DEF StoreInv
  <2>7. EventInv'
    BY <1>1, <1>4, <2>1, EventsKeep DEF ThreadInv, Critical, Saving
  <2>8. QED BY <2>5, <2>6, <2>7, PartsNext
<1>8. QED BY <1>2, <1>5, <1>6, <1>7 DEF Reconcile

-------------------------------------------------------------------------------
(* Steps that save the run. *)

LEMMA FinishThreads ==
  ASSUME ThreadInv, NEW p \in Procs, Finish(p), UNCHANGED <<rows, calls, faults>>
  PROVE  ThreadInv'
<1>1. /\ Take(p, "idle", None, None, NoDocument, {})
      /\ Typed("idle", None, None, NoDocument, {})
      /\ LockStep(p, "idle") /\ "idle" \notin Executing
  BY FinishTakes
<1>2. UNCHANGED <<status, binding, receipt, calls>> /\ faults' \in 0 .. MaxFaults
  BY DEF rows, ThreadInv, ThreadTypes
<1>3. Grows
  BY <1>2 DEF Grows, Exists
<1>4. ASSUME NEW q \in Procs \ {p}, NEW c2, NEW k2, NEW t2, NEW d2, NEW l2,
             c2 = pc[q] /\ k2 = key[q] /\ t2 = target[q]
             /\ d2 = document[q] /\ l2 = listed[q]
      PROVE  Holds(c2, k2, t2, d2, l2)'
  BY <1>2, <1>3, <1>4, OtherHolds
<1>5. QED BY <1>1, <1>2, <1>4, IdleHoldsNext, ThreadKeeps

\* After the only critical thread of a replica is gone, there is none.
LEMMA NoneCritical ==
  ASSUME ThreadInv, OneReplica, NEW p \in Procs, pc[p] \in Critical, Finish(p)
  PROVE  \A q \in Procs : pc'[q] \notin Critical
<1>1. ThreadTypes /\ LockInv
  BY DEF ThreadInv
<1>2. pc'[p] = "idle" /\ \A q \in Procs \ {p} : pc'[q] = pc[q]
  BY <1>1, FinishTakes, TakeWrites
<1>3. "idle" \notin Critical
  BY DEF Critical, Saving
<1>4. QED BY <1>1, <1>2, <1>3, OneCritical

LEMMA SaveAttachmentKeeps ==
  ASSUME IInv, NEW p \in Procs, SaveAttachment(p)
  PROVE  IInv'
<1>1. ThreadInv /\ StoreInv /\ EventInv
  BY Parts
<1>2. /\ pc[p] \in Saving /\ pc[p] \in Critical /\ Finish(p)
      /\ UNCHANGED <<rows, calls, faults>>
  BY DEF SaveAttachment, Critical
<1>3. PICK k, d, e : k = key[p] /\ d = document[p] /\ e = Event(p)
  OBVIOUS
<1>4. /\ k \in Keys /\ status[k] = "succeeded" /\ receipt[k] \in Receipts
      /\ d \in Documents /\ \A o \in d.outputs : Durable(o)
  <2>1. /\ Typed(pc[p], k, target[p], d, listed[p])
        /\ Holds(pc[p], k, target[p], d, listed[p])
    BY <1>1, <1>3, ThreadFacts
  <2>2. k \in Keys /\ status[k] = "succeeded" /\ d \in Documents
        /\ \A o \in d.outputs : Durable(o)
    BY <1>2, <2>1 DEF Typed, Holds
  <2>3. QED BY <1>1, <2>2 DEF StoreInv, RowTypes
<1>5. Output(p) = <<k, receipt[k]>> /\ Output(p) \in Keys \X Receipts
  BY <1>3, <1>4 DEF Output
<1>6. e \in Events /\ e[2] = k
  BY <1>3, <1>4 DEF Event, Events
<1>7. \/ /\ Output(p) \in d.outputs
         /\ run' = run /\ audit' = audit \cup {e}
      \/ /\ run' = [d EXCEPT !.outputs = @ \cup {Output(p)}]
         /\ audit' = audit \cup {e}
      \/ UNCHANGED <<run, audit>>
  BY <1>3 DEF SaveAttachment, stored
<1>8. PICK outputs : outputs = d.outputs \cup {Output(p)}
  OBVIOUS
<1>9. /\ d.outputs \subseteq Keys \X Receipts /\ d.status \in RunStatuses
      /\ d = [status |-> d.status, outputs |-> d.outputs]
      /\ [d EXCEPT !.outputs = @ \cup {Output(p)}] = [status |-> d.status, outputs |-> outputs]
  BY <1>4, <1>8 DEF Documents
<1>10. ThreadInv'
  BY <1>1, <1>2, FinishThreads
<1>11. StoreInv'
  <2>1. RowTypes' /\ RowInv'
    BY <1>1, <1>2 DEF StoreInv, RowTypes, RowInv, Exists, rows
  <2>2. RunTypes'
    <3>1. [status |-> d.status, outputs |-> outputs] \in Documents
      BY <1>5, <1>8, <1>9 DEF Documents
    <3>2. run' \in Documents
      BY <1>1, <1>7, <1>9, <3>1 DEF StoreInv, RunTypes
    <3>3. audit' \subseteq Events
      BY <1>1, <1>6, <1>7 DEF StoreInv, RunTypes
    <3>4. QED BY <3>2, <3>3 DEF RunTypes
  <2>3. OutputsAreDurable'
    <3>1. \A o \in outputs : Durable(o)
      BY <1>4, <1>5, <1>8 DEF Durable
    <3>2. \A o \in run'.outputs : Durable(o)
      BY <1>1, <1>7, <1>9, <3>1 DEF StoreInv, OutputsAreDurable, Durable
    <3>3. QED BY <1>2, <3>2 DEF OutputsAreDurable, Durable, rows
  <2>4. QED BY <2>1, <2>2, <2>3 DEF StoreInv
<1>12. EventInv'
  <2> SUFFICES ASSUME OneReplica
               PROVE  /\ \A q \in Procs : pc'[q] \notin Critical
                      /\ EventsHaveOutputs'
    BY DEF EventInv
  <2>1. \A q \in Procs : pc'[q] \notin Critical
    BY <1>1, <1>2, NoneCritical
  <2>2. d.outputs = run.outputs /\ EventsHaveOutputs
    BY <1>1, <1>2, <1>3 DEF EventInv
  <2>3. run.outputs \subseteq run'.outputs
    BY <1>7, <1>8, <1>9, <2>2
  <2>4. audit' = audit \/ (audit' = audit \cup {e} /\ Output(p) \in run'.outputs)
    BY <1>7, <1>8, <1>9, <2>2
  <2>5. Output(p)[1] = e[2]
    BY <1>5, <1>6
  <2>6. QED BY <2>1, <2>2, <2>3, <2>4, <2>5 DEF EventsHaveOutputs
<1>13. QED BY <1>10, <1>11, <1>12, PartsNext

LEMMA SaveDecisionKeeps ==
  ASSUME IInv, NEW p \in Procs, SaveDecision(p)
  PROVE  IInv'
<1>1. ThreadInv /\ StoreInv /\ EventInv
  BY Parts
<1>2. /\ pc[p] = "save_decision" /\ pc[p] \in Critical /\ Finish(p)
      /\ UNCHANGED <<rows, calls, faults, audit>>
  BY DEF SaveDecision, Critical
<1>3. PICK d : d = document[p]
  OBVIOUS
<1>4. d \in Documents /\ \A o \in d.outputs : Durable(o)
  BY <1>1, <1>3, ThreadFacts DEF Typed, Holds
<1>5. PICK s \in {"completed", "rejected"} : run' = run \/ run' = [d EXCEPT !.status = s]
  BY <1>3 DEF SaveDecision
<1>6. /\ [d EXCEPT !.status = s] \in Documents
      /\ [d EXCEPT !.status = s].outputs = d.outputs
  BY <1>4 DEF Documents, RunStatuses
<1>7. ThreadInv'
  BY <1>1, <1>2, FinishThreads
<1>8. StoreInv'
  <2>1. RowTypes' /\ RowInv'
    BY <1>1, <1>2 DEF StoreInv, RowTypes, RowInv, Exists, rows
  <2>2. RunTypes'
    BY <1>1, <1>2, <1>5, <1>6 DEF StoreInv, RunTypes
  <2>3. \A o \in run'.outputs : Durable(o)
    BY <1>1, <1>4, <1>5, <1>6 DEF StoreInv, OutputsAreDurable, Durable
  <2>4. QED BY <1>2, <2>1, <2>2, <2>3 DEF StoreInv, OutputsAreDurable, Durable, rows
<1>9. EventInv'
  <2> SUFFICES ASSUME OneReplica
               PROVE  /\ \A q \in Procs : pc'[q] \notin Critical
                      /\ EventsHaveOutputs'
    BY DEF EventInv
  <2>1. \A q \in Procs : pc'[q] \notin Critical
    BY <1>1, <1>2, NoneCritical
  <2>2. d.outputs = run.outputs /\ EventsHaveOutputs
    BY <1>1, <1>2, <1>3 DEF EventInv
  <2>3. run'.outputs = run.outputs
    BY <1>5, <1>6, <2>2
  <2>4. QED BY <1>2, <2>1, <2>2, <2>3 DEF EventsHaveOutputs
<1>10. QED BY <1>7, <1>8, <1>9, PartsNext

-------------------------------------------------------------------------------
(* The invariant. *)

LEMMA InitEstablishes == Init => IInv
<1> SUFFICES ASSUME Init PROVE IInv
  OBVIOUS
<1>1. NoDocument \in Documents /\ NoDocument.outputs = {}
  BY DEF NoDocument, Documents, RunStatuses
<1>2. ThreadTypes
  BY <1>1, FaultAssumption DEF Init, ThreadTypes, Names, Targets, Pcs, FaultAssumption
<1>3. HolderInv
  BY <1>1 DEF Init, HolderInv, Holds, Executing, Attaching, Saving, Critical
<1>4. Exclusive /\ LockInv
  BY DEF Init, Exclusive, LockInv, Executing, Critical, Saving
<1>5. RowTypes /\ RowInv
  BY DEF Init, RowTypes, RowInv, Exists
<1>6. RunTypes /\ OutputsAreDurable
  BY <1>1 DEF Init, RunTypes, OutputsAreDurable
<1>7. EventInv
  BY DEF Init, EventInv, EventsHaveOutputs, Critical, Saving
<1>8. QED BY <1>2, <1>3, <1>4, <1>5, <1>6, <1>7, Parts DEF ThreadInv, StoreInv

LEMMA NextKeeps == IInv /\ [Next]_vars => IInv'
<1> SUFFICES ASSUME IInv, [Next]_vars PROVE IInv'
  OBVIOUS
<1>1. CASE UNCHANGED vars
  <2>1. UNCHANGED <<status, binding, receipt, calls, run, audit, locks, pc, key, target,
                    document, listed, faults>>
    BY <1>1 DEF vars, rows, stored, local
  <2>2. QED
    BY <2>1 DEF IInv, TypeOK, HolderInv, Holds, Durable, Exclusive, RowInv, Exists,
                OutputsAreDurable, LockInv, Service, EventInv, EventsHaveOutputs
<1>2. CASE Next
  <2>1. PICK p \in Procs : Execute(p) \/ BeginReconcile(p) \/ Reconcile(p)
                           \/ Attach(p) \/ Decide(p) \/ Crash(p)
    BY <1>2 DEF Next
  <2>2. CASE Execute(p)
    BY <2>2, PrepareKeeps, GrantKeeps, ReplayKeeps, CallProviderKeeps, CompleteKeeps,
       MarkUnknownKeeps DEF Execute
  <2>3. CASE BeginReconcile(p) \/ Reconcile(p)
    BY <2>3, BeginReconcileKeeps, ReconcileKeeps
  <2>4. CASE Attach(p)
    BY <2>4, BeginAttachKeeps, RefuseAttachKeeps, SaveAttachmentKeeps DEF Attach
  <2>5. CASE Decide(p)
    BY <2>5, BeginDecisionKeeps, ListEffectsKeeps, SaveDecisionKeeps DEF Decide
  <2>6. CASE Crash(p)
    BY <2>6, CrashKeeps
  <2>7. QED BY <2>1, <2>2, <2>3, <2>4, <2>5, <2>6
<1>3. QED BY <1>1, <1>2

\* Whatever the threads do, no two of them execute the effect of one row, a
\* request has one row and was sent once if the row says so, and every run that
\* a thread has read shows durable outputs only.
THEOREM Invariant == Spec => []IInv
  BY InitEstablishes, NextKeeps, PTL DEF Spec

\* Every row has the columns its status calls for: a success has its output.
THEOREM TypeCorrect == Spec => []TypeOK
<1>1. IInv => TypeOK
  BY DEF IInv
<1>2. QED BY <1>1, Invariant, PTL

\* An output attached to the run is, for ever, the stored output of its effect:
\* uncertain commits, replays and reconciliations never replace it.
THEOREM AttachedAreDurable == Spec => []OutputsAreDurable
<1>1. IInv => OutputsAreDurable
  BY DEF IInv
<1>2. QED BY <1>1, Invariant, PTL

\* In one replica, where the service lock serialises attachments and decisions,
\* the ledger has no event whose output the run has not, so that an attachment
\* can be repeated until it is done.
THEOREM EventsAreBacked == OneReplica => (Spec => []EventsHaveOutputs)
<1> SUFFICES ASSUME OneReplica PROVE Spec => []EventsHaveOutputs
  OBVIOUS
<1>1. IInv => EventsHaveOutputs
  BY DEF IInv, EventInv
<1>2. QED BY <1>1, Invariant, PTL

\* A saved approval covers every effect that was listed before it: each is
\* resolved and its output is in the run that is saved, on any replicas.
THEOREM ApprovalsCover == Spec => ApprovalCoversWhatItListed
<1>1. IInv /\ [Next]_vars =>
        [\A p \in Procs :
           (/\ pc[p] = "save_decision" /\ pc'[p] = "idle"
            /\ run'.status = "completed" /\ run.status # "completed") =>
               \A k \in listed[p] :
                   /\ status[k] \notin {"pending", "unknown"}
                   /\ status[k] = "succeeded" =>
                          \E o \in run'.outputs : o[1] = k]_vars
  <2> SUFFICES ASSUME IInv, Next, NEW p \in Procs,
                      pc[p] = "save_decision", pc'[p] = "idle",
                      run'.status = "completed", run.status # "completed",
                      NEW k \in listed[p]
               PROVE  status[k] = "succeeded" /\ \E o \in run'.outputs : o[1] = k
    OBVIOUS
  <2>1. /\ ThreadInv /\ document[p] \in Documents /\ status[k] = "succeeded"
        /\ \E o \in document[p].outputs : o[1] = k
    BY Parts, ThreadFacts DEF Typed, Holds
  <2>2. PICK q \in Procs : SaveAttachment(q) \/ SaveDecision(q)
    BY DEF Next, Execute, Attach, Decide, PrepareModelEffect, Grant, Replay,
           CallProvider, Complete, MarkUnknown, BeginReconcile, Reconcile,
           BeginAttach, RefuseAttach, BeginDecision, ListEffects, Crash, stored
  <2>3. /\ Typed(pc[q], key[q], target[q], document[q], listed[q])
        /\ Holds(pc[q], key[q], target[q], document[q], listed[q])
    BY <2>1, ThreadFacts
  <2>4. CASE SaveAttachment(q)
    <3>1. document[q].status = "awaiting_greenlight" /\ document[q] \in Documents
      BY <2>3, <2>4 DEF SaveAttachment, Holds, Critical, Typed
    <3>2. run' = run \/ run'.status = document[q].status
      BY <2>4, <3>1 DEF SaveAttachment, stored, Documents
    <3>3. QED BY <3>1, <3>2
  <2>5. CASE SaveDecision(q)
    <3>1. q = p
      BY <2>1, <2>5 DEF SaveDecision, Finish, Goto, ThreadInv, ThreadTypes
    <3>2. run'.outputs = document[p].outputs
      BY <2>1, <2>5, <3>1 DEF SaveDecision, Documents
    <3>3. QED BY <2>1, <3>2
  <2>6. QED BY <2>2, <2>4, <2>5
<1>2. QED BY <1>1, Invariant, PTL DEF Spec, ApprovalCoversWhatItListed

-------------------------------------------------------------------------------
(* The authority implements EffectOnce. *)

Outcomes == [q \in Requests |-> Outcome(q)]

\* The outcome of a request is the status of its row, if it has one.
OutcomeFacts ==
    /\ \A k \in Keys : Exists(k) => binding[k] \in Requests /\ Outcome(binding[k]) = status[k]
    /\ \A q \in Requests : (\A k \in Keys : binding[k] # q) => Outcome(q) = "none"

LEMMA OutcomeOfRow == IInv => OutcomeFacts
<1> SUFFICES ASSUME IInv PROVE OutcomeFacts
  OBVIOUS
<1>1. RowTypes /\ RowInv
  BY Parts DEF StoreInv
<1>2. ASSUME NEW k \in Keys, Exists(k)
      PROVE  binding[k] \in Requests /\ Outcome(binding[k]) = status[k]
  <2>1. binding[k] \in Requests
    BY <1>1, <1>2 DEF RowTypes, Exists
  <2>2. k \in BoundTo(binding[k]) /\ \A j \in BoundTo(binding[k]) : j = k
    BY <1>1, <1>2 DEF BoundTo, RowInv
  <2>3. RowOf(binding[k]) = k
    BY <2>2 DEF RowOf
  <2>4. QED BY <2>1, <2>2, <2>3 DEF Outcome
<1>3. ASSUME NEW q \in Requests, \A k \in Keys : binding[k] # q
      PROVE  Outcome(q) = "none"
  BY <1>3 DEF Outcome, BoundTo
<1>4. QED BY <1>2, <1>3 DEF OutcomeFacts

LEMMA OutcomeOfRowNext == IInv' => OutcomeFacts'
  BY OutcomeOfRow, PTL

Mapped == [Abstract!Next]_<<Outcomes, calls>>

LEMMA StutterMaps ==
  ASSUME UNCHANGED <<status, binding, calls>>
  PROVE  Mapped
<1>1. Outcomes' = Outcomes
  BY DEF Outcomes, Outcome, RowOf, BoundTo, Exists
<1>2. QED BY <1>1 DEF Mapped

\* A step that writes the row k, which is bound to q after it, changes the
\* outcome of q alone.
LEMMA RowWritten ==
  ASSUME IInv, IInv', NEW k \in Keys, NEW q \in Requests,
         binding'[k] = q, binding[k] \in {q, None}, status'[k] # "none",
         \A j \in Keys \ {k} : status'[j] = status[j] /\ binding'[j] = binding[j]
  PROVE  Outcomes' = [Outcomes EXCEPT ![q] = status'[k]]
<1>1. OutcomeFacts /\ OutcomeFacts' /\ q # None /\ RowTypes
  BY OutcomeOfRow, OutcomeOfRowNext, Parts, NoneAssumption DEF StoreInv
<1>2. Outcome(q)' = status'[k]
  <2>1. \A j \in Keys : status'[j] # "none" => Outcome(binding[j])' = status'[j]
    BY <1>1 DEF OutcomeFacts, Exists
  <2>2. \A j \in Keys : binding'[j] = q => Outcome(binding[j])' = Outcome(q)'
    BY DEF Outcome, BoundTo, RowOf, Exists
  <2>3. QED BY <2>1, <2>2
<1>3. ASSUME NEW r \in Requests, r # q
      PROVE  Outcome(r)' = Outcome(r)
  <2>1. CASE \E j \in Keys : binding[j] = r
    <3>1. PICK j \in Keys : binding[j] = r
      BY <2>1
    <3>2. j # k /\ status'[j] = status[j] /\ binding'[j] = r
      BY <1>1, <1>3, <3>1, NoneAssumption
    <3>3. status[j] # "none"
      BY <1>1, <3>1, NoneAssumption DEF RowTypes
    <3>4. Outcome(r) = status[j]
      BY <1>1, <3>1, <3>3 DEF OutcomeFacts, Exists
    <3>5. Outcome(r)' = status'[j]
      <4>1. Outcome(binding[j])' = status'[j]
        BY <1>1, <3>2, <3>3 DEF OutcomeFacts, Exists
      <4>2. Outcome(binding[j])' = Outcome(r)'
        BY <3>2 DEF Outcome, BoundTo, RowOf, Exists
      <4>3. QED BY <4>1, <4>2
    <3>6. QED BY <3>2, <3>4, <3>5
  <2>2. CASE \A j \in Keys : binding[j] # r
    <3>1. Outcome(r) = "none"
      BY <1>1, <2>2 DEF OutcomeFacts
    <3>2. \A j \in Keys : binding'[j] # r
      BY <1>3, <2>2
    <3>3. Outcome(r)' = "none"
      BY <3>2 DEF Outcome, BoundTo
    <3>4. QED BY <3>1, <3>3
  <2>3. QED BY <2>1, <2>2
<1>4. QED BY <1>2, <1>3 DEF Outcomes

LEMMA GrantMaps ==
  ASSUME IInv, IInv', NEW p \in Procs, Grant(p)
  PROVE  Mapped
<1> DEFINE k == key[p]
           q == target[p]
<1>1. /\ StoreInv /\ ThreadInv /\ k \in Keys /\ q \in Requests /\ q # None
  BY Parts, ThreadFacts, NoneAssumption DEF Grant, Holds
<1>2. ~Exists(k) /\ binding[k] = None /\ \A j \in Keys : binding[j] # q
  <2>1. ~Exists(k) /\ \A j \in Keys : Exists(j) => binding[j] # q
    BY <1>1 DEF Grant, Matches, BoundTo
  <2>2. QED BY <1>1, <2>1 DEF Exists, StoreInv, RowTypes
<1>3. calls[q] = 0
  <2>1. calls[q] \in Nat /\ calls[q] <= 1 /\ calls[q] # 1
    BY <1>1, <1>2 DEF StoreInv, RowTypes, RowInv
  <2>2. QED BY <2>1
<1>4. /\ status'[k] = "pending" /\ binding'[k] = q /\ UNCHANGED calls
      /\ \A j \in Keys \ {k} : status'[j] = status[j] /\ binding'[j] = binding[j]
  BY <1>1 DEF Grant, StoreInv, RowTypes
<1>5. Outcomes' = [Outcomes EXCEPT ![q] = status'[k]]
  BY <1>1, <1>2, <1>4, RowWritten
<1>6. Outcomes[q] = "none"
  BY <1>1, <1>2, OutcomeOfRow DEF OutcomeFacts, Outcomes
<1>7. Abstract!Reserve(q)
  BY <1>3, <1>4, <1>5, <1>6 DEF Abstract!Reserve, Outcomes
<1>8. QED BY <1>1, <1>7 DEF Mapped, Outcomes, Abstract!Next

LEMMA SendMaps ==
  ASSUME IInv, NEW p \in Procs, CallProvider(p)
  PROVE  Mapped
<1> DEFINE q == target[p]
<1>1. /\ key[p] \in Keys /\ q \in Requests /\ binding[key[p]] = q
      /\ status[key[p]] = "pending" /\ calls[q] = 0
  <2>1. Holds("call", key[p], target[p], document[p], listed[p])
    BY Parts, ThreadFacts DEF CallProvider
  <2>2. QED BY <2>1 DEF Holds, Executing
<1>2. calls' = [calls EXCEPT ![q] = 1] /\ UNCHANGED <<status, binding>>
  <2>1. calls' = [calls EXCEPT ![q] = calls[q] + 1] /\ calls[q] + 1 = 1
    BY <1>1 DEF CallProvider
  <2>2. QED BY <2>1 DEF CallProvider, rows
<1>3. Outcomes[q] = "pending"
  BY <1>1, OutcomeOfRow DEF OutcomeFacts, Outcomes, Exists
<1>4. Outcomes' = Outcomes
  BY <1>2 DEF Outcomes, Outcome, RowOf, BoundTo, Exists
<1>5. Abstract!Send(q)
  BY <1>1, <1>2, <1>3, <1>4 DEF Abstract!Send, Outcomes
<1>6. QED BY <1>1, <1>5 DEF Mapped, Outcomes, Abstract!Next

LEMMA SettleMaps ==
  ASSUME IInv, IInv', NEW p \in Procs, pc[p] \in {"complete", "mark_unknown"},
         NEW o \in {"succeeded", "unknown"}, NEW r, Transition(key[p], o, r),
         UNCHANGED <<binding, calls>>
  PROVE  Mapped
<1> DEFINE k == key[p]
           q == target[p]
<1>1. CASE ~Pending(k)
  BY <1>1, StutterMaps DEF Transition
<1>2. CASE Pending(k)
  <2>1. k \in Keys /\ q \in Requests /\ binding[k] = q /\ calls[q] = 1 /\ RowTypes
    BY HolderRow, ThreadFacts, Parts DEF Executing, Holds, StoreInv
  <2>2. /\ status'[k] = o /\ binding'[k] = q
        /\ \A j \in Keys \ {k} : status'[j] = status[j] /\ binding'[j] = binding[j]
    BY <1>2, <2>1 DEF Transition, RowTypes
  <2>3. Outcomes' = [Outcomes EXCEPT ![q] = o]
    BY <2>1, <2>2, RowWritten
  <2>4. Outcomes[q] = "pending"
    BY <1>2, <2>1, OutcomeOfRow DEF OutcomeFacts, Outcomes, Pending, Exists
  <2>5. Abstract!Settle(q)
    BY <2>1, <2>3, <2>4 DEF Abstract!Settle, Outcomes
  <2>6. QED BY <2>1, <2>5 DEF Mapped, Outcomes, Abstract!Next
<1>3. QED BY <1>1, <1>2

LEMMA ReconcileMaps ==
  ASSUME IInv, IInv', NEW p \in Procs, Reconcile(p)
  PROVE  Mapped
<1> DEFINE k == key[p]
           q == binding[k]
<1>1. UNCHANGED <<binding, calls>> /\ k \in Keys /\ RowTypes /\ RowInv
  BY Parts, ThreadFacts DEF Reconcile, Holds, StoreInv
<1>2. CASE UNCHANGED status
  BY <1>1, <1>2, StutterMaps
<1>3. CASE Reconcilable(k) /\ status' = [status EXCEPT ![k] = "succeeded"]
  <2>1. q \in Requests /\ Outcomes[q] = "unknown" /\ calls[q] = 1
    BY <1>1, <1>3, OutcomeOfRow
       DEF OutcomeFacts, Outcomes, Reconcilable, Exists, RowInv
  <2>2. /\ status'[k] = "succeeded" /\ binding'[k] = q
        /\ \A j \in Keys \ {k} : status'[j] = status[j] /\ binding'[j] = binding[j]
    BY <1>1, <1>3 DEF RowTypes
  <2>3. Outcomes' = [Outcomes EXCEPT ![q] = "succeeded"]
    BY <1>1, <2>1, <2>2, RowWritten
  <2>4. Abstract!Reconcile(q)
    BY <1>1, <2>1, <2>3 DEF Abstract!Reconcile, Outcomes
  <2>5. QED BY <2>1, <2>4 DEF Mapped, Outcomes, Abstract!Next
<1>4. QED BY <1>2, <1>3 DEF Reconcile

\* Every step of a thread is a step of EffectOnce, or one it does not see.
LEMMA ThreadMaps ==
  ASSUME IInv, IInv', NEW p \in Procs,
         Execute(p) \/ BeginReconcile(p) \/ Reconcile(p) \/ Attach(p) \/ Decide(p)
         \/ Crash(p)
  PROVE  Mapped
<1>s. ASSUME UNCHANGED <<rows, calls>> PROVE Mapped
  BY <1>s, StutterMaps DEF rows
<1>1. CASE PrepareModelEffect(p)  BY <1>1, <1>s DEF PrepareModelEffect
<1>2. CASE Grant(p)               BY <1>2, GrantMaps
<1>3. CASE Replay(p)              BY <1>3, <1>s DEF Replay
<1>4. CASE CallProvider(p)        BY <1>4, SendMaps
<1>5. CASE Complete(p)
  <2>1. pc[p] = "complete" /\ UNCHANGED <<binding, calls>>
    BY <1>5 DEF Complete
  <2>2. Transition(key[p], "succeeded", "provider") \/ UNCHANGED status
    BY <1>5 DEF Complete
  <2>3. QED BY <2>1, <2>2, SettleMaps, StutterMaps
<1>6. CASE MarkUnknown(p)
  <2>1. /\ pc[p] = "mark_unknown" /\ Transition(key[p], "unknown", None)
        /\ UNCHANGED <<binding, calls>>
    BY <1>6 DEF MarkUnknown
  <2>2. QED BY <2>1, SettleMaps
<1>7. CASE BeginReconcile(p)      BY <1>7, <1>s DEF BeginReconcile
<1>8. CASE Reconcile(p)           BY <1>8, ReconcileMaps
<1>9. CASE BeginAttach(p)         BY <1>9, <1>s DEF BeginAttach
<1>10. CASE RefuseAttach(p)       BY <1>10, <1>s DEF RefuseAttach
<1>11. CASE SaveAttachment(p)     BY <1>11, <1>s DEF SaveAttachment
<1>12. CASE BeginDecision(p)      BY <1>12, <1>s DEF BeginDecision
<1>13. CASE ListEffects(p)        BY <1>13, <1>s DEF ListEffects
<1>14. CASE SaveDecision(p)       BY <1>14, <1>s DEF SaveDecision
<1>15. CASE Crash(p)              BY <1>15, <1>s DEF Crash
<1>16. QED
  BY <1>1, <1>2, <1>3, <1>4, <1>5, <1>6, <1>7, <1>8, <1>9, <1>10, <1>11, <1>12,
     <1>13, <1>14, <1>15 DEF Execute, Attach, Decide

\* The authority is an EffectOnce: a request is reserved, sent and settled at
\* most once, whatever keys, crashes, lost answers and replicas there are.
THEOREM Implementation == Spec => ImplementsEffectOnce
<1>1. Init => Abstract!Init
  <2> SUFFICES ASSUME Init PROVE Abstract!Init
    OBVIOUS
  <2>1. \A q \in Requests : Outcome(q) = "none"
    BY DEF Init, Outcome, BoundTo, Exists
  <2>2. [q \in Requests |-> Outcome(q)] = [q \in Requests |-> "none"]
    BY <2>1
  <2>3. QED BY <2>2 DEF Init, Abstract!Init
<1>2. IInv /\ IInv' /\ [Next]_vars =>
         [Abstract!Next]_<<[q \in Requests |-> Outcome(q)], calls>>
  <2> SUFFICES ASSUME IInv, IInv', [Next]_vars PROVE Mapped
    BY DEF Mapped, Outcomes
  <2>1. CASE UNCHANGED vars
    BY <2>1, StutterMaps DEF vars, rows
  <2>2. CASE Next
    BY <2>2, ThreadMaps DEF Next
  <2>3. QED BY <2>1, <2>2
<1>3. QED BY <1>1, <1>2, Invariant, PTL DEF Spec, Abstract!Spec, ImplementsEffectOnce

===============================================================================
