------------------------- MODULE PublicationMediaProofs -------------------------
(***************************************************************************)
(* Proofs about PublicationMedia, for every number of replicas, runs,      *)
(* images, keys and crashes, on both backends.                             *)
(*                                                                         *)
(* IInv is the inductive invariant.  Its core is that a row of the media   *)
(* store never changes but to be revoked, so that an address signed from a *)
(* row is the address of that row for ever (Good); that while no output    *)
(* was saved over the images of a run (Ordered), and on SQLite always, a   *)
(* run awaiting its decision has no image that the attachment about to     *)
(* save it has not read; and that nobody else has seen the image that a    *)
(* command has reserved itself, until that command has saved it.           *)
(***************************************************************************)
EXTENDS PublicationMedia, TLAPS

Pcs == {"idle", "replay", "read", "reserve", "sign", "save", "compensate", "decide",
        "attach_output"}

\* The places where a command holds the lock of its run.
Attaching == {"replay", "read", "reserve", "sign", "save", "compensate"}

Signers == {ring.active : ring \in Accepted}

Artifacts == [media : Bindings, signer : Signers, expires : Nat]

Jobs == [key : Keys \cup {None}, run : Runs \cup {None},
         binding : Bindings \cup {None}, artifacts : SUBSET Artifacts,
         row : MediaRows \cup {None}, created : BOOLEAN]

Types ==
    /\ backend \in {"sqlite", "postgresql"}
    /\ rings \in [Replicas -> Accepted]
    /\ now \in Nat
    /\ runs \in [Runs -> [status : {"awaiting", "decided"},
                          artifacts : SUBSET Artifacts,
                          approved : SUBSET Artifacts]]
    /\ media \in [Bindings -> MediaRows \cup {None}]
    /\ pc \in [Replicas -> Pcs]
    /\ job \in [Replicas -> Jobs]
    /\ unanswered \subseteq Bindings
    /\ overwritten \subseteq Runs

Stored(b) == media[b] # None

\* The address of an artifact is the one of the row of its media object.
Good(a) ==
    /\ Stored(a.media)
    /\ media[a.media].signer = a.signer
    /\ media[a.media].expires = a.expires

\* Whether one of the artifacts shows the media object b.
Shows(artifacts, b) == \E a \in artifacts : a.media = b

\* Nothing but a decision can have overlapped what j does: one lock excludes
\* the outputs of model effects, or they have changed no image of its run.
Ordered(j) == backend = "sqlite" \/ j.run \notin overwritten

\* The run of j, if it awaits its decision, has no image that j has not read.
UpToDate(j) ==
    runs[j.run].status = "awaiting" => runs[j.run].artifacts \subseteq j.artifacts

\* What a replica at c with the job j may rely on.
Holds(c, j) ==
    /\ c \in Attaching => /\ j.binding \in Bindings /\ j.key \in Keys
                          /\ j.run = RunOf[j.binding]
    /\ c \in {"decide", "attach_output"} => /\ j.run \in Runs
                                            /\ (backend = "sqlite" => UpToDate(j))
    /\ \A a \in j.artifacts : Good(a)
    /\ c \in Attaching => \A a \in j.artifacts : a.media = j.binding
    /\ c \in {"reserve", "sign", "save"} /\ Ordered(j) => UpToDate(j)
    /\ c = "reserve" => /\ j.row \in MediaRows /\ j.row.media = j.binding
                        /\ ~j.row.revoked
    /\ c = "sign" => /\ j.row \in MediaRows /\ Stored(j.binding)
                     /\ media[j.binding].signer = j.row.signer
                     /\ media[j.binding].expires = j.row.expires
    /\ c = "compensate" => j.created
    /\ j.created => /\ c \in {"sign", "save", "compensate"}
                    /\ Stored(j.binding)
                    /\ j.binding \in unanswered
                       \/ \A r \in Runs : ~Shows(runs[r].artifacts, j.binding)

\* Two replicas, at c with the job j and at d with the job k, attach to
\* different runs, and none has seen what the other has reserved.
Apart(c, j, d, k) ==
    /\ c \in Attaching /\ d \in Attaching => RunOf[j.binding] # RunOf[k.binding]
    /\ j.created /\ j.binding \notin unanswered => ~Shows(k.artifacts, j.binding)
    /\ k.created /\ k.binding \notin unanswered => ~Shows(j.artifacts, k.binding)

\* Only the process of a SQLite installation serves anything.
Serving(p) == backend = "sqlite" => p = Primary

ReplicaInv ==
    /\ \A p \in Replicas : pc[p] # "idle" => Serving(p)
    /\ \A p \in Replicas : Holds(pc[p], job[p])
    /\ \A p, q \in Replicas : p # q => Apart(pc[p], job[p], pc[q], job[q])

RunInv ==
    /\ \A r \in Runs : \A a \in runs[r].artifacts : Good(a)
    /\ DecisionsCoverTheirArtifacts

MediaInv == \A b \in Bindings : Stored(b) => media[b].media = b

IInv == Types /\ ReplicaInv /\ RunInv /\ MediaInv

-------------------------------------------------------------------------------
(* The replicas. *)

USE DEF history

\* Take writes the program counter and the job of one replica.
Take(p, c, j) ==
    /\ pc' = [pc EXCEPT ![p] = c]
    /\ job' = [job EXCEPT ![p] = j]

LEMMA TakeWrites ==
  ASSUME Types, NEW p \in Replicas, NEW c \in Pcs, NEW j \in Jobs, Take(p, c, j)
  PROVE  /\ pc' \in [Replicas -> Pcs] /\ job' \in [Replicas -> Jobs]
         /\ pc'[p] = c /\ job'[p] = j
         /\ \A q \in Replicas \ {p} : pc'[q] = pc[q] /\ job'[q] = job[q]
  BY DEF Types, Take

LEMMA IdleJob == Idle \in Jobs
  BY DEF Idle, Jobs

LEMMA FinishTakes ==
  ASSUME NEW p \in Replicas, Finish(p)
  PROVE  Take(p, "idle", Idle)
  BY DEF Finish, Take, Goto

LEMMA GotoTakes ==
  ASSUME Types, NEW p \in Replicas, NEW c, Goto(p, c), UNCHANGED job
  PROVE  Take(p, c, job[p])
  BY DEF Goto, Take, Types

LEMMA IdleHolds == Holds("idle", Idle)
  BY DEF Holds, Idle, Attaching

\* A step of p keeps the promises to all replicas when it keeps those of the
\* place p goes to, and those to every other replica q, which stays at (d, k).
LEMMA ReplicaKeeps ==
  ASSUME Types, ReplicaInv,
         NEW p \in Replicas, NEW c \in Pcs, NEW j \in Jobs, Take(p, c, j),
         UNCHANGED backend, c # "idle" => Serving(p),
         unanswered \subseteq unanswered',
         Holds(c, j)',
         \A q \in Replicas \ {p} : \A d, k :
             d = pc[q] /\ k = job[q] => Holds(d, k)' /\ Apart(c, j, d, k)'
  PROVE  ReplicaInv'
<1>1. ASSUME NEW q \in Replicas PROVE Holds(pc[q], job[q])'
  <2>1. CASE q = p
    BY <2>1, TakeWrites DEF Holds
  <2>2. CASE q # p
    <3>1. \A d, k : d = pc[q] /\ k = job[q] => Holds(d, k)'
      BY <2>2
    <3>2. pc'[q] = pc[q] /\ job'[q] = job[q]
      BY <2>2, TakeWrites
    <3>3. QED BY <3>1, <3>2 DEF Holds
  <2>3. QED BY <2>1, <2>2
<1>2. ASSUME NEW s \in Replicas, NEW q \in Replicas, s # q
      PROVE  Apart(pc[s], job[s], pc[q], job[q])'
  <2>1. ASSUME NEW o \in Replicas \ {p}, NEW d, NEW k, d = pc[o], k = job[o]
        PROVE  Apart(c, j, d, k)' /\ Apart(d, k, c, j)'
    <3>1. Apart(c, j, d, k)'
      BY <2>1
    <3>2. QED BY <3>1 DEF Apart
  <2>2. CASE s = p
    <3>1. pc'[s] = c /\ job'[s] = j /\ pc'[q] = pc[q] /\ job'[q] = job[q]
      BY <1>2, <2>2, TakeWrites
    <3>2. QED BY <1>2, <2>1, <2>2, <3>1 DEF Apart
  <2>3. CASE q = p
    <3>1. pc'[q] = c /\ job'[q] = j /\ pc'[s] = pc[s] /\ job'[s] = job[s]
      BY <1>2, <2>3, TakeWrites
    <3>2. QED BY <1>2, <2>1, <2>3, <3>1 DEF Apart
  <2>4. CASE s # p /\ q # p
    <3>1. Apart(pc[s], job[s], pc[q], job[q])
      BY <1>2 DEF ReplicaInv
    <3>2. pc'[s] = pc[s] /\ job'[s] = job[s] /\ pc'[q] = pc[q] /\ job'[q] = job[q]
      BY <2>4, TakeWrites
    <3>3. QED BY <3>1, <3>2 DEF Apart
  <2>5. QED BY <2>2, <2>3, <2>4
<1>3. ASSUME NEW q \in Replicas PROVE pc'[q] # "idle" => Serving(q)'
  BY TakeWrites DEF ReplicaInv, Serving
<1>4. QED BY <1>1, <1>2, <1>3 DEF ReplicaInv

-------------------------------------------------------------------------------
(* Steps that move a replica and change neither runs nor media. *)

store == <<backend, runs, media, history>>

Moves(p, c, j) ==
    /\ Take(p, c, j)
    /\ c \in Pcs /\ j \in Jobs
    /\ c # "idle" => Serving(p)
    /\ Holds(c, j)
    /\ \A q \in Replicas \ {p} : Apart(c, j, pc[q], job[q])

LEMMA MoveKeeps ==
  ASSUME IInv, NEW p \in Replicas, NEW c, NEW j, Moves(p, c, j),
         UNCHANGED store, rings' \in [Replicas -> Accepted], now' \in Nat
  PROVE  IInv'
<1> USE DEF store
<1>1. Types'
  BY TakeWrites DEF IInv, Types, Moves
<1>2. ReplicaInv'
  <2>1. Holds(c, j)'
    BY DEF Moves, Holds, Good, Stored, Ordered, UpToDate
  <2>2. ASSUME NEW q \in Replicas \ {p}, NEW d, NEW k, d = pc[q], k = job[q]
        PROVE  Holds(d, k)' /\ Apart(c, j, d, k)'
    <3>1. Holds(d, k) /\ Apart(c, j, d, k)
      BY <2>2 DEF IInv, ReplicaInv, Moves
    <3>2. QED BY <3>1 DEF Holds, Good, Stored, Apart, Ordered, UpToDate
  <2>3. QED BY <2>1, <2>2, ReplicaKeeps DEF IInv, Moves
<1>3. RunInv' /\ MediaInv'
  BY DEF IInv, RunInv, MediaInv, DecisionsCoverTheirArtifacts, Good, Stored
<1>4. QED BY <1>1, <1>2, <1>3 DEF IInv

LEMMA Still ==
  ASSUME IInv
  PROVE  rings \in [Replicas -> Accepted] /\ now \in Nat
  BY DEF IInv, Types

\* A replica that goes idle, or does not go on, promises nothing.
LEMMA FinishMoves ==
  ASSUME IInv, NEW p \in Replicas, Finish(p)
  PROVE  Moves(p, "idle", Idle)
<1>1. \A q \in Replicas \ {p} : Apart("idle", Idle, pc[q], job[q])
  BY DEF Apart, Idle, Attaching, Shows
<1>2. QED BY <1>1, FinishTakes, IdleJob, IdleHolds DEF Moves, Pcs

LEMMA FinishKeeps ==
  ASSUME IInv, NEW p \in Replicas, Finish(p), UNCHANGED <<store, rings, now>>
  PROVE  IInv'
  BY FinishMoves, MoveKeeps, Still

\* What the invariant says of one replica and of two.
LEMMA ReplicaFacts ==
  ASSUME IInv, NEW p \in Replicas
  PROVE  /\ job[p] \in Jobs /\ Holds(pc[p], job[p])
         /\ pc[p] # "idle" => Serving(p)
         /\ \A q \in Replicas \ {p} : Apart(pc[p], job[p], pc[q], job[q])
  BY DEF IInv, Types, ReplicaInv

\* On SQLite a replica that does something is the only one.
LEMMA AloneOnSQLite ==
  ASSUME IInv, backend = "sqlite", NEW p \in Replicas, pc[p] # "idle"
  PROVE  \A q \in Replicas \ {p} : pc[q] = "idle"
  BY DEF IInv, ReplicaInv, Serving

LEMMA AttachKeeps ==
  ASSUME IInv, NEW p \in Replicas, NEW k \in Keys, NEW b \in Bindings, Attach(p, k, b)
  PROVE  IInv'
<1>s. PICK j : j = Command(k, b)
  OBVIOUS
<1>1. Take(p, "replay", j) /\ UNCHANGED <<store, rings, now>> /\ Serving(p)
  BY <1>s DEF Attach, Serves, Serving, Take, Goto, store
<1>2. /\ j \in Jobs /\ j.key = k /\ j.binding = b /\ j.run = RunOf[b]
      /\ j.artifacts = {} /\ j.created = FALSE
  BY <1>s, BindingAssumption DEF Command, Idle, Jobs, BindingAssumption
<1>3. Holds("replay", j)
  BY <1>2 DEF Holds, Attaching
<1>4. ASSUME NEW q \in Replicas \ {p} PROVE Apart("replay", j, pc[q], job[q])
  <2>1. pc[q] \in Attaching => RunOf[job[q].binding] # RunOf[b]
    BY DEF Attach, Free, Attaching
  <2>2. job[q].created /\ job[q].binding \notin unanswered => ~Shows({}, job[q].binding)
    BY DEF Shows
  <2>3. QED BY <1>2, <2>1, <2>2 DEF Apart
<1>5. Moves(p, "replay", j)
  BY <1>1, <1>2, <1>3, <1>4 DEF Moves, Pcs
<1>6. QED BY <1>1, <1>5, MoveKeeps, Still

LEMMA ReplayKeeps ==
  ASSUME IInv, NEW p \in Replicas, Replay(p)
  PROVE  IInv'
<1>1. UNCHANGED <<store, rings, now>> /\ pc[p] = "replay" /\ Serving(p)
  BY ReplicaFacts DEF Replay, store
<1>2. CASE Finish(p)
  BY <1>1, <1>2, FinishKeeps
<1>3. CASE Goto(p, "read") /\ UNCHANGED job
  <2>1. Take(p, "read", job[p])
    BY <1>3, GotoTakes DEF IInv
  <2>2. Holds("read", job[p])
    BY <1>1, ReplicaFacts DEF Holds, Attaching
  <2>3. \A q \in Replicas \ {p} : Apart("read", job[p], pc[q], job[q])
    BY <1>1, ReplicaFacts DEF Apart, Attaching
  <2>4. Moves(p, "read", job[p])
    BY <1>1, <2>1, <2>2, <2>3, ReplicaFacts DEF Moves, Pcs
  <2>5. QED BY <1>1, <2>4, MoveKeeps, Still
<1>4. QED BY <1>2, <1>3 DEF Replay

LEMMA ProposedRow ==
  ASSUME IInv, NEW p \in Replicas, job[p].binding \in Bindings, job[p].key \in Keys
  PROVE  /\ Proposed(p) \in MediaRows /\ Proposed(p).media = job[p].binding
         /\ ~Proposed(p).revoked
  BY BoundAssumption DEF Proposed, MediaRows, IInv, Types, BoundAssumption, Accepted

LEMMA ReadKeeps ==
  ASSUME IInv, NEW p \in Replicas, Read(p)
  PROVE  IInv'
<1>1. UNCHANGED <<store, rings, now>> /\ pc[p] = "read" /\ Serving(p)
  BY ReplicaFacts DEF Read, store
<1>2. CASE Finish(p)
  BY <1>1, <1>2, FinishKeeps
<1>3. CASE ~Finish(p)
  <2>s. PICK run, j : /\ run = runs[job[p].run]
                      /\ j = [job[p] EXCEPT !.artifacts = run.artifacts, !.row = Proposed(p)]
    OBVIOUS
  <2>1. /\ \A a \in run.artifacts : a.media = job[p].binding
        /\ Take(p, "reserve", j)
    BY <1>3, <2>s DEF Read, Take, Goto
  <2>2. /\ job[p].binding \in Bindings /\ job[p].key \in Keys /\ job[p].created = FALSE
        /\ job[p].run \in Runs /\ job[p].run = RunOf[job[p].binding] /\ job[p] \in Jobs
    BY <1>1, ReplicaFacts, BindingAssumption DEF Holds, Attaching, Jobs, BindingAssumption
  <2>3. run.artifacts \in SUBSET Artifacts /\ \A a \in run.artifacts : Good(a)
    BY <2>2, <2>s DEF IInv, Types, RunInv
  <2>4. /\ Proposed(p) \in MediaRows /\ Proposed(p).media = job[p].binding
        /\ ~Proposed(p).revoked
    BY <2>2, ProposedRow
  <2>5. /\ j \in Jobs /\ j.key = job[p].key /\ j.binding = job[p].binding
        /\ j.run = job[p].run /\ j.created = FALSE /\ j.artifacts = run.artifacts
        /\ j.row = Proposed(p)
    BY <2>2, <2>3, <2>4, <2>s DEF Jobs
  <2>6. Holds("reserve", j)
    BY <2>1, <2>2, <2>3, <2>4, <2>5, <2>s DEF Holds, Attaching, UpToDate
  <2>7. ASSUME NEW q \in Replicas \ {p} PROVE Apart("reserve", j, pc[q], job[q])
    <3>1. Apart("read", job[p], pc[q], job[q]) /\ Holds(pc[q], job[q])
      BY <1>1, ReplicaFacts
    <3>2. job[q].created /\ job[q].binding \notin unanswered
              => ~Shows(run.artifacts, job[q].binding)
      BY <2>2, <2>s, <3>1 DEF Holds
    <3>3. QED BY <2>5, <3>1, <3>2 DEF Apart, Attaching
  <2>8. Moves(p, "reserve", j)
    BY <1>1, <2>1, <2>5, <2>6, <2>7 DEF Moves, Pcs
  <2>9. QED BY <1>1, <2>8, MoveKeeps, Still
<1>4. QED BY <1>2, <1>3

LEMMA ReuseKeeps ==
  ASSUME IInv, NEW p \in Replicas, Reuse(p)
  PROVE  IInv'
<1>1. UNCHANGED <<store, rings, now>> /\ pc[p] = "reserve" /\ Serving(p)
  BY ReplicaFacts DEF Reuse, store
<1>2. CASE Finish(p)
  BY <1>1, <1>2, FinishKeeps
<1>3. CASE ~Finish(p)
  <2>s. PICK b, j : /\ b = job[p].binding
                    /\ j = [job[p] EXCEPT !.row = media[b]]
    OBVIOUS
  <2>1. b \in Found(p) /\ Take(p, "sign", j)
    BY <1>3, <2>s DEF Reuse, Take, Goto
  <2>2. Stored(b) /\ b \in Bindings /\ media[b] \in MediaRows
    <3>1. b \in Bindings /\ media[b] # None
      BY <2>1, <2>s, <1>1, ReplicaFacts DEF Found, Holds, Attaching
    <3>2. QED BY <3>1 DEF Stored, IInv, Types
  <2>3. /\ j \in Jobs /\ j.key = job[p].key /\ j.binding = b /\ j.run = job[p].run
        /\ j.created = job[p].created /\ j.artifacts = job[p].artifacts
        /\ j.row = media[b]
    BY <2>2, <2>s, ReplicaFacts DEF Jobs
  <2>4. Holds("sign", j)
    <3>1. Holds("reserve", job[p])
      BY <1>1, ReplicaFacts
    <3>2. Ordered(j) => UpToDate(j)
      BY <2>3, <3>1 DEF Holds, Ordered, UpToDate
    <3>3. QED BY <2>2, <2>3, <2>s, <3>1, <3>2 DEF Holds, Attaching
  <2>5. \A q \in Replicas \ {p} : Apart("sign", j, pc[q], job[q])
    BY <1>1, <2>3, <2>s, ReplicaFacts DEF Apart, Attaching
  <2>6. Moves(p, "sign", j)
    BY <1>1, <2>1, <2>3, <2>4, <2>5 DEF Moves, Pcs
  <2>7. QED BY <1>1, <2>6, MoveKeeps, Still
<1>4. QED BY <1>2, <1>3

LEMMA SignKeeps ==
  ASSUME IInv, NEW p \in Replicas, Sign(p)
  PROVE  IInv'
<1>1. UNCHANGED <<store, rings, now>> /\ pc[p] = "sign" /\ Serving(p)
  BY ReplicaFacts DEF Sign, store
<1>2. CASE Finish(p)
  BY <1>1, <1>2, FinishKeeps
<1>3. CASE ~Finish(p)
  <2>s. PICK a, j : /\ a = NewArtifact(p)
                    /\ j = [job[p] EXCEPT !.artifacts = {a}]
    OBVIOUS
  <2>1. job[p].artifacts \subseteq {a} /\ Take(p, "save", j)
    BY <1>3, <2>s DEF Sign, Take, Goto
  <2>2. /\ job[p] \in Jobs /\ job[p].binding \in Bindings /\ job[p].row \in MediaRows
        /\ Stored(job[p].binding)
        /\ media[job[p].binding].signer = job[p].row.signer
        /\ media[job[p].binding].expires = job[p].row.expires
    BY <1>1, ReplicaFacts DEF Holds, Attaching
  <2>3. a \in Artifacts /\ a.media = job[p].binding /\ Good(a)
    BY <2>2, <2>s DEF NewArtifact, Artifacts, Signers, MediaRows, Good
  <2>4. /\ j \in Jobs /\ j.key = job[p].key /\ j.binding = job[p].binding
        /\ j.run = job[p].run /\ j.created = job[p].created /\ j.artifacts = {a}
    BY <2>2, <2>3, <2>s DEF Jobs
  <2>5. Holds("save", j)
    <3>1. Holds("sign", job[p])
      BY <1>1, ReplicaFacts
    <3>2. Ordered(j) => UpToDate(j)
      BY <2>1, <2>4, <3>1 DEF Holds, Ordered, UpToDate
    <3>3. QED BY <2>3, <2>4, <3>1, <3>2 DEF Holds, Attaching
  <2>6. ASSUME NEW q \in Replicas \ {p} PROVE Apart("save", j, pc[q], job[q])
    <3>1. Apart("sign", job[p], pc[q], job[q]) /\ Holds(pc[q], job[q])
      BY <1>1, ReplicaFacts
    <3>2. job[q].created => job[q].binding # a.media
      BY <2>3, <3>1 DEF Holds, Apart, Attaching
    <3>3. job[q].created => ~Shows({a}, job[q].binding)
      BY <3>2 DEF Shows
    <3>4. QED BY <2>4, <3>1, <3>3 DEF Apart, Attaching
  <2>7. Moves(p, "save", j)
    BY <1>1, <2>1, <2>4, <2>5, <2>6 DEF Moves, Pcs
  <2>8. QED BY <1>1, <2>7, MoveKeeps, Still
<1>4. QED BY <1>2, <1>3

\* A failed save compensates what the command has reserved itself.
LEMMA CompensatedMoves ==
  ASSUME IInv, NEW p \in Replicas, pc[p] = "save", Compensated(p), ~Finish(p)
  PROVE  Moves(p, "compensate", job[p])
<1>1. Take(p, "compensate", job[p]) /\ job[p].created
  BY GotoTakes DEF Compensated, Owns, IInv
<1>2. Holds("compensate", job[p])
  BY <1>1, ReplicaFacts DEF Holds, Attaching
<1>3. \A q \in Replicas \ {p} : Apart("compensate", job[p], pc[q], job[q])
  BY ReplicaFacts DEF Apart, Attaching
<1>4. QED BY <1>1, <1>2, <1>3, ReplicaFacts DEF Moves, Pcs

LEMMA SaveFailsKeeps ==
  ASSUME IInv, NEW p \in Replicas, SaveFails(p)
  PROVE  IInv'
<1>1. UNCHANGED <<store, rings, now>> /\ pc[p] = "save" /\ Compensated(p)
  BY DEF SaveFails, store
<1>2. CASE Finish(p)
  BY <1>1, <1>2, FinishKeeps
<1>3. CASE ~Finish(p)
  BY <1>1, <1>3, CompensatedMoves, MoveKeeps, Still
<1>4. QED BY <1>2, <1>3

LEMMA DecideKeeps ==
  ASSUME IInv, NEW p \in Replicas, NEW r \in Runs, Decide(p, r)
  PROVE  IInv'
<1>s. PICK j : j = [Idle EXCEPT !.run = r, !.artifacts = runs[r].artifacts]
  OBVIOUS
<1>1. Take(p, "decide", j) /\ UNCHANGED <<store, rings, now>> /\ Serving(p)
  BY <1>s DEF Decide, Serves, Serving, Take, Goto, store
<1>2. /\ j \in Jobs /\ j.run = r /\ j.artifacts = runs[r].artifacts
      /\ j.created = FALSE
  BY <1>s DEF Idle, Jobs, IInv, Types
<1>3. Holds("decide", j)
  BY <1>2 DEF Holds, UpToDate, Attaching, IInv, RunInv
<1>4. ASSUME NEW q \in Replicas \ {p} PROVE Apart("decide", j, pc[q], job[q])
  BY <1>2, ReplicaFacts DEF Apart, Holds, Attaching
<1>5. Moves(p, "decide", j)
  BY <1>1, <1>2, <1>3, <1>4 DEF Moves, Pcs
<1>6. QED BY <1>1, <1>5, MoveKeeps, Still

LEMMA AttachOutputKeeps ==
  ASSUME IInv, NEW p \in Replicas, NEW r \in Runs, AttachOutput(p, r)
  PROVE  IInv'
<1>s. PICK j : j = [Idle EXCEPT !.run = r, !.artifacts = runs[r].artifacts]
  OBVIOUS
<1>1. /\ Take(p, "attach_output", j) /\ UNCHANGED <<store, rings, now>>
      /\ Serving(p)
  BY <1>s DEF AttachOutput, Serves, Serving, Take, Goto, store
<1>2. /\ j \in Jobs /\ j.run = r /\ j.artifacts = runs[r].artifacts
      /\ j.created = FALSE
  BY <1>s DEF Idle, Jobs, IInv, Types
<1>3. Holds("attach_output", j)
  BY <1>1, <1>2 DEF Holds, UpToDate, Attaching, IInv, RunInv
<1>4. ASSUME NEW q \in Replicas \ {p} PROVE Apart("attach_output", j, pc[q], job[q])
  BY <1>2, ReplicaFacts DEF Apart, Holds, Attaching
<1>5. Moves(p, "attach_output", j)
  BY <1>1, <1>2, <1>3, <1>4 DEF Moves, Pcs
<1>6. QED BY <1>1, <1>5, MoveKeeps, Still

-------------------------------------------------------------------------------
(* Steps that write media or runs. *)

LEMMA InsertKeeps ==
  ASSUME IInv, NEW p \in Replicas, Insert(p)
  PROVE  IInv'
<1>1. CASE Finish(p) /\ UNCHANGED media
  <2>1. UNCHANGED <<store, rings, now>>
    BY <1>1 DEF Insert, store
  <2>2. QED BY <1>1, <2>1, FinishKeeps
<1>2. CASE ~(Finish(p) /\ UNCHANGED media)
  <2>s. PICK b, j : b = job[p].binding /\ j = [job[p] EXCEPT !.created = TRUE]
    OBVIOUS
  <2>1. /\ media' = [media EXCEPT ![b] = job[p].row]
        /\ Take(p, "sign", j) /\ pc[p] = "reserve"
        /\ UNCHANGED <<backend, rings, now, runs, history>>
    BY <1>2, <2>s DEF Insert, Take, Goto
  <2>2. /\ b \in Bindings /\ job[p].row \in MediaRows /\ job[p].row.media = b
        /\ job[p] \in Jobs
    BY <2>1, <2>s, ReplicaFacts DEF Holds, Attaching
  <2>3. ~Stored(b)
    BY <2>2, <2>s DEF Insert, Found, Stored
  <2>4. /\ j \in Jobs /\ j.key = job[p].key /\ j.binding = b /\ j.run = job[p].run
        /\ j.created = TRUE /\ j.artifacts = job[p].artifacts /\ j.row = job[p].row
    BY <2>2, <2>s DEF Jobs
  <2>5. /\ media' \in [Bindings -> MediaRows \cup {None}]
        /\ media'[b] = j.row /\ j.row # None
        /\ \A e \in Bindings \ {b} : media'[e] = media[e]
    BY <2>1, <2>2, <2>4, NoneAssumption DEF IInv, Types
  <2>6. /\ Stored(b)'
        /\ \A e \in Bindings : Stored(e) => Stored(e)' /\ media'[e] = media[e] /\ e # b
    BY <2>3, <2>5 DEF Stored
  <2>7. \A a \in Artifacts : Good(a) => Good(a)' /\ a.media # b
    BY <2>6 DEF Good, Artifacts
  <2>8. Types'
    BY <2>1, <2>4, <2>5, TakeWrites DEF IInv, Types, Pcs
  <2>9. ReplicaInv'
    <3>0. Holds("reserve", job[p])
      BY <2>1, ReplicaFacts
    <3>1. Holds("sign", j)'
      <4>1. \A a \in j.artifacts : Good(a)' /\ a.media = b
        BY <2>2, <2>4, <2>7, <2>s, <3>0 DEF Holds, Jobs, Attaching
      <4>2. \A r \in Runs : ~Shows(runs'[r].artifacts, b)
        BY <2>1, <2>7 DEF IInv, RunInv, Types, Shows
      <4>3. Ordered(j)' => UpToDate(j)'
        BY <2>1, <2>4, <3>0 DEF Holds, Ordered, UpToDate
      <4>4. QED BY <2>1, <2>2, <2>4, <2>5, <2>6, <3>0, <4>1, <4>2, <4>3 DEF Holds, Attaching
    <3>2. ASSUME NEW q \in Replicas \ {p}, NEW d, NEW k, d = pc[q], k = job[q]
          PROVE  Holds(d, k)' /\ Apart("sign", j, d, k)'
      <4>1. Holds(d, k) /\ Apart("reserve", job[p], d, k) /\ k \in Jobs
        BY <2>1, <3>2, ReplicaFacts
      <4>2. \A a \in k.artifacts : Good(a)' /\ a.media # b
        BY <2>7, <4>1 DEF Holds, Jobs
      <4>3. /\ d = "sign" => Stored(k.binding)' /\ media'[k.binding] = media[k.binding]
            /\ k.created => Stored(k.binding)'
        BY <2>6, <4>1 DEF Holds, Attaching
      <4>4. Holds(d, k)'
        BY <2>1, <4>1, <4>2, <4>3 DEF Holds, Ordered, UpToDate
      <4>5. Apart("sign", j, d, k)'
        BY <2>1, <2>4, <2>s, <4>1, <4>2 DEF Apart, Shows, Attaching
      <4>6. QED BY <4>4, <4>5
    <3>3. "sign" \in Pcs /\ Types /\ ReplicaInv /\ Serving(p)
      BY <2>1, ReplicaFacts DEF IInv, Pcs
    <3>4. QED BY <2>1, <2>4, <3>1, <3>2, <3>3, ReplicaKeeps
  <2>10. RunInv'
    BY <2>1, <2>7 DEF IInv, RunInv, Types, DecisionsCoverTheirArtifacts
  <2>11. MediaInv'
    BY <2>2, <2>4, <2>5 DEF IInv, MediaInv, Stored
  <2>12. QED BY <2>8, <2>9, <2>10, <2>11 DEF IInv
<1>3. QED BY <1>1, <1>2

LEMMA CompensateKeeps ==
  ASSUME IInv, NEW p \in Replicas, Compensate(p)
  PROVE  IInv'
<1>s. PICK b : b = job[p].binding
  OBVIOUS
<1>1. /\ media' = [media EXCEPT ![b].revoked = TRUE]
      /\ Take(p, "idle", Idle)
      /\ UNCHANGED <<backend, rings, now, runs, history>>
  BY <1>s, FinishTakes DEF Compensate
<1>2. b \in Bindings /\ Stored(b) /\ media[b] \in MediaRows
  <2>1. b \in Bindings /\ Stored(b)
    BY <1>s, ReplicaFacts DEF Compensate, Holds, Attaching
  <2>2. QED BY <2>1 DEF Stored, IInv, Types
<1>3. /\ media' \in [Bindings -> MediaRows \cup {None}]
      /\ \A e \in Bindings : Stored(e)' <=> Stored(e)
      /\ \A e \in Bindings : Stored(e) => /\ media'[e].signer = media[e].signer
                                          /\ media'[e].expires = media[e].expires
                                          /\ media'[e].media = media[e].media
  <2>1. media'[b] = [media[b] EXCEPT !.revoked = TRUE] /\ media'[b] \in MediaRows
    BY <1>1, <1>2 DEF IInv, Types, MediaRows
  <2>2. \A e \in Bindings \ {b} : media'[e] = media[e]
    BY <1>1, <1>2 DEF IInv, Types
  <2>3. /\ media'[b].signer = media[b].signer /\ media'[b].expires = media[b].expires
        /\ media'[b].media = media[b].media
    BY <1>2, <2>1 DEF MediaRows
  <2>4. media' \in [Bindings -> MediaRows \cup {None}]
    BY <1>1, <1>2, <2>1 DEF IInv, Types
  <2>5. QED BY <1>2, <2>1, <2>2, <2>3, <2>4, NoneAssumption DEF Stored
<1>4. \A a \in Artifacts : Good(a) => Good(a)'
  BY <1>3 DEF Good, Artifacts
<1>5. Types'
  BY <1>1, <1>3, IdleJob, TakeWrites DEF IInv, Types, Pcs
<1>6. ReplicaInv'
  <2>1. Holds("idle", Idle)'
    BY DEF Holds, Idle, Attaching
  <2>2. ASSUME NEW q \in Replicas \ {p}, NEW d, NEW k, d = pc[q], k = job[q]
        PROVE  Holds(d, k)' /\ Apart("idle", Idle, d, k)'
    <3>1. Holds(d, k) /\ k \in Jobs
      BY <2>2, ReplicaFacts
    <3>2. \A a \in k.artifacts : Good(a)'
      BY <1>4, <3>1 DEF Holds, Jobs
    <3>3. /\ d = "sign" => /\ Stored(k.binding)'
                           /\ media'[k.binding].signer = media[k.binding].signer
                           /\ media'[k.binding].expires = media[k.binding].expires
          /\ k.created => Stored(k.binding)'
      BY <1>3, <3>1 DEF Holds, Attaching
    <3>4. Holds(d, k)'
      BY <1>1, <3>1, <3>2, <3>3 DEF Holds, Ordered, UpToDate
    <3>5. Apart("idle", Idle, d, k)'
      BY DEF Apart, Idle, Attaching, Shows
    <3>6. QED BY <3>4, <3>5
  <2>3. "idle" \in Pcs /\ Types /\ ReplicaInv
    BY DEF IInv, Pcs
  <2>4. QED BY <1>1, <2>1, <2>2, <2>3, IdleJob, ReplicaKeeps
<1>7. RunInv'
  BY <1>1, <1>4 DEF IInv, RunInv, Types, DecisionsCoverTheirArtifacts
<1>8. MediaInv'
  BY <1>3 DEF IInv, MediaInv
<1>9. QED BY <1>5, <1>6, <1>7, <1>8 DEF IInv

\* The run of p gets what p has attached; p goes idle, or goes on to compensate
\* a save that it does not know to have succeeded.
LEMMA StoreKeeps ==
  ASSUME IInv, NEW p \in Replicas, Store(p),
         NEW c \in Pcs, NEW j \in Jobs, Take(p, c, j),
         unanswered' \in {unanswered, unanswered \cup {job[p].binding}},
         \/ c = "idle" /\ j = Idle
         \/ /\ c = "compensate" /\ j = job[p] /\ j.created
            /\ j.binding \in unanswered',
         UNCHANGED <<backend, rings, now, media, overwritten>>
  PROVE  IInv'
<1>s. PICK b, x, A : b = job[p].binding /\ x = job[p].run /\ A = job[p].artifacts
  OBVIOUS
<1>a. /\ pc[p] = "save" /\ b \in Bindings /\ x \in Runs /\ x = RunOf[b]
      /\ A \in SUBSET Artifacts /\ \A a \in A : Good(a) /\ a.media = b
      /\ runs[x].status = "awaiting"
  BY <1>s, ReplicaFacts, BindingAssumption
     DEF Store, Awaiting, Holds, Attaching, Jobs, BindingAssumption
<1>1. /\ runs' \in [Runs -> [status : {"awaiting", "decided"},
                             artifacts : SUBSET Artifacts,
                             approved : SUBSET Artifacts]]
      /\ runs'[x].artifacts = A /\ runs'[x].status = "awaiting"
      /\ \A r \in Runs \ {x} : runs'[r] = runs[r]
  BY <1>a, <1>s DEF Store, IInv, Types
<1>2. \A a : Good(a)' <=> Good(a)
  BY DEF Good, Stored
<1>3. Types'
  BY <1>a, <1>1, <1>s, TakeWrites DEF IInv, Types
<1>4. ReplicaInv'
  <2>1. Holds(c, j)'
    <3>1. CASE c = "idle" /\ j = Idle
      BY <3>1 DEF Holds, Idle, Attaching
    <3>2. CASE c = "compensate" /\ j = job[p] /\ j.created /\ j.binding \in unanswered'
      <4>1. Holds("save", j)
        BY <1>a, <3>2, ReplicaFacts
      <4>2. QED BY <1>2, <3>2, <4>1 DEF Holds, Attaching, Stored
    <3>3. QED BY <3>1, <3>2
  <2>2. ASSUME NEW q \in Replicas \ {p}, NEW d, NEW k, d = pc[q], k = job[q]
        PROVE  Holds(d, k)' /\ Apart(c, j, d, k)'
    <3>1. Holds(d, k) /\ Apart("save", job[p], d, k)
      BY <1>a, <2>2, ReplicaFacts
    <3>2. d \in Attaching => k.binding # b /\ k.run # x
      BY <1>a, <1>s, <3>1 DEF Holds, Apart, Attaching
    <3>3. d \in {"reserve", "sign", "save"} => runs'[k.run] = runs[k.run]
      <4>1. d \in {"reserve", "sign", "save"} => k.run \in Runs
        BY <3>1, BindingAssumption DEF Holds, Attaching, BindingAssumption
      <4>2. QED BY <1>1, <3>2, <4>1 DEF Attaching
    <3>4. k.created => \/ k.binding \in unanswered'
                       \/ \A r \in Runs : ~Shows(runs'[r].artifacts, k.binding)
      BY <1>a, <1>1, <3>1, <3>2 DEF Holds, Attaching, Shows
    <3>5. d \in {"decide", "attach_output"} => backend # "sqlite"
      BY <1>a, <2>2, AloneOnSQLite
    <3>6. Holds(d, k)'
      BY <1>2, <3>1, <3>3, <3>4, <3>5 DEF Holds, Stored, Ordered, UpToDate
    <3>7. Apart(c, j, d, k)'
      BY <1>a, <3>1 DEF Apart, Idle, Attaching, Shows
    <3>8. QED BY <3>6, <3>7
  <2>3. Types /\ ReplicaInv /\ Serving(p) /\ unanswered \subseteq unanswered'
    BY <1>a, ReplicaFacts DEF IInv
  <2>4. QED BY <2>1, <2>2, <2>3, ReplicaKeeps
<1>5. RunInv'
  BY <1>a, <1>1, <1>2 DEF IInv, RunInv, DecisionsCoverTheirArtifacts
<1>6. MediaInv'
  BY DEF IInv, MediaInv, Stored
<1>7. QED BY <1>3, <1>4, <1>5, <1>6 DEF IInv

LEMMA SaveKeeps ==
  ASSUME IInv, NEW p \in Replicas, Save(p)
  PROVE  IInv'
<1>1. Take(p, "idle", Idle) /\ "idle" \in Pcs /\ Idle \in Jobs
  BY FinishTakes, IdleJob DEF Save, Pcs
<1>2. Store(p) /\ UNCHANGED <<backend, rings, now, media, overwritten>> /\ unanswered' = unanswered
  BY DEF Save
<1>3. QED BY <1>1, <1>2, StoreKeeps

LEMMA SaveUnansweredKeeps ==
  ASSUME IInv, NEW p \in Replicas, SaveUnanswered(p)
  PROVE  IInv'
<1>1. /\ Store(p) /\ Compensated(p) /\ pc[p] = "save" /\ UNCHANGED <<backend, rings, now, media, overwritten>>
      /\ unanswered' = unanswered \cup {job[p].binding}
  BY DEF SaveUnanswered, Store
<1>2. CASE Finish(p)
  <2>1. Take(p, "idle", Idle) /\ "idle" \in Pcs /\ Idle \in Jobs
    BY <1>2, FinishTakes, IdleJob DEF Pcs
  <2>2. QED BY <1>1, <2>1, StoreKeeps
<1>3. CASE ~Finish(p)
  <2>1. Take(p, "compensate", job[p]) /\ job[p].created
    BY <1>1, <1>3, GotoTakes DEF Compensated, Owns, IInv
  <2>2. "compensate" \in Pcs /\ job[p] \in Jobs
    BY ReplicaFacts DEF Pcs
  <2>s. PICK j : j = job[p]
    OBVIOUS
  <2>3. j \in Jobs /\ j.created /\ j.binding \in unanswered' /\ Take(p, "compensate", j)
    BY <1>1, <2>1, <2>2, <2>s
  <2>4. QED BY <1>1, <2>2, <2>3, <2>s, StoreKeeps
<1>4. QED BY <1>2, <1>3

LEMMA SaveDecisionKeeps ==
  ASSUME IInv, NEW p \in Replicas, SaveDecision(p)
  PROVE  IInv'
<1>1. CASE ~Awaiting(p)
  <2>1. Finish(p) /\ UNCHANGED <<store, rings, now>>
    BY <1>1 DEF SaveDecision, store
  <2>2. QED BY <2>1, FinishKeeps
<1>2. CASE Awaiting(p)
  <2>s. PICK x, A : x = job[p].run /\ A = job[p].artifacts
    OBVIOUS
  <2>a. /\ pc[p] = "decide" /\ x \in Runs /\ A \in SUBSET Artifacts
        /\ \A a \in A : Good(a)
    BY <2>s, ReplicaFacts DEF SaveDecision, Holds, Jobs
  <2>1. /\ runs' = [runs EXCEPT ![x] = Decided(p)]
        /\ Decided(p) = [status |-> "decided", artifacts |-> A, approved |-> A]
        /\ Take(p, "idle", Idle)
        /\ UNCHANGED <<backend, rings, now, media, history>>
    BY <1>2, <2>s, FinishTakes DEF SaveDecision, Decided
  <2>2. /\ runs' \in [Runs -> [status : {"awaiting", "decided"},
                               artifacts : SUBSET Artifacts,
                               approved : SUBSET Artifacts]]
        /\ runs'[x].artifacts = A /\ runs'[x].status = "decided"
        /\ runs'[x].approved = A
        /\ \A r \in Runs \ {x} : runs'[r] = runs[r]
    BY <2>a, <2>1 DEF IInv, Types
  <2>3. \A a : Good(a)' <=> Good(a)
    BY <2>1 DEF Good, Stored
  <2>4. Types'
    BY <2>1, <2>2, IdleJob, TakeWrites DEF IInv, Types, Pcs
  <2>5. ReplicaInv'
    <3>1. Holds("idle", Idle)'
      BY DEF Holds, Idle, Attaching
    <3>2. ASSUME NEW q \in Replicas \ {p}, NEW d, NEW k, d = pc[q], k = job[q]
          PROVE  Holds(d, k)' /\ Apart("idle", Idle, d, k)'
      <4>1. Holds(d, k) /\ Apart("decide", job[p], d, k)
        BY <2>a, <3>2, ReplicaFacts
      <4>2. (/\ d \in {"reserve", "sign", "save", "decide", "attach_output"}
             /\ runs'[k.run].status = "awaiting")
                => runs'[k.run] = runs[k.run]
        <5>1. d \in {"reserve", "sign", "save", "decide", "attach_output"}
                  => k.run \in Runs
          BY <4>1, BindingAssumption DEF Holds, Attaching, BindingAssumption
        <5>2. QED BY <2>2, <5>1
      <4>3. k.created => \/ k.binding \in unanswered'
                         \/ \A r \in Runs : ~Shows(runs'[r].artifacts, k.binding)
        BY <2>1, <2>2, <2>s, <4>1 DEF Holds, Apart
      <4>4. Holds(d, k)'
        BY <2>1, <2>3, <4>1, <4>2, <4>3 DEF Holds, Stored, Ordered, UpToDate
      <4>5. Apart("idle", Idle, d, k)'
        BY DEF Apart, Idle, Attaching, Shows
      <4>6. QED BY <4>4, <4>5
    <3>3. "idle" \in Pcs /\ Types /\ ReplicaInv
      BY DEF IInv, Pcs
    <3>4. QED BY <2>1, <3>1, <3>2, <3>3, IdleJob, ReplicaKeeps
  <2>6. RunInv'
    BY <2>a, <2>2, <2>3 DEF IInv, RunInv, DecisionsCoverTheirArtifacts
  <2>7. MediaInv'
    BY <2>1 DEF IInv, MediaInv, Stored
  <2>8. QED BY <2>4, <2>5, <2>6, <2>7 DEF IInv
<1>3. QED BY <1>1, <1>2

LEMMA SaveOutputKeeps ==
  ASSUME IInv, NEW p \in Replicas, SaveOutput(p)
  PROVE  IInv'
<1>1. CASE UNCHANGED <<runs, overwritten>>
  <2>1. Finish(p) /\ UNCHANGED <<store, rings, now>>
    BY <1>1 DEF SaveOutput, store
  <2>2. QED BY <2>1, FinishKeeps
<1>2. CASE Awaiting(p) /\ ~UNCHANGED <<runs, overwritten>>
  <2>s. PICK x, A : x = job[p].run /\ A = job[p].artifacts
    OBVIOUS
  <2>a. /\ pc[p] = "attach_output" /\ x \in Runs /\ A \in SUBSET Artifacts
        /\ (\A a \in A : Good(a)) /\ runs[x].status = "awaiting"
    BY <1>2, <2>s, ReplicaFacts DEF SaveOutput, Awaiting, Holds, Jobs
  <2>1. /\ runs' = [runs EXCEPT ![x].artifacts = A]
        /\ Take(p, "idle", Idle)
        /\ UNCHANGED <<backend, rings, now, media, unanswered>>
        /\ overwritten' = IF A = runs[x].artifacts THEN overwritten
                          ELSE overwritten \cup {x}
    BY <1>2, <2>s, FinishTakes DEF SaveOutput
  <2>2. /\ runs' \in [Runs -> [status : {"awaiting", "decided"},
                               artifacts : SUBSET Artifacts,
                               approved : SUBSET Artifacts]]
        /\ runs'[x].artifacts = A /\ runs'[x].status = "awaiting"
        /\ \A r \in Runs \ {x} : runs'[r] = runs[r]
    BY <2>a, <2>1 DEF IInv, Types
  <2>3. \A a : Good(a)' <=> Good(a)
    BY <2>1 DEF Good, Stored
  <2>4. Types'
    BY <2>1, <2>2, IdleJob, TakeWrites DEF IInv, Types, Pcs
  <2>5. ReplicaInv'
    <3>1. Holds("idle", Idle)'
      BY DEF Holds, Idle, Attaching
    <3>2. ASSUME NEW q \in Replicas \ {p}, NEW d, NEW k, d = pc[q], k = job[q]
          PROVE  Holds(d, k)' /\ Apart("idle", Idle, d, k)'
      <4>1. Holds(d, k) /\ Apart("attach_output", job[p], d, k)
        BY <2>a, <3>2, ReplicaFacts
      <4>2. d # "idle" => backend # "sqlite"
        BY <2>a, <3>2, AloneOnSQLite
      <4>u. d \in {"reserve", "sign", "save"} /\ Ordered(k)' => UpToDate(k)'
        <5>1. d \in {"reserve", "sign", "save"} => k.run \in Runs
          BY <4>1, BindingAssumption DEF Holds, Attaching, BindingAssumption
        <5>2. CASE d \in {"reserve", "sign", "save"} /\ Ordered(k)'
          <6>1. k.run \notin overwritten' /\ k.run \notin overwritten
            BY <2>1, <4>2, <5>2 DEF Ordered
          <6>2. runs'[k.run] = runs[k.run]
            <7>1. CASE k.run = x
              BY <2>a, <2>1, <6>1, <7>1 DEF IInv, Types
            <7>2. CASE k.run # x
              BY <2>2, <5>1, <5>2, <7>2
            <7>3. QED BY <7>1, <7>2
          <6>3. UpToDate(k)
            BY <4>1, <5>2, <6>1 DEF Holds, Ordered
          <6>4. QED BY <6>2, <6>3 DEF UpToDate
        <5>3. QED BY <5>2
      <4>3. k.created => \/ k.binding \in unanswered'
                         \/ \A r \in Runs : ~Shows(runs'[r].artifacts, k.binding)
        BY <2>1, <2>2, <2>s, <4>1 DEF Holds, Apart
      <4>4. Holds(d, k)'
        BY <2>1, <2>3, <4>1, <4>2, <4>3, <4>u DEF Holds, Stored
      <4>5. Apart("idle", Idle, d, k)'
        BY DEF Apart, Idle, Attaching, Shows
      <4>6. QED BY <4>4, <4>5
    <3>3. "idle" \in Pcs /\ Types /\ ReplicaInv
      BY DEF IInv, Pcs
    <3>4. QED BY <2>1, <3>1, <3>2, <3>3, IdleJob, ReplicaKeeps
  <2>6. RunInv'
    BY <2>a, <2>2, <2>3 DEF IInv, RunInv, DecisionsCoverTheirArtifacts
  <2>7. MediaInv'
    BY <2>1 DEF IInv, MediaInv, Stored
  <2>8. QED BY <2>4, <2>5, <2>6, <2>7 DEF IInv
<1>3. QED BY <1>1, <1>2 DEF SaveOutput

-------------------------------------------------------------------------------
(* The installation, and the theorems. *)

LEMMA CrashKeeps ==
  ASSUME IInv, NEW p \in Replicas, Crash(p)
  PROVE  IInv'
<1>1. rings' \in [Replicas -> Accepted]
  BY DEF Crash, IInv, Types
<1>2. Finish(p) /\ UNCHANGED <<store, now>>
  BY DEF Crash, store
<1>3. QED BY <1>1, <1>2, FinishMoves, MoveKeeps, Still

\* The clock, and steps that change nothing.
LEMMA StillKeeps ==
  ASSUME IInv, now' \in Nat, UNCHANGED <<store, rings, commands>>
  PROVE  IInv'
<1> USE DEF store, commands
<1>1. Types'
  BY DEF IInv, Types
<1>2. \A a : Good(a)' <=> Good(a)
  BY DEF Good, Stored
<1>3. ReplicaInv'
  <2>1. ASSUME NEW p \in Replicas PROVE Holds(pc[p], job[p])'
    BY <1>2 DEF IInv, ReplicaInv, Holds, Stored, Ordered, UpToDate
  <2>2. ASSUME NEW p \in Replicas, NEW q \in Replicas, p # q
        PROVE  Apart(pc[p], job[p], pc[q], job[q])'
    BY <2>2 DEF IInv, ReplicaInv, Apart
  <2>3. ASSUME NEW p \in Replicas PROVE pc'[p] # "idle" => Serving(p)'
    BY DEF IInv, ReplicaInv, Serving
  <2>4. QED BY <2>1, <2>2, <2>3 DEF ReplicaInv
<1>4. RunInv' /\ MediaInv'
  BY <1>2 DEF IInv, RunInv, DecisionsCoverTheirArtifacts, MediaInv, Stored
<1>5. QED BY <1>1, <1>3, <1>4 DEF IInv

LEMMA Initially == Init => IInv
<1> SUFFICES ASSUME Init PROVE IInv
  OBVIOUS
<1>1. Types
  BY IdleJob DEF Init, Types, Pcs
<1>2. ReplicaInv
  <2>1. Apart("idle", Idle, "idle", Idle)
    BY DEF Apart, Idle, Attaching
  <2>2. QED BY <2>1, IdleHolds DEF Init, ReplicaInv
<1>3. RunInv /\ MediaInv
  BY DEF Init, RunInv, DecisionsCoverTheirArtifacts, MediaInv, Stored
<1>4. QED BY <1>1, <1>2, <1>3 DEF IInv

LEMMA Step == IInv /\ [Next]_vars => IInv'
<1> SUFFICES ASSUME IInv, [Next]_vars PROVE IInv'
  OBVIOUS
<1>1. CASE UNCHANGED vars
  <2>1. now' \in Nat /\ UNCHANGED <<store, rings, commands>>
    BY <1>1 DEF vars, store, IInv, Types
  <2>2. QED BY <2>1, StillKeeps
<1>2. CASE Tick
  <2>1. now' \in Nat /\ UNCHANGED <<store, rings, commands>>
    BY <1>2 DEF Tick, store, IInv, Types
  <2>2. QED BY <2>1, StillKeeps
<1>3. ASSUME NEW p \in Replicas, NEW k \in Keys, NEW b \in Bindings, Attach(p, k, b)
      PROVE  IInv'
  BY <1>3, AttachKeeps
<1>4. ASSUME NEW p \in Replicas, NEW r \in Runs, Decide(p, r)
      PROVE  IInv'
  BY <1>4, DecideKeeps
<1>5. ASSUME NEW p \in Replicas, NEW r \in Runs, AttachOutput(p, r)
      PROVE  IInv'
  BY <1>5, AttachOutputKeeps
<1>6. ASSUME NEW p \in Replicas,
             \/ Replay(p) \/ Read(p) \/ Insert(p) \/ Reuse(p) \/ Sign(p) \/ Save(p)
             \/ SaveFails(p) \/ SaveUnanswered(p) \/ Compensate(p)
             \/ CompensationFails(p) \/ SaveDecision(p) \/ SaveOutput(p) \/ Crash(p)
      PROVE  IInv'
  <2>1. CompensationFails(p) => IInv'
    BY FinishKeeps DEF CompensationFails, store
  <2>2. QED
    BY <1>6, <2>1, ReplayKeeps, ReadKeeps, InsertKeeps, ReuseKeeps, SignKeeps,
       SaveKeeps, SaveFailsKeeps, SaveUnansweredKeeps, CompensateKeeps,
       SaveDecisionKeeps, SaveOutputKeeps, CrashKeeps
<1>7. QED BY <1>1, <1>2, <1>3, <1>4, <1>5, <1>6 DEF Next

\* The invariant holds in every reachable state, for every value of the
\* constants.
THEOREM Invariant == Spec => []IInv
  BY Initially, Step, PTL DEF Spec

\* The address that a run carries is the one of the durable row of its image,
\* and is answered while the row lives, whatever retries, crashes and rotations
\* of the signing key came between the reservation and the save.
THEOREM AddressesResolve == Spec => []AttachedAddressesResolve
<1>1. IInv => AttachedAddressesResolve
  <2> SUFFICES ASSUME IInv, NEW r \in Runs, NEW a \in runs[r].artifacts
               PROVE  /\ media[a.media] # None
                      /\ Live(media[a.media]) => Resolves(Token(a))
    BY DEF AttachedAddressesResolve
  <2>1. a \in Artifacts /\ Good(a)
    BY DEF IInv, Types, RunInv
  <2>2. a.media \in Bindings /\ Stored(a.media) /\ media[a.media].media = a.media
    BY <2>1 DEF Artifacts, Good, IInv, MediaInv
  <2>3. Token(media[a.media]) = Token(a)
    BY <2>1, <2>2 DEF Good, Token
  <2>4. QED BY <2>2, <2>3 DEF Resolves, Stored
<1>2. QED BY <1>1, Invariant, PTL

\* A decision lists exactly the images its run carries.
THEOREM DecisionsCover == Spec => []DecisionsCoverTheirArtifacts
<1>1. IInv => DecisionsCoverTheirArtifacts
  BY DEF IInv, RunInv
<1>2. QED BY <1>1, Invariant, PTL

\* No attachment drops an image that was attached, unless an output was saved
\* over the images of its run, and nothing undoes a decision; on SQLite no command
\* drops one, and on PostgreSQL only a decision or the save of such an output.
THEOREM AttachmentsStay == Spec => OnlyOverlapsDropAttachments
<1>1. ASSUME IInv, [Next]_vars, NEW r \in Runs
      PROVE  /\ runs[r].status = "decided" => runs'[r] = runs[r]
             /\ \/ runs[r].artifacts \subseteq runs'[r].artifacts
                \/ /\ backend = "postgresql"
                   /\ runs'[r].status = "decided" \/ r \in overwritten'
  <2>b. backend \in {"sqlite", "postgresql"}
    BY <1>1 DEF IInv, Types
  <2>1. CASE runs' = runs
    BY <2>1
  <2>2. CASE \E p \in Replicas : Save(p) \/ SaveUnanswered(p)
    <3>1. PICK p \in Replicas : Save(p) \/ SaveUnanswered(p)
      BY <2>2
    <3>2. Holds("save", job[p]) /\ job[p] \in Jobs /\ pc[p] = "save"
      BY <1>1, <3>1, ReplicaFacts DEF Save, SaveUnanswered, Store
    <3>3. /\ job[p].run \in Runs /\ runs[job[p].run].status = "awaiting"
          /\ Ordered(job[p]) => runs[job[p].run].artifacts \subseteq job[p].artifacts
      BY <3>1, <3>2, BindingAssumption
         DEF Holds, UpToDate, Attaching, Save, SaveUnanswered, Store, Awaiting,
             BindingAssumption
    <3>4. /\ runs' = [runs EXCEPT ![job[p].run].artifacts = job[p].artifacts]
          /\ overwritten' = overwritten
      BY <3>1 DEF Save, SaveUnanswered, Store
    <3>5. QED BY <1>1, <2>b, <3>3, <3>4 DEF IInv, Types, Ordered
  <2>3. CASE \E p \in Replicas : SaveDecision(p)
    <3>1. PICK p \in Replicas : SaveDecision(p)
      BY <2>3
    <3>2. /\ job[p].run \in Runs
          /\ backend = "sqlite" => UpToDate(job[p])
      BY <1>1, <3>1, ReplicaFacts DEF SaveDecision, Holds
    <3>3. \/ runs' = runs
          \/ /\ runs[job[p].run].status = "awaiting"
             /\ runs' = [runs EXCEPT ![job[p].run] = Decided(p)]
      BY <3>1 DEF SaveDecision, Awaiting
    <3>4. QED BY <1>1, <2>b, <3>2, <3>3 DEF IInv, Types, Decided, UpToDate
  <2>4. CASE \E p \in Replicas : SaveOutput(p)
    <3>1. PICK p \in Replicas : SaveOutput(p)
      BY <2>4
    <3>2. /\ job[p].run \in Runs
          /\ backend = "sqlite" => UpToDate(job[p])
      BY <1>1, <3>1, ReplicaFacts DEF SaveOutput, Holds
    <3>3. \/ runs' = runs
          \/ /\ runs[job[p].run].status = "awaiting"
             /\ runs' = [runs EXCEPT ![job[p].run].artifacts = job[p].artifacts]
             /\ overwritten' = IF job[p].artifacts = runs[job[p].run].artifacts
                               THEN overwritten ELSE overwritten \cup {job[p].run}
      BY <3>1 DEF SaveOutput, Awaiting
    <3>4. QED BY <1>1, <2>b, <3>2, <3>3 DEF IInv, Types, UpToDate
  <2>5. QED
    BY <1>1, <2>1, <2>2, <2>3, <2>4
       DEF Next, vars, Attach, Decide, AttachOutput, Replay, Read, Insert, Reuse, Sign,
           SaveFails, Compensate, CompensationFails, Crash, Tick
<1>2. IInv /\ [Next]_vars =>
        [\A r \in Runs : /\ runs[r].status = "decided" => runs'[r] = runs[r]
                         /\ \/ runs[r].artifacts \subseteq runs'[r].artifacts
                            \/ /\ backend = "postgresql"
                               /\ runs'[r].status = "decided" \/ r \in overwritten']_vars
  BY <1>1
<1>3. QED BY <1>2, Invariant, PTL DEF Spec, OnlyOverlapsDropAttachments

\* A compensation takes no image away from a run that carries it, unless the
\* save had succeeded without an answer.
THEOREM CompensationSpares == Spec => CompensationSparesAttached
<1>1. ASSUME IInv, [Next]_vars, NEW r \in Runs, NEW a \in runs[r].artifacts,
             media'[a.media].revoked, ~media[a.media].revoked
      PROVE  a.media \in unanswered
  <2>1. a \in Artifacts /\ a.media \in Bindings /\ Stored(a.media)
    BY <1>1 DEF IInv, Types, RunInv, Good, Artifacts
  <2>2. PICK p \in Replicas : Insert(p) \/ Compensate(p)
    <3>1. media' # media
      BY <1>1
    <3>2. QED
      BY <1>1, <3>1
         DEF Next, vars, Attach, Decide, Replay, Read, Reuse, Sign, Save, Store,
             SaveFails, SaveUnanswered, CompensationFails, SaveDecision, AttachOutput,
             SaveOutput, Crash, Tick
  <2>3. CASE Insert(p)
    <3>1. /\ job[p].binding \in Bindings
          /\ media' \in {media, [media EXCEPT ![job[p].binding] = job[p].row]}
          /\ ~Stored(job[p].binding)
      BY <1>1, <2>3, ReplicaFacts DEF Insert, Found, Stored, Holds, Attaching
    <3>2. media'[a.media] = media[a.media]
      BY <1>1, <2>1, <3>1 DEF IInv, Types
    <3>3. QED BY <1>1, <3>2
  <2>4. CASE Compensate(p)
    <3>1. media' = [media EXCEPT ![job[p].binding].revoked = TRUE] /\ pc[p] = "compensate"
      BY <2>4 DEF Compensate
    <3>2. a.media = job[p].binding
      BY <1>1, <2>1, <3>1 DEF IInv, Types
    <3>3. job[p].binding \in unanswered \/ ~Shows(runs[r].artifacts, job[p].binding)
      BY <1>1, <3>1, ReplicaFacts DEF Holds
    <3>4. QED BY <3>2, <3>3 DEF Shows
  <2>5. QED BY <2>2, <2>3, <2>4
<1>2. IInv /\ [Next]_vars =>
        [\A r \in Runs : \A a \in runs[r].artifacts :
            (media'[a.media].revoked /\ ~media[a.media].revoked)
                => a.media \in unanswered]_vars
  BY <1>1
<1>3. QED BY <1>2, Invariant, PTL DEF Spec, CompensationSparesAttached

================================================================================
