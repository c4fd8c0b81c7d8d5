--------------------------- MODULE SocialOAuthProofs ---------------------------
(***************************************************************************)
(* Proofs about SocialOAuth, for every number of sessions, tenants,        *)
(* threads, keys and authorizations, on both backends, with restarts.      *)
(*                                                                         *)
(* IInv is the inductive invariant: what each thread may rely on (Holds),  *)
(* what two threads never share (Apart), and what holds of the rows.  Its  *)
(* core is that a row, once consumed, stays: only rows that are not        *)
(* consumed are deleted, and a transaction that has deleted one holds its  *)
(* lock until it commits.                                                  *)
(***************************************************************************)
EXTENDS SocialOAuth, FiniteSetTheorems, TLAPS

Pcs == {"idle", "request_token", "create", "insert", "tell_start", "consume",
        "decrypt", "exchange", "extend", "upsert", "tell_connected", "delete",
        "tell_disconnected"}

Jobs == [session : Sessions \cup {None}, channel : Channels \cup {None},
         id : Nat, doomed : SUBSET Authorizations, clock : Nat,
         older : SUBSET Authorizations]

Types ==
    /\ environment \subseteq Tenants \X Channels
    /\ keyring \in Accepted
    /\ now \in Nat
    /\ last \in Nat
    /\ last <= MaxStarts
    /\ states \in [Authorizations -> StateRows \cup {None}]
    /\ connections \in [Tenants \X Channels -> ConnectionRows \cup {None}]
    /\ pc \in [Requests -> Pcs]
    /\ job \in [Requests -> Jobs]
    /\ disconnected \in Nat
    /\ deletions \in Nat
    /\ exchanges \in [Authorizations -> Nat]
    /\ superseded \subseteq Authorizations
    /\ consumers \in [Authorizations -> Sessions \cup {None}]

Used(i) == Row(i) /\ states[i].consumed

\* No callback can consume the authorization i any more.
Spent(i) == Row(i) => states[i].consumed

\* Program counters of a callback that has consumed its state, before it has
\* sent it to the provider, and until the connection is stored.
Sending == {"decrypt", "exchange"}
Completing == Sending \cup {"extend", "upsert"}

\* What a thread at c with the job j may rely on.
Holds(c, j) ==
    /\ c # "idle" => j.session \in Sessions /\ j.channel \in Channels
    /\ c \in Completing \cup {"consume", "insert"} => j.id \in Authorizations
    /\ j.doomed # {} => c = "insert"
    /\ \A i \in j.doomed : Row(i) /\ ~states[i].consumed
    /\ c = "insert" => /\ backend = "postgresql"
                       /\ j.id <= last /\ ~Row(j.id)
                       /\ j.id \notin j.older /\ j.id \notin superseded
    /\ c \in Completing => /\ Used(j.id)
                           /\ states[j.id].session = j.session
                           /\ states[j.id].channel = j.channel
    /\ c \in Sending => exchanges[j.id] = 0
    /\ c = "tell_connected" => j.id \in stored
    /\ \A i \in j.older :
          /\ i <= last
          /\ \/ Spent(i)
             \/ i \in j.doomed
             \/ /\ c \in {"request_token", "create"}
                /\ states[i].session = j.session
                /\ states[i].channel = j.channel

\* What two threads, at c with the job j and at d with the job k, never share.
Apart(c, j, d, k) ==
    /\ j.doomed \cap k.doomed = {}
    /\ c = "insert" /\ d = "insert" => j.id # k.id
    /\ c \in Sending /\ d \in Sending => j.id # k.id
    /\ d = "insert" => k.id \notin j.older
    /\ c = "insert" => j.id \notin k.older

ThreadInv ==
    /\ \A r \in Requests : Holds(pc[r], job[r])
    /\ \A p, q \in Requests : p # q => Apart(pc[p], job[p], pc[q], job[q])

\* Only what was consumed was sent to the provider, and the session that
\* consumed it is the one that started it.
StateInv ==
    /\ \A i \in Authorizations :
         /\ i > last => ~Row(i)
         /\ exchanges[i] <= 1
         /\ exchanges[i] = 1 => Used(i)
         /\ Used(i) => consumers[i] = states[i].session
    /\ \A i \in superseded : i <= last /\ Spent(i)

\* A connection is the one that a consumed authorization has asked for.
ConnectionInv ==
    \A a \in Tenants \X Channels :
        LET row == connections[a] IN
        row # None /\ row.id > 0 =>
            /\ row.id \in Authorizations
            /\ Used(row.id)
            /\ a = <<TenantOf[states[row.id].session], states[row.id].channel>>

\* Threads that have deleted a connection and not told it yet.
Tellers == {r \in Requests : pc[r] = "tell_disconnected"}

EventInv ==
    /\ connected \subseteq stored
    /\ disconnected + Cardinality(Tellers) <= deletions

IInv == Types /\ ThreadInv /\ StateInv /\ ConnectionInv /\ EventInv

-------------------------------------------------------------------------------
(* The threads. *)

\* Take writes the program counter and the job of one thread.
Take(r, c, j) ==
    /\ pc' = [pc EXCEPT ![r] = c]
    /\ job' = [job EXCEPT ![r] = j]

LEMMA TakeWrites ==
  ASSUME Types, NEW r \in Requests, NEW c \in Pcs, NEW j \in Jobs, Take(r, c, j)
  PROVE  /\ pc' \in [Requests -> Pcs] /\ job' \in [Requests -> Jobs]
         /\ pc'[r] = c /\ job'[r] = j
         /\ \A q \in Requests \ {r} : pc'[q] = pc[q] /\ job'[q] = job[q]
  BY DEF Types, Take

LEMMA IdleJob == Idle \in Jobs
  BY DEF Idle, Jobs

LEMMA FinishTakes ==
  ASSUME NEW r \in Requests, Finish(r)
  PROVE  Take(r, "idle", Idle)
  BY DEF Finish, Take, Goto

LEMMA GotoTakes ==
  ASSUME Types, NEW r \in Requests, NEW c, Goto(r, c), UNCHANGED job
  PROVE  Take(r, c, job[r])
  BY DEF Goto, Take, Types

LEMMA IdleHolds == Holds("idle", Idle)
  BY DEF Holds, Idle, Completing, Sending

\* An idle thread shares nothing with any other.
LEMMA IdleApart ==
  ASSUME NEW d, NEW k
  PROVE  Apart("idle", Idle, d, k) /\ Apart(d, k, "idle", Idle)
  BY DEF Apart, Idle, Sending

LEMMA ApartSymmetric ==
  ASSUME NEW c, NEW j, NEW d, NEW k, Apart(c, j, d, k)
  PROVE  Apart(d, k, c, j)
  BY DEF Apart

\* A step of r keeps the promises to all threads when it keeps those of the
\* place r goes to, and those to every other thread q, which stays at (d, k).
LEMMA ThreadKeeps ==
  ASSUME Types, ThreadInv,
         NEW r \in Requests, NEW c \in Pcs, NEW j \in Jobs, Take(r, c, j),
         Holds(c, j)',
         \A q \in Requests \ {r} : \A d, k :
             d = pc[q] /\ k = job[q] => Holds(d, k)' /\ Apart(c, j, d, k)
  PROVE  ThreadInv'
<1>1. ASSUME NEW q \in Requests PROVE Holds(pc[q], job[q])'
  <2>1. CASE q = r
    BY <2>1, TakeWrites DEF Holds
  <2>2. CASE q # r
    <3>1. \A d, k : d = pc[q] /\ k = job[q] => Holds(d, k)'
      BY <2>2
    <3>2. pc'[q] = pc[q] /\ job'[q] = job[q]
      BY <2>2, TakeWrites
    <3>3. QED BY <3>1, <3>2 DEF Holds
  <2>3. QED BY <2>1, <2>2
<1>2. ASSUME NEW p \in Requests, NEW q \in Requests, p # q
      PROVE  Apart(pc[p], job[p], pc[q], job[q])'
  <2>1. \A s \in Requests \ {r} : Apart(c, j, pc[s], job[s]) /\ Apart(pc[s], job[s], c, j)
    BY ApartSymmetric
  <2>2. CASE p = r
    BY <1>2, <2>1, <2>2, TakeWrites DEF Apart
  <2>3. CASE q = r
    BY <1>2, <2>1, <2>3, TakeWrites DEF Apart
  <2>4. CASE p # r /\ q # r
    <3>1. Apart(pc[p], job[p], pc[q], job[q])
      BY <1>2 DEF ThreadInv
    <3>2. pc'[p] = pc[p] /\ job'[p] = job[p] /\ pc'[q] = pc[q] /\ job'[q] = job[q]
      BY <2>4, TakeWrites
    <3>3. QED BY <3>1, <3>2 DEF Apart
  <2>5. QED BY <2>2, <2>3, <2>4
<1>3. QED BY <1>1, <1>2 DEF ThreadInv

\* The threads that tell a deletion, after a step of r.
LEMMA TellersFinite == RequestAssumption => IsFiniteSet(Tellers)
  BY FS_Subset DEF Tellers, RequestAssumption

LEMMA TellersSame ==
  ASSUME Types, NEW r \in Requests, NEW c \in Pcs, NEW j \in Jobs, Take(r, c, j),
         pc[r] # "tell_disconnected", c # "tell_disconnected"
  PROVE  Tellers' = Tellers
  BY TakeWrites DEF Tellers

-------------------------------------------------------------------------------
(* Steps that move a thread and change neither rows nor counters. *)

rowsAndGhosts == <<external, last, states, connections, connected, disconnected,
                   ghosts>>

Moves(r, c, j) ==
    /\ Take(r, c, j)
    /\ c \in Pcs /\ j \in Jobs
    /\ Holds(c, j)
    /\ \A q \in Requests \ {r} : Apart(c, j, pc[q], job[q])
    /\ pc[r] # "tell_disconnected" /\ c # "tell_disconnected"

LEMMA MoveKeeps ==
  ASSUME IInv, NEW r \in Requests, NEW c, NEW j, Moves(r, c, j),
         UNCHANGED rowsAndGhosts, UNCHANGED <<keyring, now>>
  PROVE  IInv'
<1> USE DEF rowsAndGhosts, external, ghosts
<1>1. Types'
  BY TakeWrites DEF IInv, Types, Moves
<1>2. ThreadInv'
  <2>1. Holds(c, j)'
    BY DEF Moves, Holds, Used, Spent, Row
  <2>2. ASSUME NEW q \in Requests \ {r}, NEW d, NEW k, d = pc[q], k = job[q]
        PROVE  Holds(d, k)' /\ Apart(c, j, d, k)
    <3>1. Holds(d, k)
      BY <2>2 DEF IInv, ThreadInv
    <3>2. Holds(d, k)'
      BY <3>1 DEF Holds, Used, Spent, Row
    <3>3. QED BY <2>2, <3>2 DEF Moves
  <2>3. QED BY <2>1, <2>2, ThreadKeeps DEF IInv, Moves
<1>3. StateInv' /\ ConnectionInv'
  BY DEF IInv, StateInv, ConnectionInv, Used, Spent, Row
<1>4. EventInv'
  <2>1. Tellers' = Tellers
    BY TellersSame DEF Moves, IInv
  <2>2. QED BY <2>1 DEF IInv, EventInv
<1>5. QED BY <1>1, <1>2, <1>3, <1>4 DEF IInv

\* Going idle needs nothing.
LEMMA FinishMoves ==
  ASSUME NEW r \in Requests, Finish(r), pc[r] # "tell_disconnected"
  PROVE  Moves(r, "idle", Idle)
  BY FinishTakes, IdleJob, IdleHolds, IdleApart DEF Moves, Pcs

\* The rows that no thread is about to delete and insert stay apart from a job
\* that dooms none.
LEMMA QuietApart ==
  ASSUME NEW c, NEW j, NEW d, NEW k, j.doomed = {}, c # "insert", c \notin Sending,
         d = "insert" => k.id \notin j.older
  PROVE  Apart(c, j, d, k)
  BY DEF Apart

LEMMA StartKeeps ==
  ASSUME IInv, NEW r \in Requests, NEW s \in Sessions, NEW c \in Channels,
         Start(r, s, c)
  PROVE  IInv'
<1> DEFINE j == [Idle EXCEPT !.session = s, !.channel = c, !.older = Pending(s, c)]
           d == IF c = "x" THEN "request_token" ELSE "create"
<1>1. Take(r, d, j) /\ pc[r] = "idle"
  BY DEF Start, Take, Goto
<1>2. /\ j \in Jobs /\ j.session = s /\ j.channel = c /\ j.doomed = {}
      /\ j.older = Pending(s, c)
  BY DEF Idle, Jobs, Pending
<1>3. d \in {"request_token", "create"}
  OBVIOUS
<1> HIDE DEF d, j
<1>4. \A i \in Pending(s, c) : /\ Row(i) /\ i <= last
                               /\ states[i].session = s /\ states[i].channel = c
  BY DEF Pending, Row, IInv, Types, StateInv, Authorizations
<1>5. Holds(d, j)
  BY <1>2, <1>3, <1>4 DEF Holds, Completing, Sending
<1>6. ASSUME NEW q \in Requests \ {r} PROVE Apart(d, j, pc[q], job[q])
  <2>1. pc[q] = "insert" => ~Row(job[q].id)
    BY DEF IInv, ThreadInv, Holds
  <2>2. pc[q] = "insert" => job[q].id \notin j.older
    BY <1>2, <1>4, <2>1
  <2>3. QED BY <1>2, <1>3, <2>2, QuietApart DEF Sending
<1>7. Moves(r, d, j)
  BY <1>1, <1>2, <1>3, <1>5, <1>6 DEF Moves, Pcs
<1>8. UNCHANGED rowsAndGhosts /\ UNCHANGED <<keyring, now>>
  BY DEF Start, rowsAndGhosts, tables, events
<1>9. QED BY <1>7, <1>8, MoveKeeps

LEMMA RequestTokenKeeps ==
  ASSUME IInv, NEW r \in Requests, RequestToken(r)
  PROVE  IInv'
<1>1. Take(r, "create", job[r]) /\ pc[r] = "request_token"
  BY GotoTakes DEF RequestToken, IInv
<1>2. job[r] \in Jobs
  BY DEF IInv, Types
<1>3. Holds("create", job[r])
  BY <1>1 DEF IInv, ThreadInv, Holds, Completing, Sending
<1>4. \A q \in Requests \ {r} : Apart("create", job[r], pc[q], job[q])
  BY <1>1 DEF IInv, ThreadInv, Apart, Sending
<1>5. Moves(r, "create", job[r])
  BY <1>1, <1>2, <1>3, <1>4 DEF Moves, Pcs
<1>6. UNCHANGED rowsAndGhosts /\ UNCHANGED <<keyring, now>>
  BY DEF RequestToken, rowsAndGhosts, tables, events
<1>7. QED BY <1>5, <1>6, MoveKeeps

LEMMA CallbackKeeps ==
  ASSUME IInv, NEW r \in Requests, NEW s \in Sessions, NEW i \in Authorizations,
         Callback(r, s, i)
  PROVE  IInv'
<1>1. PICK c \in Channels :
        Take(r, "consume",
             [Idle EXCEPT !.session = s, !.channel = c, !.id = i, !.clock = now])
  BY DEF Callback, Take, Goto
<1> DEFINE j == [Idle EXCEPT !.session = s, !.channel = c, !.id = i, !.clock = now]
<1>2. /\ j \in Jobs /\ j.session = s /\ j.channel = c /\ j.doomed = {}
      /\ j.older = {} /\ j.id = i
  <2>1. now \in Nat /\ i \in Nat
    BY DEF IInv, Types, Authorizations
  <2>2. QED BY <2>1 DEF Idle, Jobs
<1> HIDE DEF j
<1>3. Holds("consume", j)
  BY <1>2 DEF Holds, Completing, Sending
<1>4. \A q \in Requests \ {r} : Apart("consume", j, pc[q], job[q])
  BY <1>2, QuietApart DEF Sending
<1>5. Moves(r, "consume", j)
  BY <1>1, <1>2, <1>3, <1>4 DEF Moves, Pcs, Callback, j
<1>6. UNCHANGED rowsAndGhosts /\ UNCHANGED <<keyring, now>>
  BY DEF Callback, rowsAndGhosts, tables, events
<1>7. QED BY <1>5, <1>6, MoveKeeps

LEMMA DecryptKeeps ==
  ASSUME IInv, NEW r \in Requests, Decrypt(r)
  PROVE  IInv'
<1>1. UNCHANGED rowsAndGhosts /\ UNCHANGED <<keyring, now>> /\ pc[r] = "decrypt"
  BY DEF Decrypt, rowsAndGhosts, tables, events
<1>2. CASE Finish(r)
  BY <1>1, <1>2, FinishMoves, MoveKeeps
<1>3. CASE Goto(r, "exchange") /\ UNCHANGED job
  <2>1. Take(r, "exchange", job[r])
    BY <1>3, GotoTakes DEF IInv
  <2>2. job[r] \in Jobs
    BY DEF IInv, Types
  <2>3. Holds("exchange", job[r])
    BY <1>1 DEF IInv, ThreadInv, Holds, Completing, Sending
  <2>4. \A q \in Requests \ {r} : Apart("exchange", job[r], pc[q], job[q])
    BY <1>1 DEF IInv, ThreadInv, Apart, Sending
  <2>5. Moves(r, "exchange", job[r])
    BY <1>1, <2>1, <2>2, <2>3, <2>4 DEF Moves, Pcs
  <2>6. QED BY <1>1, <2>5, MoveKeeps
<1>4. QED BY <1>2, <1>3 DEF Decrypt

LEMMA ExtendKeeps ==
  ASSUME IInv, NEW r \in Requests, Extend(r)
  PROVE  IInv'
<1>1. Take(r, "upsert", job[r]) /\ pc[r] = "extend"
  BY GotoTakes DEF Extend, IInv
<1>2. job[r] \in Jobs
  BY DEF IInv, Types
<1>3. Holds("upsert", job[r])
  BY <1>1 DEF IInv, ThreadInv, Holds, Completing, Sending
<1>4. \A q \in Requests \ {r} : Apart("upsert", job[r], pc[q], job[q])
  BY <1>1 DEF IInv, ThreadInv, Apart, Sending
<1>5. Moves(r, "upsert", job[r])
  BY <1>1, <1>2, <1>3, <1>4 DEF Moves, Pcs
<1>6. UNCHANGED rowsAndGhosts /\ UNCHANGED <<keyring, now>>
  BY DEF Extend, rowsAndGhosts, tables, events
<1>7. QED BY <1>5, <1>6, MoveKeeps

LEMMA DisconnectKeeps ==
  ASSUME IInv, NEW r \in Requests, NEW s \in Sessions, NEW c \in Channels,
         Disconnect(r, s, c)
  PROVE  IInv'
<1> DEFINE j == [Idle EXCEPT !.session = s, !.channel = c]
<1>1. Take(r, "delete", j) /\ pc[r] = "idle"
  BY DEF Disconnect, Take, Goto
<1>2. /\ j \in Jobs /\ j.session = s /\ j.channel = c /\ j.doomed = {}
      /\ j.older = {}
  BY DEF Idle, Jobs
<1> HIDE DEF j
<1>3. Holds("delete", j)
  BY <1>2 DEF Holds, Completing, Sending
<1>4. \A q \in Requests \ {r} : Apart("delete", j, pc[q], job[q])
  BY <1>2, QuietApart DEF Sending
<1>5. Moves(r, "delete", j)
  BY <1>1, <1>2, <1>3, <1>4 DEF Moves, Pcs
<1>6. UNCHANGED rowsAndGhosts /\ UNCHANGED <<keyring, now>>
  BY DEF Disconnect, rowsAndGhosts, tables, events
<1>7. QED BY <1>5, <1>6, MoveKeeps

LEMMA AnswerStartKeeps ==
  ASSUME IInv, NEW r \in Requests, AnswerStart(r)
  PROVE  IInv'
<1>1. /\ UNCHANGED rowsAndGhosts /\ UNCHANGED <<keyring, now>>
      /\ pc[r] = "tell_start" /\ Finish(r)
  BY DEF AnswerStart, rowsAndGhosts, tables, events
<1>2. QED BY <1>1, FinishMoves, MoveKeeps

-------------------------------------------------------------------------------
(* Steps that write the states. *)

LEMMA ConsumeKeeps ==
  ASSUME IInv, NEW r \in Requests, Consume(r)
  PROVE  IInv'
<1>1. CASE ~Matches(r)
  <2>1. /\ UNCHANGED rowsAndGhosts /\ UNCHANGED <<keyring, now>>
        /\ pc[r] = "consume" /\ Finish(r)
    BY <1>1 DEF Consume, rowsAndGhosts, events, ghosts
  <2>2. QED BY <2>1, FinishMoves, MoveKeeps
<1>2. ASSUME Matches(r), NEW i, i = job[r].id,
             NEW j, j = [job[r] EXCEPT !.clock = 0]
      PROVE  IInv'
  <2>a. /\ pc[r] = "consume" /\ i \in Authorizations /\ job[r] \in Jobs
        /\ job[r].doomed = {}
        /\ job[r].session \in Sessions /\ job[r].channel \in Channels
    BY <1>2 DEF Consume, IInv, Types, ThreadInv, Holds
  <2>b. /\ j \in Jobs /\ j.id = i /\ j.session = job[r].session
        /\ j.channel = job[r].channel /\ j.doomed = {} /\ j.older = job[r].older
    BY <1>2, <2>a DEF Jobs
  <2>c. /\ Row(i) /\ ~states[i].consumed /\ states[i] \in StateRows
        /\ states[i].session = job[r].session /\ states[i].channel = job[r].channel
        /\ \A q \in Requests : i \notin job[q].doomed
    BY <1>2, <2>a DEF Consume, Matches, Row, Locked, IInv, Types
  <2>d. exchanges[i] = 0 /\ i <= last
    BY <2>a, <2>c DEF IInv, Types, StateInv, Used, Authorizations
  <2>1. /\ states' = [states EXCEPT ![i].consumed = TRUE]
        /\ consumers' = [consumers EXCEPT ![i] = job[r].session]
        /\ Take(r, "decrypt", j)
        /\ UNCHANGED <<external, keyring, now, last, connections, events, deletions,
                       stored, exchanges, superseded>>
    BY <1>2 DEF Consume, Goto, Take
  <2>2. /\ states' \in [Authorizations -> StateRows \cup {None}]
        /\ consumers' \in [Authorizations -> Sessions \cup {None}]
        /\ \A k \in Authorizations \ {i} : /\ states'[k] = states[k]
                                           /\ consumers'[k] = consumers[k]
        /\ consumers'[i] = job[r].session
        /\ states'[i] \in StateRows /\ states'[i].consumed
        /\ states'[i].session = job[r].session
        /\ states'[i].channel = job[r].channel
    BY <2>1, <2>a, <2>c DEF IInv, Types, StateRows
  <2>3. /\ \A k \in Authorizations : Used(k) => Used(k)'
        /\ \A k \in Authorizations : Spent(k) => Spent(k)'
        /\ \A k \in Authorizations : Row(k)' <=> Row(k)
        /\ \A k \in Authorizations : Row(k) =>
               /\ states'[k].session = states[k].session
               /\ states'[k].channel = states[k].channel
        /\ \A k \in Authorizations \ {i} : Used(k)' => Used(k)
        /\ Used(i)'
    <3>1. Row(i)' /\ Used(i)' /\ Spent(i)'
      BY <2>2, NoneAssumption DEF Used, Spent, Row
    <3>2. \A k \in Authorizations \ {i} :
            /\ Used(k)' <=> Used(k)
            /\ Spent(k)' <=> Spent(k)
            /\ Row(k)' <=> Row(k)
            /\ states'[k] = states[k]
      BY <2>2 DEF Used, Spent, Row
    <3>3. /\ states'[i].session = states[i].session
          /\ states'[i].channel = states[i].channel
      BY <2>2, <2>c
    <3>4. QED BY <3>1, <3>2, <3>3, <2>c
  <2>4. Types'
    BY <2>1, <2>2, <2>b, TakeWrites DEF IInv, Types, Pcs, external, events
  <2>5. ThreadInv'
    <3>1. Holds("decrypt", j)'
      <4>1. \A k \in job[r].older : k <= last /\ Spent(k)
        BY <2>a DEF IInv, ThreadInv, Holds
      <4>2. job[r].older \subseteq Authorizations
        BY <2>a DEF Jobs
      <4>3. \A k \in j.older : (k <= last)' /\ Spent(k)'
        BY <2>1, <2>3, <2>b, <4>1, <4>2
      <4>4. /\ Used(j.id)'
            /\ states'[j.id].session = j.session /\ states'[j.id].channel = j.channel
            /\ exchanges'[j.id] = 0
        BY <2>1, <2>2, <2>3, <2>b, <2>d
      <4>5. /\ j.id \in Authorizations /\ j.doomed = {}
            /\ j.session \in Sessions /\ j.channel \in Channels
        BY <2>a, <2>b
      <4>6. QED BY <4>3, <4>4, <4>5 DEF Holds, Completing, Sending
    <3>2. ASSUME NEW q \in Requests \ {r}, NEW d, NEW k, d = pc[q], k = job[q]
          PROVE  Holds(d, k)' /\ Apart("decrypt", j, d, k)
      <4>1. Holds(d, k) /\ k \in Jobs /\ i \notin k.doomed
        BY <2>c, <3>2 DEF IInv, ThreadInv, Types
      <4>2. k.doomed \subseteq Authorizations /\ k.older \subseteq Authorizations
        BY <4>1 DEF Jobs
      <4>3. \A n \in k.doomed : Row(n)' /\ ~states'[n].consumed
        BY <2>2, <2>3, <4>1, <4>2 DEF Holds
      <4>4. \A n \in k.older :
              /\ n <= last
              /\ \/ Spent(n)'
                 \/ n \in k.doomed
                 \/ /\ d \in {"request_token", "create"}
                    /\ states'[n].session = k.session
                    /\ states'[n].channel = k.channel
        <5> SUFFICES ASSUME NEW n \in k.older, ~Spent(n)'
                     PROVE  /\ n <= last
                            /\ \/ n \in k.doomed
                               \/ /\ d \in {"request_token", "create"}
                                  /\ states'[n].session = k.session
                                  /\ states'[n].channel = k.channel
          BY <4>1 DEF Holds
        <5>1. n \in Authorizations /\ ~Spent(n) /\ Row(n)
          BY <2>3, <4>2 DEF Spent
        <5>2. QED BY <2>3, <4>1, <5>1 DEF Holds
      <4>5. d = "insert" => ~Row(k.id)'
        BY <2>3, <4>1 DEF Holds
      <4>6. d \in Completing => /\ Used(k.id)' /\ states'[k.id].session = k.session
                                /\ states'[k.id].channel = k.channel
        BY <2>3, <4>1 DEF Holds, Used
      <4>7. Holds(d, k)'
        BY <2>1, <4>1, <4>3, <4>4, <4>5, <4>6 DEF Holds, external
      <4>8. Apart("decrypt", j, d, k)
        <5>1. Apart("consume", job[r], d, k)
          BY <2>a, <3>2 DEF IInv, ThreadInv
        <5>2. d \in Sending => k.id # i
          BY <2>c, <4>1 DEF Holds, Completing, Used
        <5>3. QED BY <2>b, <5>1, <5>2 DEF Apart
      <4>9. QED BY <4>7, <4>8
    <3>3. "decrypt" \in Pcs /\ Types /\ ThreadInv
      BY DEF IInv, Pcs
    <3>4. QED BY <2>1, <2>b, <3>1, <3>2, <3>3, ThreadKeeps
  <2>6. StateInv'
    <3>1. ASSUME NEW k \in Authorizations
          PROVE  /\ k > last' => ~Row(k)'
                 /\ exchanges'[k] <= 1
                 /\ exchanges'[k] = 1 => Used(k)'
                 /\ Used(k)' => consumers'[k] = states'[k].session
      <4>1. CASE k = i
        BY <2>1, <2>2, <2>3, <2>d, <4>1, <2>c DEF IInv, StateInv, Authorizations, Types
      <4>2. CASE k # i
        BY <2>1, <2>2, <2>3, <4>2 DEF IInv, StateInv
      <4>3. QED BY <4>1, <4>2
    <3>2. \A k \in superseded' : k <= last' /\ Spent(k)'
      BY <2>1, <2>3 DEF IInv, StateInv, Types
    <3>3. QED BY <3>1, <3>2 DEF StateInv
  <2>7. ConnectionInv'
    BY <2>1, <2>3 DEF IInv, ConnectionInv, Used
  <2>8. EventInv'
    <3>1. Tellers' = Tellers
      BY <2>1, <2>a, <2>b, TellersSame DEF IInv, Pcs
    <3>2. QED BY <2>1, <3>1 DEF IInv, EventInv, events
  <2>9. QED BY <2>4, <2>5, <2>6, <2>7, <2>8 DEF IInv
<1>3. QED BY <1>1, <1>2

\* A start stores its row at n, which no thread and no row has used, and drops
\* the rows D, which are not consumed and which no other thread has locked.
LEMMA InsertKeeps ==
  ASSUME IInv, NEW r \in Requests, NEW n \in Authorizations,
         NEW D \in SUBSET Authorizations, NEW row \in StateRows, NEW j \in Jobs,
         pc[r] \in {"create", "insert"}, ~row.consumed,
         j.session \in Sessions, j.channel \in Channels, j.doomed = {}, j.older = {},
         last' \in {last, n}, n <= last', last <= last', last' <= MaxStarts,
         ~Row(n), n \notin superseded,
         \A k \in D : Row(k) /\ ~states[k].consumed,
         \A k \in job[r].older : k # n /\ k <= last /\ (Spent(k) \/ k \in D),
         \A q \in Requests \ {r} :
             /\ job[q].doomed \cap D = {} /\ n \notin job[q].older
             /\ pc[q] = "insert" => job[q].id # n /\ job[q].id \notin job[r].older,
         states' = [k \in Authorizations |->
                      IF k = n THEN row ELSE IF k \in D THEN None ELSE states[k]],
         superseded' = superseded \cup job[r].older,
         Take(r, "tell_start", j),
         UNCHANGED <<external, keyring, now, connections, events, deletions, stored,
                     exchanges, consumers>>
  PROVE  IInv'
<1>a. last \in Nat /\ last' \in Nat /\ job[r].older \subseteq Authorizations
  BY DEF IInv, Types, Authorizations, Jobs
<1>b. /\ \A k \in superseded : k <= last /\ Spent(k)
      /\ superseded \subseteq Authorizations
      /\ exchanges \in [Authorizations -> Nat]
      /\ exchanges[n] = 0
  <2>1. /\ \A k \in superseded : k <= last /\ Spent(k)
        /\ superseded \subseteq Authorizations
        /\ exchanges \in [Authorizations -> Nat]
    BY DEF IInv, Types, StateInv
  <2>2. exchanges[n] \in Nat /\ exchanges[n] <= 1 /\ exchanges[n] # 1
    BY <2>1 DEF IInv, StateInv, Used
  <2>3. QED BY <2>1, <2>2
<1>1. /\ states' \in [Authorizations -> StateRows \cup {None}]
      /\ states'[n] = row /\ row # None
      /\ \A k \in D : states'[k] = None /\ k # n
      /\ \A k \in Authorizations \ (D \cup {n}) : states'[k] = states[k]
  BY NoneAssumption DEF IInv, Types
<1>2. /\ \A k \in Authorizations : Used(k) => Used(k)' /\ states'[k] = states[k]
      /\ \A k \in Authorizations \ {n} : Spent(k) \/ k \in D => Spent(k)'
      /\ \A k \in Authorizations \ {n} : Row(k)' => Row(k) /\ states'[k] = states[k]
      /\ \A k \in Authorizations : Used(k)' => Used(k)
  BY <1>1 DEF Used, Spent, Row
<1>3. Types'
  BY <1>a, <1>1, TakeWrites DEF IInv, Types, Pcs, external, events
<1>4. ThreadInv'
  <2>1. Holds("tell_start", j)'
    BY DEF Holds, Completing, Sending
  <2>2. ASSUME NEW q \in Requests \ {r}, NEW d, NEW k, d = pc[q], k = job[q]
        PROVE  Holds(d, k)' /\ Apart("tell_start", j, d, k)
    <3>1. Holds(d, k) /\ k \in Jobs /\ k.doomed \cap D = {} /\ n \notin k.older
      BY <2>2 DEF IInv, ThreadInv, Types
    <3>2. k.doomed \subseteq Authorizations /\ k.older \subseteq Authorizations
          /\ n \notin k.doomed
      BY <3>1 DEF Jobs, Holds
    <3>3. \A m \in k.doomed : Row(m)' /\ ~states'[m].consumed
      BY <1>1, <3>1, <3>2 DEF Holds, Row
    <3>4. \A m \in k.older :
            /\ m <= last'
            /\ \/ Spent(m)'
               \/ m \in k.doomed
               \/ /\ d \in {"request_token", "create"}
                  /\ states'[m].session = k.session
                  /\ states'[m].channel = k.channel
      <4> SUFFICES ASSUME NEW m \in k.older
                   PROVE  /\ m <= last'
                          /\ \/ Spent(m)'
                             \/ m \in k.doomed
                             \/ /\ d \in {"request_token", "create"}
                                /\ states'[m].session = k.session
                                /\ states'[m].channel = k.channel
        OBVIOUS
      <4>1. m \in Authorizations \ {n} /\ m <= last
        BY <3>1, <3>2 DEF Holds
      <4>2. m <= last'
        BY <1>a, <4>1 DEF Authorizations
      <4>3. CASE Row(m)'
        BY <1>2, <3>1, <4>1, <4>2, <4>3 DEF Holds
      <4>4. CASE ~Row(m)'
        BY <4>2, <4>4 DEF Spent
      <4>5. QED BY <4>3, <4>4
    <3>5. d = "insert" =>
            /\ (backend = "postgresql")' /\ (k.id <= last)' /\ ~Row(k.id)'
            /\ k.id \notin k.older /\ (k.id \notin superseded)'
      <4> SUFFICES ASSUME d = "insert"
                   PROVE  /\ (backend = "postgresql")' /\ (k.id <= last)' /\ ~Row(k.id)'
                          /\ k.id \notin k.older /\ (k.id \notin superseded)'
        OBVIOUS
      <4>1. k.id \in Authorizations \ {n} /\ k.id \notin job[r].older
        BY <2>2, <3>1 DEF Holds
      <4>2. ~Row(k.id)'
        BY <1>2, <3>1, <4>1 DEF Holds
      <4>3. k.id <= last'
        BY <1>a, <3>1, <4>1 DEF Holds, Authorizations
      <4>4. QED BY <3>1, <4>1, <4>2, <4>3 DEF Holds, external
    <3>6. d \in Completing => /\ Used(k.id)' /\ states'[k.id].session = k.session
                              /\ states'[k.id].channel = k.channel
      BY <1>2, <3>1 DEF Holds
    <3>7. Holds(d, k)'
      BY <3>1, <3>3, <3>4, <3>5, <3>6 DEF Holds
    <3>8. Apart("tell_start", j, d, k)
      BY QuietApart DEF Sending
    <3>9. QED BY <3>7, <3>8
  <2>3. "tell_start" \in Pcs /\ Types /\ ThreadInv
    BY DEF IInv, Pcs
  <2>4. QED BY <2>1, <2>2, <2>3, ThreadKeeps
<1>5. StateInv'
  <2>1. ASSUME NEW k \in Authorizations
        PROVE  /\ k > last' => ~Row(k)'
               /\ exchanges'[k] <= 1
               /\ exchanges'[k] = 1 => Used(k)'
               /\ Used(k)' => consumers'[k] = states'[k].session
    <3>1. k > last' => k # n /\ k > last
      BY <1>a DEF Authorizations
    <3>2. k > last' => ~Row(k)'
      BY <1>2, <3>1 DEF IInv, StateInv
    <3>3. QED BY <1>2, <3>2 DEF IInv, StateInv
  <2>2. ASSUME NEW k \in superseded' PROVE k <= last' /\ Spent(k)'
    <3>1. k \in Authorizations /\ k # n /\ k <= last /\ (Spent(k) \/ k \in D)
      BY <1>a, <1>b
    <3>2. QED BY <1>a, <1>2, <3>1 DEF Authorizations
  <2>3. QED BY <2>1, <2>2 DEF StateInv
<1>6. ConnectionInv'
  BY <1>2 DEF IInv, ConnectionInv
<1>7. EventInv'
  <2>1. Tellers' = Tellers
    BY TellersSame DEF IInv, Pcs
  <2>2. QED BY <2>1 DEF IInv, EventInv, events
<1>8. QED BY <1>3, <1>4, <1>5, <1>6, <1>7 DEF IInv

LEMMA NewStateIsRow ==
  ASSUME Types, BoundAssumption, NEW r \in Requests,
         job[r].session \in Sessions, job[r].channel \in Channels
  PROVE  NewState(r) \in StateRows /\ ~NewState(r).consumed
  BY DEF Types, NewState, StateRows, EncryptedUnder, BoundAssumption, Accepted

LEMMA CreateSqliteKeeps ==
  ASSUME IInv, NEW r \in Requests, CreateSqlite(r)
  PROVE  IInv'
<1> DEFINE n == last + 1
           D == Older(r)
           j == [job[r] EXCEPT !.id = n, !.older = {}]
<1>a. /\ pc[r] = "create" /\ job[r] \in Jobs /\ job[r].doomed = {}
      /\ job[r].session \in Sessions /\ job[r].channel \in Channels
      /\ last \in Nat /\ last < MaxStarts /\ MaxStarts \in Nat
  BY BoundAssumption DEF CreateSqlite, IInv, Types, ThreadInv, Holds
<1>b. /\ n \in Authorizations /\ n > last /\ ~Row(n)
  BY <1>a DEF Authorizations, IInv, StateInv
<1>c. /\ j \in Jobs /\ j.session = job[r].session /\ j.channel = job[r].channel
      /\ j.doomed = {} /\ j.older = {}
  <2>1. n \in Nat /\ {} \in SUBSET Authorizations
    BY <1>a
  <2> HIDE DEF n
  <2>2. QED BY <1>a, <2>1 DEF Jobs
<1>d. NewState(r) \in StateRows /\ ~NewState(r).consumed
  BY <1>a, BoundAssumption, NewStateIsRow DEF IInv
<1>e. D \in SUBSET Authorizations /\ \A k \in D : Row(k) /\ ~states[k].consumed
  BY DEF Older, Pending
<1>1. /\ last' = n
      /\ states' = [k \in Authorizations |-> IF k = n THEN NewState(r)
                       ELSE IF k \in D THEN None ELSE states[k]]
      /\ superseded' = superseded \cup job[r].older
      /\ Take(r, "tell_start", j)
      /\ UNCHANGED <<external, keyring, now, connections, events, deletions, stored,
                     exchanges, consumers>>
  BY DEF CreateSqlite, Take, Goto
<1>2. \A k \in job[r].older : k # n /\ k <= last /\ (Spent(k) \/ k \in D)
  <2> SUFFICES ASSUME NEW k \in job[r].older
               PROVE  k # n /\ k <= last /\ (Spent(k) \/ k \in D)
    OBVIOUS
  <2>1. Holds("create", job[r])
    BY <1>a DEF IInv, ThreadInv
  <2>2. k \in Authorizations /\ k <= last
    BY <1>a, <2>1 DEF Jobs, Holds
  <2>3. Spent(k) \/ (states[k].session = job[r].session
                     /\ states[k].channel = job[r].channel)
    BY <1>a, <2>1 DEF Holds
  <2>4. QED BY <1>a, <1>b, <2>2, <2>3 DEF Older, Pending, Spent, Authorizations
<1>3. ASSUME NEW q \in Requests \ {r}
      PROVE  /\ job[q].doomed \cap D = {} /\ n \notin job[q].older
             /\ pc[q] = "insert" => job[q].id # n /\ job[q].id \notin job[r].older
  <2>1. Holds(pc[q], job[q]) /\ pc[q] # "insert" /\ job[q] \in Jobs
    BY DEF IInv, Types, ThreadInv, Holds, CreateSqlite
  <2>2. job[q].doomed = {}
    BY <2>1 DEF Holds
  <2>3. n \notin job[q].older
    BY <1>a, <2>1 DEF Holds
  <2>4. QED BY <2>1, <2>2, <2>3
<1>4. n \notin superseded
  BY <1>a, <1>b DEF IInv, StateInv
<1> HIDE DEF n, D, j
<1>5. last' \in {last, n} /\ n <= last' /\ last <= last' /\ last' <= MaxStarts
  BY <1>a, <1>1 DEF n
<1>6. QED
  BY <1>a, <1>b, <1>c, <1>d, <1>e, <1>1, <1>2, <1>3, <1>4, <1>5, InsertKeeps

LEMMA DeleteOlderKeeps ==
  ASSUME IInv, NEW r \in Requests, DeleteOlder(r)
  PROVE  IInv'
<1>a. /\ pc[r] = "create" /\ job[r] \in Jobs /\ backend = "postgresql"
      /\ job[r].session \in Sessions /\ job[r].channel \in Channels
      /\ last \in Nat /\ last < MaxStarts /\ MaxStarts \in Nat
  BY BoundAssumption DEF DeleteOlder, IInv, Types, ThreadInv, Holds
<1>s. PICK n : n = last + 1
  OBVIOUS
<1>t. PICK D : D = Older(r)
  OBVIOUS
<1>u. PICK j : j = [job[r] EXCEPT !.id = n, !.doomed = D]
  OBVIOUS
<1>b. n \in Authorizations /\ n > last /\ ~Row(n) /\ last' = n
  BY <1>a, <1>s DEF Authorizations, IInv, StateInv, DeleteOlder
<1>e. /\ D \in SUBSET Authorizations
      /\ \A k \in D : Row(k) /\ ~states[k].consumed
      /\ \A q \in Requests : job[q].doomed \cap D = {}
  BY <1>t DEF DeleteOlder, Older, Pending, Locked
<1>c. /\ j \in Jobs /\ j.session = job[r].session /\ j.channel = job[r].channel
      /\ j.id = n /\ j.doomed = D /\ j.older = job[r].older
  <2>1. n \in Nat
    BY <1>a, <1>s
  <2>2. QED BY <1>a, <1>e, <1>u, <2>1 DEF Jobs
<1>1. /\ Take(r, "insert", j)
      /\ UNCHANGED <<external, keyring, now, states, connections, events, ghosts>>
  BY <1>s, <1>t, <1>u DEF DeleteOlder, Take, Goto
<1>2. \A k : (Used(k)' <=> Used(k)) /\ (Spent(k)' <=> Spent(k)) /\ (Row(k)' <=> Row(k))
  BY <1>1 DEF Used, Spent, Row
<1>3. Types'
  BY <1>a, <1>b, <1>c, <1>s, <1>1, TakeWrites DEF IInv, Types, Pcs, external, events, ghosts
<1>4. ThreadInv'
  <2>1. \A k \in job[r].older : k <= last /\ (Spent(k) \/ k \in D)
    <3> SUFFICES ASSUME NEW k \in job[r].older
                 PROVE  k <= last /\ (Spent(k) \/ k \in D)
      OBVIOUS
    <3>1. Holds("create", job[r])
      BY <1>a DEF IInv, ThreadInv
    <3>2. k \in Authorizations /\ k <= last
      BY <1>a, <3>1 DEF Jobs, Holds
    <3>3. Spent(k) \/ (states[k].session = job[r].session
                       /\ states[k].channel = job[r].channel)
      BY <1>a, <3>1 DEF Holds
    <3>4. QED BY <1>t, <3>2, <3>3 DEF Older, Pending, Spent
  <2>2. n \notin superseded
    BY <1>a, <1>b, <1>s DEF IInv, StateInv
  <2>3. Holds("insert", j)'
    <3>1. \A k \in j.older : k <= last' /\ k # n /\ (Spent(k)' \/ k \in j.doomed)
      <4> SUFFICES ASSUME NEW k \in j.older
                   PROVE  k <= last' /\ k # n /\ (Spent(k)' \/ k \in j.doomed)
        OBVIOUS
      <4>1. k \in Nat /\ k <= last
        BY <1>a, <1>c, <2>1 DEF Jobs, Authorizations
      <4>2. k <= last' /\ k # n
        BY <1>a, <1>b, <1>s, <4>1
      <4>3. QED BY <1>c, <1>2, <2>1, <4>2
    <3>2. n <= last'
      BY <1>a, <1>b, <1>s
    <3>3. superseded' = superseded /\ backend' = backend
      BY <1>1 DEF ghosts, external
    <3>4. (\A k \in j.doomed : Row(k)' /\ ~states'[k].consumed) /\ ~Row(n)'
      BY <1>1, <1>2, <1>b, <1>c, <1>e
    <3>5. QED BY <1>a, <1>b, <1>c, <2>2, <3>1, <3>2, <3>3, <3>4 DEF Holds, Completing, Sending
  <2>4. ASSUME NEW q \in Requests \ {r}, NEW d, NEW k, d = pc[q], k = job[q]
        PROVE  Holds(d, k)' /\ Apart("insert", j, d, k)
    <3>1. Holds(d, k) /\ k \in Jobs /\ Apart("create", job[r], d, k)
      BY <1>a, <2>4 DEF IInv, ThreadInv, Types
    <3>2. /\ \A m \in k.older : m <= last /\ m <= last' /\ m # n
          /\ d = "insert" => k.id <= last' /\ k.id # n
      BY <1>a, <1>b, <1>s, <3>1 DEF Holds, Jobs, Authorizations
    <3>3. states' = states /\ exchanges' = exchanges /\ superseded' = superseded
          /\ stored' = stored /\ backend' = backend
      BY <1>1 DEF ghosts, external
    <3>4. Holds(d, k)'
      BY <1>2, <3>1, <3>2, <3>3 DEF Holds
    <3>5. Apart("insert", j, d, k)
      BY <1>c, <1>e, <2>4, <3>1, <3>2 DEF Apart, Sending
    <3>6. QED BY <3>4, <3>5
  <2>5. "insert" \in Pcs /\ Types /\ ThreadInv
    BY DEF IInv, Pcs
  <2>6. QED BY <1>c, <1>1, <2>3, <2>4, <2>5, ThreadKeeps
<1>5. StateInv'
  <2>1. \A k \in Authorizations : k > last' => k > last
    BY <1>a, <1>b, <1>s DEF Authorizations
  <2>2. \A k \in superseded : k <= last => k <= last'
    BY <1>a, <1>b, <1>s DEF IInv, Types, Authorizations
  <2>3. QED BY <1>1, <1>2, <2>1, <2>2 DEF IInv, StateInv, ghosts
<1>6. ConnectionInv'
  BY <1>1, <1>2 DEF IInv, ConnectionInv
<1>7. EventInv'
  <2>1. Tellers' = Tellers
    BY <1>a, <1>c, <1>1, TellersSame DEF IInv, Pcs
  <2>2. QED BY <1>1, <2>1 DEF IInv, EventInv, events, ghosts
<1>8. QED BY <1>3, <1>4, <1>5, <1>6, <1>7 DEF IInv

LEMMA InsertStateKeeps ==
  ASSUME IInv, NEW r \in Requests, InsertState(r)
  PROVE  IInv'
<1> DEFINE n == job[r].id
           D == job[r].doomed
           j == [job[r] EXCEPT !.doomed = {}, !.older = {}]
<1>a. /\ pc[r] = "insert" /\ job[r] \in Jobs /\ Holds("insert", job[r])
      /\ job[r].session \in Sessions /\ job[r].channel \in Channels
      /\ last \in Nat /\ last <= MaxStarts
  BY DEF InsertState, IInv, Types, ThreadInv, Holds
<1>b. /\ n \in Authorizations /\ n <= last /\ ~Row(n)
      /\ n \notin job[r].older /\ n \notin superseded
      /\ D \in SUBSET Authorizations /\ \A k \in D : Row(k) /\ ~states[k].consumed
  BY <1>a DEF Holds, Jobs
<1>c. /\ j \in Jobs /\ j.session = job[r].session /\ j.channel = job[r].channel
      /\ j.doomed = {} /\ j.older = {}
  <2>1. {} \in SUBSET Authorizations
    OBVIOUS
  <2>2. QED BY <1>a, <2>1 DEF Jobs
<1>d. NewState(r) \in StateRows /\ ~NewState(r).consumed
  BY <1>a, BoundAssumption, NewStateIsRow DEF IInv
<1>1. /\ last' = last
      /\ states' = [k \in Authorizations |-> IF k = n THEN NewState(r)
                       ELSE IF k \in D THEN None ELSE states[k]]
      /\ superseded' = superseded \cup job[r].older
      /\ Take(r, "tell_start", j)
      /\ UNCHANGED <<external, keyring, now, connections, events, deletions, stored,
                     exchanges, consumers>>
  BY DEF InsertState, Take, Goto
<1>2. \A k \in job[r].older : k # n /\ k <= last /\ (Spent(k) \/ k \in D)
  BY <1>a, <1>b DEF Holds
<1>3. ASSUME NEW q \in Requests \ {r}
      PROVE  /\ job[q].doomed \cap D = {} /\ n \notin job[q].older
             /\ pc[q] = "insert" => job[q].id # n /\ job[q].id \notin job[r].older
  BY <1>a DEF IInv, ThreadInv, Apart
<1> HIDE DEF n, D, j
<1>4. last' \in {last, n} /\ n <= last' /\ last <= last' /\ last' <= MaxStarts
  BY <1>a, <1>b, <1>1
<1>5. pc[r] \in {"create", "insert"}
  BY <1>a
<1>6. QED
  BY <1>5, <1>b, <1>c, <1>a, <1>d, <1>1, <1>2, <1>3, <1>4, InsertKeeps

-------------------------------------------------------------------------------
(* Steps that change connections, events and exchanges. *)

\* The provider gets the request of r, which goes on or gives up.
LEMMA SendKeeps ==
  ASSUME IInv, NEW r \in Requests, pc[r] = "exchange",
         NEW c \in Pcs, NEW j \in Jobs, Take(r, c, j),
         c \notin Sending, c # "tell_disconnected", Holds(c, j),
         \A q \in Requests \ {r} : Apart(c, j, pc[q], job[q]),
         exchanges' = [exchanges EXCEPT ![job[r].id] = @ + 1],
         UNCHANGED <<external, keyring, now, tables, events, deletions, stored,
                     superseded, consumers>>
  PROVE  IInv'
<1>s. PICK i : i = job[r].id
  OBVIOUS
<1>a. /\ i \in Authorizations /\ exchanges[i] = 0 /\ Used(i)
      /\ exchanges \in [Authorizations -> Nat]
  BY <1>s DEF IInv, Types, ThreadInv, Holds, Completing, Sending
<1>b. /\ exchanges' \in [Authorizations -> Nat] /\ exchanges'[i] = 1
      /\ \A k \in Authorizations \ {i} : exchanges'[k] = exchanges[k]
  <2>1. exchanges' = [exchanges EXCEPT ![i] = exchanges[i] + 1]
    BY <1>s
  <2>2. exchanges[i] + 1 = 1
    BY <1>a
  <2>3. QED BY <1>a, <2>1, <2>2
<1>1. \A k : (Used(k)' <=> Used(k)) /\ (Spent(k)' <=> Spent(k)) /\ (Row(k)' <=> Row(k))
  BY DEF Used, Spent, Row, tables
<1>2. Types'
  BY <1>b, TakeWrites DEF IInv, Types, external, tables, events
<1>3. ThreadInv'
  <2>1. Holds(c, j)'
    BY <1>1 DEF Holds, tables, external
  <2>2. ASSUME NEW q \in Requests \ {r}, NEW d, NEW k, d = pc[q], k = job[q]
        PROVE  Holds(d, k)' /\ Apart(c, j, d, k)
    <3>1. Holds(d, k) /\ Apart("exchange", job[r], d, k)
      BY <2>2 DEF IInv, ThreadInv
    <3>2. d \in Sending => k.id \in Authorizations \ {i}
      BY <1>s, <3>1 DEF Holds, Apart, Sending, Completing
    <3>3. d \in Sending => exchanges'[k.id] = 0
      BY <1>b, <3>1, <3>2 DEF Holds
    <3>4. Holds(d, k)'
      BY <1>1, <3>1, <3>3 DEF Holds, tables, external
    <3>5. QED BY <2>2, <3>4
  <2>3. QED BY <2>1, <2>2, ThreadKeeps DEF IInv
<1>4. StateInv'
  <2>1. ASSUME NEW k \in Authorizations
        PROVE  exchanges'[k] <= 1 /\ (exchanges'[k] = 1 => Used(k)')
    <3>1. CASE k = i
      BY <1>a, <1>b, <1>1, <3>1
    <3>2. CASE k # i
      BY <1>b, <1>1, <3>2 DEF IInv, StateInv
    <3>3. QED BY <3>1, <3>2
  <2>2. QED BY <1>1, <2>1 DEF IInv, StateInv, tables
<1>5. ConnectionInv'
  BY <1>1 DEF IInv, ConnectionInv, tables
<1>6. EventInv'
  <2>1. Tellers' = Tellers
    BY TellersSame DEF IInv
  <2>2. QED BY <2>1 DEF IInv, EventInv, events
<1>7. QED BY <1>2, <1>3, <1>4, <1>5, <1>6 DEF IInv

LEMMA ExchangeKeeps ==
  ASSUME IInv, NEW r \in Requests, Exchange(r)
  PROVE  IInv'
<1>1. PICK c \in {"upsert", "extend"} : Goto(r, c) /\ UNCHANGED job
  BY DEF Exchange
<1>2. Take(r, c, job[r]) /\ pc[r] = "exchange" /\ job[r] \in Jobs
  BY <1>1, GotoTakes DEF Exchange, IInv, Types
<1>3. Holds(c, job[r])
  BY <1>2 DEF IInv, ThreadInv, Holds, Completing, Sending
<1>4. \A q \in Requests \ {r} : Apart(c, job[r], pc[q], job[q])
  BY <1>2 DEF IInv, ThreadInv, Apart, Sending
<1>5. c \in Pcs /\ c \notin Sending /\ c # "tell_disconnected"
  BY DEF Pcs, Sending
<1>6. /\ exchanges' = [exchanges EXCEPT ![job[r].id] = @ + 1]
      /\ UNCHANGED <<external, keyring, now, tables, events, deletions, stored,
                     superseded, consumers>>
  BY DEF Exchange
<1>7. QED BY <1>2, <1>3, <1>4, <1>5, <1>6, SendKeeps

LEMMA ProviderFailsKeeps ==
  ASSUME IInv, NEW r \in Requests, ProviderFails(r)
  PROVE  IInv'
<1>1. CASE pc[r] = "exchange"
  <2>1. Take(r, "idle", Idle)
    BY FinishTakes DEF ProviderFails
  <2>2. "idle" \in Pcs /\ "idle" \notin Sending /\ Idle \in Jobs
    BY IdleJob DEF Pcs, Sending
  <2>3. /\ exchanges' = [exchanges EXCEPT ![job[r].id] = @ + 1]
        /\ UNCHANGED <<external, keyring, now, tables, events, deletions, stored,
                       superseded, consumers>>
    BY <1>1 DEF ProviderFails
  <2>4. QED BY <1>1, <2>1, <2>2, <2>3, IdleHolds, IdleApart, SendKeeps
<1>2. CASE pc[r] # "exchange"
  <2>1. /\ Finish(r) /\ pc[r] # "tell_disconnected"
        /\ UNCHANGED rowsAndGhosts /\ UNCHANGED <<keyring, now>>
    BY <1>2 DEF ProviderFails, rowsAndGhosts, tables, events, ghosts
  <2>2. QED BY <2>1, FinishMoves, MoveKeeps
<1>3. QED BY <1>1, <1>2

LEMMA UpsertKeeps ==
  ASSUME IInv, NEW r \in Requests, Upsert(r)
  PROVE  IInv'
<1>s. PICK i, a, row : i = job[r].id /\ a = Account(r) /\ row = NewConnection(i, keyring)
  OBVIOUS
<1>a. /\ pc[r] = "upsert" /\ job[r] \in Jobs /\ i \in Authorizations /\ Used(i)
      /\ states[i].session = job[r].session /\ states[i].channel = job[r].channel
      /\ job[r].session \in Sessions /\ job[r].channel \in Channels
  BY <1>s DEF Upsert, IInv, Types, ThreadInv, Holds, Completing, Sending
<1>b. /\ a = <<TenantOf[states[i].session], states[i].channel>>
      /\ a \in Tenants \X Channels
  BY <1>a, <1>s, SessionAssumption DEF Account, SessionAssumption
<1>c. row \in ConnectionRows /\ row.id = i
  BY <1>a, <1>s DEF NewConnection, ConnectionRows, EncryptedUnder, IInv, Types,
                    Accepted, Authorizations
<1>1. /\ connections' = [connections EXCEPT ![a] = row]
      /\ stored' = stored \cup {i}
      /\ Take(r, "tell_connected", job[r])
      /\ UNCHANGED <<external, keyring, now, last, states, events, deletions,
                     exchanges, superseded, consumers>>
  BY <1>s, GotoTakes DEF Upsert, IInv
<1>2. /\ connections' \in [Tenants \X Channels -> ConnectionRows \cup {None}]
      /\ connections'[a] = row
      /\ \A b \in (Tenants \X Channels) \ {a} : connections'[b] = connections[b]
  BY <1>b, <1>c, <1>1 DEF IInv, Types
<1>3. \A k : (Used(k)' <=> Used(k)) /\ (Spent(k)' <=> Spent(k)) /\ (Row(k)' <=> Row(k))
  BY <1>1 DEF Used, Spent, Row
<1>4. Types'
  BY <1>a, <1>1, <1>2, TakeWrites DEF IInv, Types, Pcs, external, events
<1>5. ThreadInv'
  <2>1. Holds("upsert", job[r])
    BY <1>a DEF IInv, ThreadInv
  <2>p. PICK j : j = job[r]
    OBVIOUS
  <2>2. Holds("tell_connected", j)'
    BY <1>s, <1>1, <1>3, <2>1, <2>p DEF Holds, Completing, Sending, external
  <2>3. ASSUME NEW q \in Requests \ {r}, NEW d, NEW k, d = pc[q], k = job[q]
        PROVE  Holds(d, k)' /\ Apart("tell_connected", j, d, k)
    <3>1. Holds(d, k) /\ Apart("upsert", j, d, k)
      BY <1>a, <2>3, <2>p DEF IInv, ThreadInv
    <3>2. Holds(d, k)'
      BY <1>1, <1>3, <3>1 DEF Holds, external
    <3>3. QED BY <3>1, <3>2 DEF Apart, Sending
  <2>4. "tell_connected" \in Pcs /\ Types /\ ThreadInv
    BY DEF IInv, Pcs
  <2>5. QED BY <1>a, <1>1, <2>p, <2>2, <2>3, <2>4, ThreadKeeps
<1>6. StateInv'
  BY <1>1, <1>3 DEF IInv, StateInv
<1>7. ConnectionInv'
  <2> SUFFICES ASSUME NEW b \in Tenants \X Channels, connections'[b] # None,
                      connections'[b].id > 0
               PROVE  /\ connections'[b].id \in Authorizations
                      /\ Used(connections[b].id)'
                      /\ b = <<TenantOf[states[connections[b].id].session],
                               states[connections[b].id].channel>>'
    BY DEF ConnectionInv
  <2>1. CASE b = a
    BY <1>a, <1>b, <1>c, <1>1, <1>2, <2>1 DEF Used, Row
  <2>2. CASE b # a
    BY <1>1, <1>2, <2>2 DEF IInv, ConnectionInv, Used, Row
  <2>3. QED BY <2>1, <2>2
<1>8. EventInv'
  <2>1. Tellers' = Tellers
    BY <1>a, <1>1, TellersSame DEF IInv, Pcs
  <2>2. QED BY <1>1, <2>1 DEF IInv, EventInv, events
<1>9. QED BY <1>4, <1>5, <1>6, <1>7, <1>8 DEF IInv

\* Steps that only tell or count: states and ghosts of the callbacks stay.
LEMMA TellKeeps ==
  ASSUME IInv, NEW r \in Requests, NEW c \in Pcs, NEW j \in Jobs, Take(r, c, j),
         Holds(c, j), \A q \in Requests \ {r} : Apart(c, j, pc[q], job[q]),
         UNCHANGED <<external, keyring, now, last, states, stored, exchanges,
                     superseded, consumers>>,
         connections' \in [Tenants \X Channels -> ConnectionRows \cup {None}],
         \A a \in Tenants \X Channels : connections'[a] \in {connections[a], None},
         disconnected' \in Nat, deletions' \in Nat, EventInv'
  PROVE  IInv'
<1>1. \A k : (Used(k)' <=> Used(k)) /\ (Spent(k)' <=> Spent(k)) /\ (Row(k)' <=> Row(k))
  BY DEF Used, Spent, Row
<1>2. Types'
  BY TakeWrites DEF IInv, Types, external
<1>3. ThreadInv'
  <2>1. Holds(c, j)'
    BY <1>1 DEF Holds, external
  <2>2. ASSUME NEW q \in Requests \ {r}, NEW d, NEW k, d = pc[q], k = job[q]
        PROVE  Holds(d, k)' /\ Apart(c, j, d, k)
    <3>1. Holds(d, k)
      BY <2>2 DEF IInv, ThreadInv
    <3>2. QED BY <1>1, <2>2, <3>1 DEF Holds, external
  <2>3. QED BY <2>1, <2>2, ThreadKeeps DEF IInv
<1>4. StateInv'
  BY <1>1 DEF IInv, StateInv
<1>5. ConnectionInv'
  BY <1>1 DEF IInv, ConnectionInv
<1>6. QED BY <1>2, <1>3, <1>4, <1>5 DEF IInv

LEMMA AnswerCallbackKeeps ==
  ASSUME IInv, NEW r \in Requests, AnswerCallback(r)
  PROVE  IInv'
<1>1. /\ Take(r, "idle", Idle) /\ pc[r] = "tell_connected"
      /\ connected' = connected \cup {job[r].id}
      /\ UNCHANGED <<external, keyring, now, tables, disconnected, ghosts>>
  BY FinishTakes DEF AnswerCallback
<1>2. "idle" \in Pcs /\ Idle \in Jobs
  BY IdleJob DEF Pcs
<1>3. EventInv'
  <2>1. job[r].id \in stored
    BY <1>1 DEF IInv, ThreadInv, Holds
  <2>2. Tellers' = Tellers
    BY <1>1, <1>2, TellersSame DEF IInv
  <2>3. QED BY <1>1, <2>1, <2>2 DEF IInv, EventInv, ghosts
<1>4. UNCHANGED <<external, keyring, now, last, states, stored, exchanges,
                  superseded, consumers, connections, disconnected, deletions>>
  BY <1>1 DEF tables, ghosts
<1>5. /\ connections' \in [Tenants \X Channels -> ConnectionRows \cup {None}]
      /\ \A a \in Tenants \X Channels : connections'[a] \in {connections[a], None}
      /\ disconnected' \in Nat /\ deletions' \in Nat
  BY <1>4 DEF IInv, Types
<1>6. QED BY <1>1, <1>2, <1>3, <1>4, <1>5, IdleHolds, IdleApart, TellKeeps

LEMMA DeleteKeeps ==
  ASSUME IInv, NEW r \in Requests, Delete(r)
  PROVE  IInv'
<1>s. PICK a : a = Account(r)
  OBVIOUS
<1>a. /\ pc[r] = "delete" /\ job[r] \in Jobs /\ Holds("delete", job[r])
      /\ job[r].session \in Sessions /\ job[r].channel \in Channels
      /\ a \in Tenants \X Channels
  BY <1>s, SessionAssumption DEF Delete, IInv, Types, ThreadInv, Holds, Account,
                                 SessionAssumption
<1>1. /\ connections' = [connections EXCEPT ![a] = None]
      /\ deletions' = deletions + (IF connections[a] # None THEN 1 ELSE 0)
      /\ UNCHANGED <<external, keyring, now, last, states, events, stored, exchanges,
                     superseded, consumers>>
  BY <1>s DEF Delete
<1>2. /\ connections' \in [Tenants \X Channels -> ConnectionRows \cup {None}]
      /\ \A b \in Tenants \X Channels : connections'[b] \in {connections[b], None}
  BY <1>a, <1>1 DEF IInv, Types
<1>3. disconnected' \in Nat /\ deletions' \in Nat /\ deletions \in Nat
      /\ Cardinality(Tellers) \in Nat
  BY <1>1, RequestAssumption, TellersFinite, FS_CardinalityType
     DEF IInv, Types, events
<1>4. CASE connections[a] = None
  <2>1. Take(r, "idle", Idle) /\ "idle" \in Pcs /\ Idle \in Jobs
    BY <1>4, <1>s, FinishTakes, IdleJob DEF Delete, Tells, Pcs
  <2>2. Tellers' = Tellers
    BY <1>a, <2>1, TellersSame DEF IInv
  <2>3. EventInv'
    BY <1>1, <1>3, <1>4, <2>2 DEF IInv, EventInv, events
  <2>4. QED BY <1>1, <1>2, <1>3, <2>1, <2>3, IdleHolds, IdleApart, TellKeeps
<1>5. CASE connections[a] # None
  <2>1. Take(r, "tell_disconnected", job[r])
    BY <1>5, <1>s, GotoTakes DEF Delete, Tells, IInv
  <2>2. "tell_disconnected" \in Pcs
    BY DEF Pcs
  <2>3. Holds("tell_disconnected", job[r])
    BY <1>a DEF Holds, Completing, Sending
  <2>4. \A q \in Requests \ {r} : Apart("tell_disconnected", job[r], pc[q], job[q])
    BY <1>a DEF IInv, ThreadInv, Apart, Sending
  <2>5. Tellers' = Tellers \cup {r} /\ r \notin Tellers
    BY <1>a, <2>1, <2>2, TakeWrites DEF Tellers, IInv
  <2>6. Cardinality(Tellers') = Cardinality(Tellers) + 1
    BY <2>5, RequestAssumption, TellersFinite, FS_AddElement
  <2>7. EventInv'
    <3>1. deletions' = deletions + 1 /\ disconnected' = disconnected
          /\ disconnected \in Nat /\ connected' = connected /\ stored' = stored
      BY <1>1, <1>5 DEF events, IInv, Types
    <3>2. QED BY <1>3, <2>6, <3>1 DEF IInv, EventInv
  <2>8. QED BY <1>a, <1>1, <1>2, <1>3, <2>1, <2>2, <2>3, <2>4, <2>7, TellKeeps
<1>6. QED BY <1>4, <1>5

LEMMA AnswerDisconnectKeeps ==
  ASSUME IInv, NEW r \in Requests, AnswerDisconnect(r)
  PROVE  IInv'
<1>1. /\ Take(r, "idle", Idle) /\ pc[r] = "tell_disconnected"
      /\ disconnected' = disconnected + 1
      /\ UNCHANGED <<external, keyring, now, tables, connected, ghosts>>
  BY FinishTakes DEF AnswerDisconnect
<1>2. "idle" \in Pcs /\ Idle \in Jobs
  BY IdleJob DEF Pcs
<1>3. Tellers' = Tellers \ {r} /\ r \in Tellers
  BY <1>1, <1>2, TakeWrites DEF Tellers, IInv
<1>4. Cardinality(Tellers') = Cardinality(Tellers) - 1 /\ Cardinality(Tellers) \in Nat
  BY <1>3, RequestAssumption, TellersFinite, FS_RemoveElement, FS_CardinalityType
<1>5. EventInv'
  BY <1>1, <1>4 DEF IInv, EventInv, Types, ghosts
<1>6. UNCHANGED <<external, keyring, now, last, states, stored, exchanges,
                  superseded, consumers, connections, deletions>>
  BY <1>1 DEF tables, ghosts
<1>7. /\ connections' \in [Tenants \X Channels -> ConnectionRows \cup {None}]
      /\ \A a \in Tenants \X Channels : connections'[a] \in {connections[a], None}
      /\ disconnected' \in Nat /\ deletions' \in Nat
  BY <1>1, <1>6 DEF IInv, Types
<1>8. QED BY <1>1, <1>2, <1>5, <1>6, <1>7, IdleHolds, IdleApart, TellKeeps

-------------------------------------------------------------------------------
(* The process, and the theorems. *)

LEMMA RestartKeeps ==
  ASSUME IInv, Restart
  PROVE  IInv'
<1>1. /\ keyring' \in Accepted
      /\ pc' = [r \in Requests |-> "idle"]
      /\ job' = [r \in Requests |-> Idle]
      /\ connections' = [a \in Tenants \X Channels |->
            IF a \in environment THEN NewConnection(0, keyring') ELSE connections[a]]
      /\ UNCHANGED <<external, now, last, states, connected, disconnected, ghosts>>
  BY DEF Restart, Bootstrap
<1>2. NewConnection(0, keyring') \in ConnectionRows /\ NewConnection(0, keyring').id = 0
  BY <1>1 DEF NewConnection, ConnectionRows, EncryptedUnder, Accepted
<1>3. \A k : (Used(k)' <=> Used(k)) /\ (Spent(k)' <=> Spent(k)) /\ (Row(k)' <=> Row(k))
  BY <1>1 DEF Used, Spent, Row
<1>4. Types'
  <2>1. pc' \in [Requests -> Pcs] /\ job' \in [Requests -> Jobs]
    BY <1>1, IdleJob DEF Pcs
  <2>2. connections' \in [Tenants \X Channels -> ConnectionRows \cup {None}]
    BY <1>1, <1>2 DEF IInv, Types
  <2>3. QED BY <1>1, <2>1, <2>2 DEF IInv, Types, external, ghosts
<1>5. ThreadInv'
  <2>1. ASSUME NEW r \in Requests PROVE Holds(pc[r], job[r])'
    BY <1>1 DEF Holds, Idle, Completing, Sending
  <2>2. ASSUME NEW p \in Requests, NEW q \in Requests
        PROVE  Apart(pc[p], job[p], pc[q], job[q])'
    BY <1>1 DEF Apart, Idle, Sending
  <2>3. QED BY <2>1, <2>2 DEF ThreadInv
<1>6. StateInv'
  BY <1>1, <1>3 DEF IInv, StateInv, ghosts
<1>7. ConnectionInv'
  BY <1>1, <1>2, <1>3 DEF IInv, ConnectionInv
<1>8. EventInv'
  <2>1. Tellers' = {}
    BY <1>1 DEF Tellers
  <2>2. Cardinality(Tellers') = 0 /\ Cardinality(Tellers) \in Nat
    BY <2>1, FS_EmptySet, RequestAssumption, TellersFinite, FS_CardinalityType
  <2>3. QED BY <1>1, <2>2 DEF IInv, EventInv, Types, ghosts
<1>9. QED BY <1>4, <1>5, <1>6, <1>7, <1>8 DEF IInv

\* The clock, and steps that change nothing.
LEMMA StillKeeps ==
  ASSUME IInv, now' \in Nat, UNCHANGED <<rowsAndGhosts, keyring, threads>>
  PROVE  IInv'
<1> USE DEF rowsAndGhosts, external, ghosts, threads
<1>1. \A k : (Used(k)' <=> Used(k)) /\ (Spent(k)' <=> Spent(k)) /\ (Row(k)' <=> Row(k))
  BY DEF Used, Spent, Row
<1>2. Types'
  BY DEF IInv, Types
<1>3. ThreadInv'
  <2>1. ASSUME NEW r \in Requests PROVE Holds(pc[r], job[r])'
    BY <1>1 DEF IInv, ThreadInv, Holds
  <2>2. ASSUME NEW p \in Requests, NEW q \in Requests, p # q
        PROVE  Apart(pc[p], job[p], pc[q], job[q])'
    BY <2>2 DEF IInv, ThreadInv, Apart
  <2>3. QED BY <2>1, <2>2 DEF ThreadInv
<1>4. StateInv' /\ ConnectionInv'
  BY <1>1 DEF IInv, StateInv, ConnectionInv
<1>5. EventInv'
  BY DEF IInv, EventInv, Tellers
<1>6. QED BY <1>2, <1>3, <1>4, <1>5 DEF IInv

LEMMA Initially == Init => IInv
<1> SUFFICES ASSUME Init PROVE IInv
  OBVIOUS
<1>1. Types
  BY BootstrapAssumption, BoundAssumption, IdleJob
     DEF Init, Types, Pcs, Authorizations, BootstrapAssumption, BoundAssumption
<1>2. ThreadInv
  BY IdleHolds, IdleApart DEF Init, ThreadInv
<1>3. \A i \in Authorizations : ~Row(i)
  BY DEF Init, Row
<1>4. StateInv
  BY <1>3 DEF Init, StateInv, Used
<1>5. ConnectionInv
  BY DEF Init, ConnectionInv
<1>6. EventInv
  <2>1. Tellers = {}
    BY DEF Init, Tellers
  <2>2. QED BY <2>1, FS_EmptySet DEF Init, EventInv
<1>7. QED BY <1>1, <1>2, <1>4, <1>5, <1>6 DEF IInv

LEMMA Step == IInv /\ [Next]_vars => IInv'
<1> SUFFICES ASSUME IInv, [Next]_vars PROVE IInv'
  OBVIOUS
<1>1. CASE UNCHANGED vars
  <2>1. now' \in Nat /\ UNCHANGED <<rowsAndGhosts, keyring, threads>>
    BY <1>1 DEF vars, rowsAndGhosts, tables, events, IInv, Types
  <2>2. QED BY <2>1, StillKeeps
<1>2. CASE Tick
  <2>1. now' \in Nat /\ UNCHANGED <<rowsAndGhosts, keyring, threads>>
    BY <1>2 DEF Tick, rowsAndGhosts, tables, events, IInv, Types
  <2>2. QED BY <2>1, StillKeeps
<1>3. CASE Restart
  BY <1>3, RestartKeeps
<1>4. ASSUME NEW r \in Requests, NEW s \in Sessions, NEW c \in Channels,
             Start(r, s, c) \/ Disconnect(r, s, c)
      PROVE  IInv'
  BY <1>4, StartKeeps, DisconnectKeeps
<1>5. ASSUME NEW r \in Requests, NEW s \in Sessions, NEW i \in Authorizations,
             Callback(r, s, i)
      PROVE  IInv'
  BY <1>5, CallbackKeeps
<1>6. ASSUME NEW r \in Requests,
             \/ RequestToken(r) \/ CreateSqlite(r) \/ DeleteOlder(r) \/ InsertState(r)
             \/ AnswerStart(r) \/ Consume(r) \/ Decrypt(r) \/ Exchange(r) \/ Extend(r)
             \/ Upsert(r) \/ AnswerCallback(r) \/ ProviderFails(r) \/ Delete(r)
             \/ AnswerDisconnect(r)
      PROVE  IInv'
  BY <1>6, RequestTokenKeeps, CreateSqliteKeeps, DeleteOlderKeeps, InsertStateKeeps,
     AnswerStartKeeps, ConsumeKeeps, DecryptKeeps, ExchangeKeeps, ExtendKeeps,
     UpsertKeeps, AnswerCallbackKeeps, ProviderFailsKeeps, DeleteKeeps,
     AnswerDisconnectKeeps
<1>7. QED BY <1>1, <1>2, <1>3, <1>4, <1>5, <1>6 DEF Next

\* The invariant holds in every reachable state, for every value of the
\* constants.
THEOREM Invariant == Spec => []IInv
  BY Initially, Step, PTL DEF Spec

\* No repetition, delay or concurrency of callbacks, and no restart, sends an
\* authorization to the provider twice.
THEOREM ExchangedOnce == Spec => []ExchangesHappenOnce
<1>1. IInv => ExchangesHappenOnce
  BY DEF IInv, StateInv, ExchangesHappenOnce
<1>2. QED BY <1>1, Invariant, PTL

\* Every connection stored by a callback is of the session that has started
\* it, in the tenant and the channel of that session.
THEOREM ConnectionsBelong == Spec => []ConnectionsAreOfTheirSession
<1>1. IInv => ConnectionsAreOfTheirSession
  BY DEF IInv, ConnectionInv, StateInv, Used, Row, ConnectionsAreOfTheirSession
<1>2. QED BY <1>1, Invariant, PTL

\* No event tells a connection that was not stored, and there are never more
\* disconnects told than connections deleted.
THEOREM EventsTellTheTruth == Spec => []EventsAreTrue
<1>1. IInv => EventsAreTrue
  <2> SUFFICES ASSUME IInv PROVE EventsAreTrue
    OBVIOUS
  <2>1. Cardinality(Tellers) \in Nat
    BY RequestAssumption, TellersFinite, FS_CardinalityType
  <2>2. QED BY <2>1 DEF IInv, EventInv, Types, EventsAreTrue
<1>2. QED BY <1>1, Invariant, PTL

\* What a session had started before a start that was answered is consumed by
\* no callback afterwards.
THEOREM SupersededStay == Spec => SupersededAreRefused
<1>1. ASSUME IInv, [Next]_vars, NEW i \in Authorizations,
             consumers[i] = None, consumers'[i] # None
      PROVE  i \notin superseded
  <2>1. PICK r \in Requests : Consume(r)
    <3>1. consumers' # consumers
      BY <1>1
    <3>2. QED BY <1>1, <3>1
      DEF Next, vars, ghosts, Start, Disconnect, Callback, RequestToken, CreateSqlite,
          DeleteOlder, InsertState, AnswerStart, Decrypt, Exchange, Extend, Upsert,
          AnswerCallback, ProviderFails, Delete, AnswerDisconnect, Restart, Tick
  <2>2. Matches(r) /\ consumers' = [consumers EXCEPT ![job[r].id] = job[r].session]
    BY <1>1, <2>1 DEF Consume
  <2>3. i = job[r].id
    BY <1>1, <2>2 DEF IInv, Types
  <2>4. ~Spent(i)
    BY <2>2, <2>3 DEF Matches, Spent, Row
  <2>5. QED BY <1>1, <2>4 DEF IInv, StateInv
<1>2. IInv /\ [Next]_vars =>
        [\A i \in Authorizations :
            (consumers[i] = None /\ consumers'[i] # None) => i \notin superseded]_vars
  BY <1>1
<1>3. QED BY <1>2, Invariant, PTL DEF Spec, SupersededAreRefused

================================================================================
