-------------------------- MODULE ConnectionPoolProofs --------------------------
(***************************************************************************)
(* Proofs about ConnectionPool, for any finite set of threads and any      *)
(* sizes.  Every invariant counts the threads that are in a set of program *)
(* counters, so the proof has two lemmas that say how a step changes such  *)
(* a count, one for a step that notifies and one for a step that does not, *)
(* and applies them to each action.                                        *)
(***************************************************************************)
EXTENDS ConnectionPool, FiniteSetTheorems, TLAPS

\* The threads whose connection takes a place of the pool, or has one at the
\* server still.
Occupying == Holding \cup {"close_released"}

\* The threads that have a connection or were told of one.
Claiming == Holding \cup {"notified"}

Held == Cardinality(With(Holding))
Occupied == Cardinality(With(Occupying))
AtServer == Cardinality(With(Connected))
Claims == Cardinality(With(Claiming))

\* The total is exact; idle connections, those that close() is closing and
\* those of threads never exceed the maximum together; and they are the
\* connections of the server, but for those that are being made.
Counts ==
    /\ idle \in Nat /\ total \in Nat /\ dropping \in Nat /\ open \in Nat
    /\ total = idle + Held
    /\ idle + dropping + Occupied <= MaxSize
    /\ open = idle + dropping + AtServer

\* Only a closed pool has connections that are out of the total and open; it
\* has nothing idle, and nobody waits for it.
ClosedShape ==
    /\ ~closed => dropping = 0 /\ \A t \in Threads : pc[t] # "close_released"
    /\ closed => idle = 0 /\ Waiters = {}

Shape ==
    /\ closed \in BOOLEAN /\ late \subseteq Threads /\ pc \in [Threads -> Pcs]
    /\ ClosedShape
    /\ Waiters # {} => Claims >= MaxSize

IInv == Counts /\ Shape

-------------------------------------------------------------------------------
(* Counting threads. *)

In(f, S) == {t \in Threads : f[t] \in S}

Bit(x, S) == IF x \in S THEN 1 ELSE 0

\* Program counters g are those of f, except that t has moved to n.
Moves(f, g, t, n) == f \in [Threads -> Pcs] /\ g = [f EXCEPT ![t] = n]

LEMMA CountIsNat ==
    ASSUME NEW f, NEW S
    PROVE  IsFiniteSet(In(f, S)) /\ Cardinality(In(f, S)) \in Nat
  <1>1. In(f, S) \subseteq Threads
    BY DEF In
  <1>2. IsFiniteSet(In(f, S))
    BY <1>1, FS_Subset, ThreadAssumption
  <1> QED
    BY <1>2, FS_CardinalityType

\* When one thread moves, a count changes by its leaving and its entering.
LEMMA CountMoves ==
    ASSUME NEW f, NEW g, NEW t \in Threads, NEW n, Moves(f, g, t, n), NEW S
    PROVE  Cardinality(In(g, S)) =
               Cardinality(In(f, S)) + Bit(n, S) - Bit(f[t], S)
  <1>0. IsFiniteSet(In(f, S)) /\ Cardinality(In(f, S)) \in Nat
    BY CountIsNat
  <1>1. \A u \in Threads : g[u] = IF u = t THEN n ELSE f[u]
    BY DEF Moves
  <1>2. CASE n \in S /\ f[t] \in S
    <2>1. In(g, S) = In(f, S)
      BY <1>1, <1>2 DEF In
    <2> QED
      BY <2>1, <1>0, <1>2 DEF Bit
  <1>3. CASE n \in S /\ f[t] \notin S
    <2>1. In(g, S) = In(f, S) \cup {t} /\ t \notin In(f, S)
      BY <1>1, <1>3 DEF In
    <2>2. Cardinality(In(g, S)) = Cardinality(In(f, S)) + 1
      BY <2>1, <1>0, FS_AddElement
    <2> QED
      BY <2>2, <1>0, <1>3 DEF Bit
  <1>4. CASE n \notin S /\ f[t] \in S
    <2>1. In(g, S) = In(f, S) \ {t} /\ t \in In(f, S)
      BY <1>1, <1>4 DEF In
    <2>2. Cardinality(In(g, S)) = Cardinality(In(f, S)) - 1
      BY <2>1, <1>0, FS_RemoveElement
    <2> QED
      BY <2>2, <1>0, <1>4 DEF Bit
  <1>5. CASE n \notin S /\ f[t] \notin S
    <2>1. In(g, S) = In(f, S)
      BY <1>1, <1>5 DEF In
    <2> QED
      BY <2>1, <1>0, <1>5 DEF Bit
  <1> QED
    BY <1>2, <1>3, <1>4, <1>5

\* A step without a notification.
LEMMA GotoCounts ==
    ASSUME TypeOK, NEW t \in Threads, NEW n, Goto(t, n), NEW S
    PROVE  /\ Cardinality(With(S)') =
                  Cardinality(With(S)) + Bit(n, S) - Bit(pc[t], S)
           /\ Cardinality(With(S)) \in Nat
           /\ Cardinality(With(S)') \in Nat
  <1>1. With(S) = In(pc, S) /\ With(S)' = In(pc', S)
    BY DEF With, In
  <1>2. Moves(pc, pc', t, n)
    BY DEF TypeOK, Goto, Moves
  <1>3. Cardinality(In(pc', S)) =
            Cardinality(In(pc, S)) + Bit(n, S) - Bit(pc[t], S)
    BY <1>2, CountMoves
  <1> QED
    BY <1>1, <1>3, CountIsNat

\* A step with a notification: a waiter moves too, if there is one.
LEMMA NotifyCounts ==
    ASSUME TypeOK, NEW t \in Threads, pc[t] # "waiting", NEW n \in Pcs,
           Notify(t, n), NEW S, "waiting" \notin S
    PROVE  /\ Cardinality(With(S)') =
                  Cardinality(With(S)) + Bit(n, S) - Bit(pc[t], S)
                      + (IF Waiters # {} THEN Bit("notified", S) ELSE 0)
           /\ Cardinality(With(S)) \in Nat
           /\ Cardinality(With(S)') \in Nat
  <1>0. Cardinality(With(S)) \in Nat /\ Cardinality(With(S)') \in Nat
    <2>1. With(S) = In(pc, S) /\ With(S)' = In(pc', S)
      BY DEF With, In
    <2> QED
      BY <2>1, CountIsNat
  <1>1. CASE Waiters = {}
    <2>1. Goto(t, n)
      BY <1>1 DEF Notify
    <2>2. Cardinality(With(S)') =
              Cardinality(With(S)) + Bit(n, S) - Bit(pc[t], S)
      BY <2>1, GotoCounts
    <2> QED
      BY <1>0, <1>1, <2>2 DEF Bit
  <1>2. CASE Waiters # {}
    <2>1. PICK w \in Waiters : pc' = [pc EXCEPT ![t] = n, ![w] = "notified"]
      BY <1>2 DEF Notify
    <2> DEFINE f == [pc EXCEPT ![t] = n]
    <2>2. w \in Threads /\ pc[w] = "waiting" /\ w # t
      BY DEF Waiters, With
    <2>3. pc \in [Threads -> Pcs]
      BY DEF TypeOK
    <2>4. f \in [Threads -> Pcs] /\ f[w] = "waiting"
      BY <2>2, <2>3
    <2>5. pc' = [f EXCEPT ![w] = "notified"]
      BY <2>1
    <2>6. Cardinality(In(f, S)) = Cardinality(In(pc, S)) + Bit(n, S) - Bit(pc[t], S)
      <3>1. Moves(pc, f, t, n)
        BY <2>3 DEF Moves
      <3> QED
        BY <3>1, CountMoves
    <2> HIDE DEF f
    <2>7. Cardinality(In(pc', S)) = Cardinality(In(f, S)) + Bit("notified", S)
                                        - Bit(f[w], S)
      <3>1. Moves(f, pc', w, "notified")
        BY <2>4, <2>5 DEF Moves
      <3> QED
        BY <2>2, <3>1, CountMoves
    <2>8. With(S) = In(pc, S) /\ With(S)' = In(pc', S)
      BY DEF With, In
    <2>9. Cardinality(In(f, S)) \in Nat
      BY CountIsNat
    <2> QED
      BY <1>0, <1>2, <2>4, <2>6, <2>7, <2>8, <2>9 DEF Bit
  <1> QED
    BY <1>1, <1>2

-------------------------------------------------------------------------------
(* How a step changes the four counts of the invariant. *)

CountsAreNat == Held \in Nat /\ Occupied \in Nat /\ AtServer \in Nat /\ Claims \in Nat

\* t goes to n, and one more thread is among the claimants if told.
CountsChange(t, n, told) ==
    /\ CountsAreNat /\ CountsAreNat'
    /\ Held' = Held + Bit(n, Holding) - Bit(pc[t], Holding)
    /\ Occupied' = Occupied + Bit(n, Occupying) - Bit(pc[t], Occupying)
    /\ AtServer' = AtServer + Bit(n, Connected) - Bit(pc[t], Connected)
    /\ Claims' = Claims + Bit(n, Claiming) - Bit(pc[t], Claiming) + told

\* Nobody else begins to wait, or to close what was released.
OthersStay(n) ==
    /\ pc' \in [Threads -> Pcs]
    /\ n # "waiting" => (Waiters' # {} => Waiters # {})
    /\ n # "close_released" =>
           \A u \in Threads : pc'[u] = "close_released" => pc[u] = "close_released"

LEMMA GotoSteps ==
    ASSUME TypeOK, NEW t \in Threads, NEW n \in Pcs, Goto(t, n)
    PROVE  CountsChange(t, n, 0) /\ OthersStay(n)
  <1>1. CountsChange(t, n, 0)
    <2>1. /\ Held' = Held + Bit(n, Holding) - Bit(pc[t], Holding)
          /\ Held \in Nat /\ Held' \in Nat
      BY GotoCounts DEF Held
    <2>2. /\ Occupied' = Occupied + Bit(n, Occupying) - Bit(pc[t], Occupying)
          /\ Occupied \in Nat /\ Occupied' \in Nat
      BY GotoCounts DEF Occupied
    <2>3. /\ AtServer' = AtServer + Bit(n, Connected) - Bit(pc[t], Connected)
          /\ AtServer \in Nat /\ AtServer' \in Nat
      BY GotoCounts DEF AtServer
    <2>4. /\ Claims' = Claims + Bit(n, Claiming) - Bit(pc[t], Claiming)
          /\ Claims \in Nat /\ Claims' \in Nat
      BY GotoCounts DEF Claims
    <2>5. Bit(n, Claiming) \in Nat /\ Bit(pc[t], Claiming) \in Nat
      BY DEF Bit
    <2> QED
      BY <2>1, <2>2, <2>3, <2>4, <2>5 DEF CountsChange, CountsAreNat
  <1>2. OthersStay(n)
    BY DEF TypeOK, Goto, OthersStay, Waiters, With
  <1> QED
    BY <1>1, <1>2

\* What a notification adds to the claimants.
Told == IF Waiters # {} THEN 1 ELSE 0

LEMMA NotifySteps ==
    ASSUME TypeOK, NEW t \in Threads, pc[t] # "waiting", NEW n \in Pcs, Notify(t, n)
    PROVE  CountsChange(t, n, Told) /\ OthersStay(n)
  <1>1. CountsChange(t, n, Told)
    <2>0. /\ "waiting" \notin Holding /\ "waiting" \notin Occupying
          /\ "waiting" \notin Connected /\ "waiting" \notin Claiming
      BY DEF Holding, Occupying, Connected, Claiming, Discarding
    <2>5. /\ Bit("notified", Holding) = 0 /\ Bit("notified", Occupying) = 0
          /\ Bit("notified", Connected) = 0 /\ Bit("notified", Claiming) = 1
      BY DEF Holding, Occupying, Connected, Claiming, Discarding, Bit
    <2>6. /\ Bit(n, Holding) \in Nat /\ Bit(pc[t], Holding) \in Nat
          /\ Bit(n, Occupying) \in Nat /\ Bit(pc[t], Occupying) \in Nat
          /\ Bit(n, Connected) \in Nat /\ Bit(pc[t], Connected) \in Nat
          /\ Bit(n, Claiming) \in Nat /\ Bit(pc[t], Claiming) \in Nat
      BY DEF Bit
    <2>1. /\ Held' = Held + Bit(n, Holding) - Bit(pc[t], Holding)
          /\ Held \in Nat /\ Held' \in Nat
      BY <2>0, <2>5, <2>6, NotifyCounts DEF Held
    <2>2. /\ Occupied' = Occupied + Bit(n, Occupying) - Bit(pc[t], Occupying)
          /\ Occupied \in Nat /\ Occupied' \in Nat
      BY <2>0, <2>5, <2>6, NotifyCounts DEF Occupied
    <2>3. /\ AtServer' = AtServer + Bit(n, Connected) - Bit(pc[t], Connected)
          /\ AtServer \in Nat /\ AtServer' \in Nat
      BY <2>0, <2>5, <2>6, NotifyCounts DEF AtServer
    <2>4. /\ Claims' = Claims + Bit(n, Claiming) - Bit(pc[t], Claiming) + Told
          /\ Claims \in Nat /\ Claims' \in Nat
      BY <2>0, <2>5, <2>6, NotifyCounts DEF Claims, Told
    <2> QED
      BY <2>1, <2>2, <2>3, <2>4 DEF CountsChange, CountsAreNat
  <1>2. OthersStay(n)
    <2>1. CASE Waiters = {}
      BY <2>1, GotoSteps DEF Notify
    <2>2. CASE Waiters # {}
      BY <2>2 DEF TypeOK, Notify, OthersStay, Waiters, With, Pcs
    <2> QED
      BY <2>1, <2>2
  <1> QED
    BY <1>1, <1>2
-------------------------------------------------------------------------------
(* The counts compared. *)

LEMMA IInvIsTyped == IInv => TypeOK
  BY DEF IInv, TypeOK, Counts, Shape

LEMMA CountsCompare ==
    ASSUME IInv
    PROVE  /\ CountsAreNat
           /\ Held <= Claims
           /\ ~closed => Occupied = Held
  <1>1. CountsAreNat
    <2>1. \A S : With(S) = In(pc, S)
      BY DEF With, In
    <2> QED
      BY <2>1, CountIsNat DEF CountsAreNat, Held, Occupied, AtServer, Claims
  <1>2. Held <= Claims
    <2>1. With(Holding) \subseteq With(Claiming) /\ With(Claiming) = In(pc, Claiming)
      BY DEF With, In, Claiming
    <2>2. IsFiniteSet(With(Claiming))
      BY <2>1, CountIsNat
    <2> QED
      BY <2>1, <2>2, FS_Subset DEF Held, Claims
  <1>3. ~closed => Occupied = Held
    <2>1. ~closed => With(Occupying) = With(Holding)
      BY DEF IInv, Shape, ClosedShape, With, Occupying
    <2> QED
      BY <2>1 DEF Held, Occupied
  <1> QED
    BY <1>1, <1>2, <1>3

-------------------------------------------------------------------------------
(* The actions preserve the invariant. *)

LEMMA BeginKeeps ==
    ASSUME IInv, NEW t \in Threads, Begin(t)
    PROVE  IInv'
  <1>1. pc[t] \in {"out"}
    BY DEF Begin
  <1>2. CountsChange(t, "checkout", 0) /\ OthersStay("checkout")
    BY <1>1, GotoSteps, IInvIsTyped DEF Begin, Pcs, Holding, Discarding
  <1>3. Counts'
    BY <1>1, <1>2, CountsCompare, SizeAssumption
       DEF Begin, IInv, Counts, CountsChange, CountsAreNat, Bit, Holding, Occupying, Connected, Claiming, Discarding
  <1>4. Shape'
    BY <1>1, <1>2, CountsCompare, SizeAssumption
       DEF Begin, IInv, Counts, Shape, ClosedShape, CountsChange, CountsAreNat,
           OthersStay, Ends, Bit, Holding, Occupying, Connected, Claiming, Discarding
  <1> QED
    BY <1>3, <1>4 DEF IInv

LEMMA RefuseClosedKeeps ==
    ASSUME IInv, NEW t \in Threads, RefuseClosed(t)
    PROVE  IInv'
  <1>1. pc[t] \in {"checkout", "notified", "waiting"}
    BY DEF RefuseClosed, Runs
  <1>2. CountsChange(t, "out", 0) /\ OthersStay("out")
    BY <1>1, GotoSteps, IInvIsTyped DEF RefuseClosed, Pcs, Holding, Discarding
  <1>3. Counts'
    BY <1>1, <1>2, CountsCompare, SizeAssumption
       DEF RefuseClosed, IInv, Counts, CountsChange, CountsAreNat, Bit, Holding, Occupying, Connected, Claiming, Discarding
  <1>4. Shape'
    BY <1>1, <1>2, CountsCompare, SizeAssumption
       DEF RefuseClosed, IInv, Counts, Shape, ClosedShape, CountsChange, CountsAreNat,
           OthersStay, Ends, Bit, Holding, Occupying, Connected, Claiming, Discarding
  <1> QED
    BY <1>3, <1>4 DEF IInv

LEMMA TakeIdleKeeps ==
    ASSUME IInv, NEW t \in Threads, TakeIdle(t)
    PROVE  IInv'
  <1>1. pc[t] \in {"checkout", "notified", "waiting"}
    BY DEF TakeIdle, Runs
  <1>2. CountsChange(t, "ping", 0) /\ OthersStay("ping")
    BY <1>1, GotoSteps, IInvIsTyped DEF TakeIdle, Pcs, Holding, Discarding
  <1>3. Counts'
    BY <1>1, <1>2, CountsCompare, SizeAssumption
       DEF TakeIdle, IInv, Counts, CountsChange, CountsAreNat, Bit, Holding, Occupying, Connected, Claiming, Discarding
  <1>4. Shape'
    BY <1>1, <1>2, CountsCompare, SizeAssumption
       DEF TakeIdle, IInv, Counts, Shape, ClosedShape, CountsChange, CountsAreNat,
           OthersStay, Ends, Bit, Holding, Occupying, Connected, Claiming, Discarding
  <1> QED
    BY <1>3, <1>4 DEF IInv

LEMMA ReservePlaceKeeps ==
    ASSUME IInv, NEW t \in Threads, ReservePlace(t)
    PROVE  IInv'
  <1>1. pc[t] \in {"checkout", "notified", "waiting"}
    BY DEF ReservePlace, Runs
  <1>2. CountsChange(t, "connect", 0) /\ OthersStay("connect")
    BY <1>1, GotoSteps, IInvIsTyped DEF ReservePlace, Pcs, Holding, Discarding
  <1>3. Counts'
    BY <1>1, <1>2, CountsCompare, SizeAssumption
       DEF ReservePlace, IInv, Counts, Shape, ClosedShape, CountsChange, CountsAreNat, Bit, Holding, Occupying, Connected, Claiming, Discarding
  <1>4. Shape'
    BY <1>1, <1>2, CountsCompare, SizeAssumption
       DEF ReservePlace, IInv, Counts, Shape, ClosedShape, CountsChange, CountsAreNat,
           OthersStay, Ends, Bit, Holding, Occupying, Connected, Claiming, Discarding
  <1> QED
    BY <1>3, <1>4 DEF IInv

LEMMA ConnectKeeps ==
    ASSUME IInv, NEW t \in Threads, Connect(t)
    PROVE  IInv'
  <1>1. pc[t] \in {"connect"}
    BY DEF Connect
  <1>2. CountsChange(t, "ping", 0) /\ OthersStay("ping")
    BY <1>1, GotoSteps, IInvIsTyped DEF Connect, Pcs, Holding, Discarding
  <1>3. Counts'
    BY <1>1, <1>2, CountsCompare, SizeAssumption
       DEF Connect, IInv, Counts, CountsChange, CountsAreNat, Bit, Holding, Occupying, Connected, Claiming, Discarding
  <1>4. Shape'
    BY <1>1, <1>2, CountsCompare, SizeAssumption
       DEF Connect, IInv, Counts, Shape, ClosedShape, CountsChange, CountsAreNat,
           OthersStay, Ends, Bit, Holding, Occupying, Connected, Claiming, Discarding
  <1> QED
    BY <1>3, <1>4 DEF IInv

LEMMA ConnectFailsKeeps ==
    ASSUME IInv, NEW t \in Threads, ConnectFails(t)
    PROVE  IInv'
  <1>1. pc[t] \in {"connect"}
    BY DEF ConnectFails
  <1>2. CountsChange(t, "out", Told) /\ OthersStay("out")
    BY <1>1, NotifySteps, IInvIsTyped DEF ConnectFails, Pcs, Holding, Discarding
  <1>3. Counts'
    BY <1>1, <1>2, CountsCompare, SizeAssumption
       DEF ConnectFails, IInv, Counts, CountsChange, CountsAreNat, Bit, Holding, Occupying, Connected, Claiming, Discarding
  <1>4. Shape'
    BY <1>1, <1>2, CountsCompare, SizeAssumption
       DEF ConnectFails, IInv, Counts, Shape, ClosedShape, CountsChange, CountsAreNat,
           OthersStay, Ends, Told, Bit, Holding, Occupying, Connected, Claiming, Discarding
  <1> QED
    BY <1>3, <1>4 DEF IInv

LEMMA PingKeeps ==
    ASSUME IInv, NEW t \in Threads, Ping(t)
    PROVE  IInv'
  <1>1. pc[t] \in {"ping"}
    BY DEF Ping
  <1>2. PICK n \in {"recheck", "discard_unhealthy"} : CountsChange(t, n, 0) /\ OthersStay(n)
    BY <1>1, GotoSteps, IInvIsTyped DEF Ping, Pcs, Holding, Discarding
  <1>3. Counts'
    BY <1>1, <1>2, CountsCompare, SizeAssumption
       DEF Ping, IInv, Counts, CountsChange, CountsAreNat, Bit, Holding, Occupying, Connected, Claiming, Discarding
  <1>4. Shape'
    BY <1>1, <1>2, CountsCompare, SizeAssumption
       DEF Ping, IInv, Counts, Shape, ClosedShape, CountsChange, CountsAreNat,
           OthersStay, Ends, Bit, Holding, Occupying, Connected, Claiming, Discarding
  <1> QED
    BY <1>3, <1>4 DEF IInv

LEMMA RecheckKeeps ==
    ASSUME IInv, NEW t \in Threads, Recheck(t)
    PROVE  IInv'
  <1>1. pc[t] \in {"recheck"}
    BY DEF Recheck
  <1>2. PICK n \in {"discard_closed", "using"} : CountsChange(t, n, 0) /\ OthersStay(n)
    BY <1>1, GotoSteps, IInvIsTyped DEF Recheck, Pcs, Holding, Discarding
  <1>3. Counts'
    BY <1>1, <1>2, CountsCompare, SizeAssumption
       DEF Recheck, IInv, Counts, CountsChange, CountsAreNat, Bit, Holding, Occupying, Connected, Claiming, Discarding
  <1>4. Shape'
    BY <1>1, <1>2, CountsCompare, SizeAssumption
       DEF Recheck, IInv, Counts, Shape, ClosedShape, CountsChange, CountsAreNat,
           OthersStay, Ends, Bit, Holding, Occupying, Connected, Claiming, Discarding
  <1> QED
    BY <1>3, <1>4 DEF IInv

LEMMA DiscardKeeps ==
    ASSUME IInv, NEW t \in Threads, Discard(t)
    PROVE  IInv'
  <1>1. pc[t] \in {"discard_unhealthy", "discard_closed", "discard_broken"}
    BY DEF Discard, Discarding
  <1>2. PICK n \in {"forget_unhealthy", "forget_closed"} : CountsChange(t, n, 0) /\ OthersStay(n)
    BY <1>1, GotoSteps, IInvIsTyped DEF Discard, Pcs, Holding, Discarding
  <1>3. Counts'
    BY <1>1, <1>2, CountsCompare, SizeAssumption
       DEF Discard, IInv, Counts, CountsChange, CountsAreNat, Bit, Holding, Occupying, Connected, Claiming, Discarding
  <1>4. Shape'
    BY <1>1, <1>2, CountsCompare, SizeAssumption
       DEF Discard, IInv, Counts, Shape, ClosedShape, CountsChange, CountsAreNat,
           OthersStay, Ends, Bit, Holding, Occupying, Connected, Claiming, Discarding
  <1> QED
    BY <1>3, <1>4 DEF IInv

LEMMA ForgetKeeps ==
    ASSUME IInv, NEW t \in Threads, Forget(t)
    PROVE  IInv'
  <1>1. pc[t] \in {"forget_unhealthy", "forget_closed"}
    BY DEF Forget
  <1>2. PICK n \in {"checkout", "out"} : CountsChange(t, n, Told) /\ OthersStay(n)
    BY <1>1, NotifySteps, IInvIsTyped DEF Forget, Pcs, Holding, Discarding
  <1>3. Counts'
    BY <1>1, <1>2, CountsCompare, SizeAssumption
       DEF Forget, IInv, Counts, CountsChange, CountsAreNat, Bit, Holding, Occupying, Connected, Claiming, Discarding
  <1>4. Shape'
    BY <1>1, <1>2, CountsCompare, SizeAssumption
       DEF Forget, IInv, Counts, Shape, ClosedShape, CountsChange, CountsAreNat,
           OthersStay, Ends, Told, Bit, Holding, Occupying, Connected, Claiming, Discarding
  <1> QED
    BY <1>3, <1>4 DEF IInv

LEMMA EndTransactionKeeps ==
    ASSUME IInv, NEW t \in Threads, EndTransaction(t)
    PROVE  IInv'
  <1>1. pc[t] \in {"using"}
    BY DEF EndTransaction
  <1>2. PICK n \in {"release", "discard_broken"} : CountsChange(t, n, 0) /\ OthersStay(n)
    BY <1>1, GotoSteps, IInvIsTyped DEF EndTransaction, Pcs, Holding, Discarding
  <1>3. Counts'
    BY <1>1, <1>2, CountsCompare, SizeAssumption
       DEF EndTransaction, IInv, Counts, CountsChange, CountsAreNat, Bit, Holding, Occupying, Connected, Claiming, Discarding
  <1>4. Shape'
    BY <1>1, <1>2, CountsCompare, SizeAssumption
       DEF EndTransaction, IInv, Counts, Shape, ClosedShape, CountsChange, CountsAreNat,
           OthersStay, Ends, Bit, Holding, Occupying, Connected, Claiming, Discarding
  <1> QED
    BY <1>3, <1>4 DEF IInv

LEMMA CloseReleasedKeeps ==
    ASSUME IInv, NEW t \in Threads, CloseReleased(t)
    PROVE  IInv'
  <1>1. pc[t] \in {"close_released"}
    BY DEF CloseReleased
  <1>2. CountsChange(t, "out", 0) /\ OthersStay("out")
    BY <1>1, GotoSteps, IInvIsTyped DEF CloseReleased, Pcs, Holding, Discarding
  <1>3. Counts'
    BY <1>1, <1>2, CountsCompare, SizeAssumption
       DEF CloseReleased, IInv, Counts, CountsChange, CountsAreNat, Bit, Holding, Occupying, Connected, Claiming, Discarding
  <1>4. Shape'
    BY <1>1, <1>2, CountsCompare, SizeAssumption
       DEF CloseReleased, IInv, Counts, Shape, ClosedShape, CountsChange, CountsAreNat,
           OthersStay, Ends, Bit, Holding, Occupying, Connected, Claiming, Discarding
  <1> QED
    BY <1>3, <1>4 DEF IInv

\* A thread that begins to wait has seen every place taken.
LEMMA WaitKeeps ==
    ASSUME IInv, NEW t \in Threads, Wait(t)
    PROVE  IInv'
  <1>1. pc[t] \in {"checkout", "notified", "waiting"}
    BY DEF Wait, Runs
  <1>2. PICK n \in {"out", "waiting"} : CountsChange(t, n, 0) /\ OthersStay(n)
    BY GotoSteps, IInvIsTyped DEF Wait, Pcs
  <1>3. Counts'
    BY <1>1, <1>2, CountsCompare, SizeAssumption
       DEF Wait, IInv, Counts, CountsChange, CountsAreNat, Bit, Holding, Occupying, Connected, Claiming, Discarding
  <1>4. Shape'
    <2>1. Held' >= MaxSize /\ Claims' >= Claims - 1
      BY <1>1, <1>2, CountsCompare, SizeAssumption
         DEF Wait, IInv, Counts, CountsChange, CountsAreNat, Bit, Holding, Occupying, Connected, Claiming, Discarding
    <2>2. Held' <= Claims'
      <3>1. pc' \in [Threads -> Pcs]
        BY <1>2 DEF OthersStay
      <3>2. With(Holding)' \subseteq With(Claiming)' /\ With(Claiming)' = In(pc', Claiming)
        BY DEF With, In, Claiming
      <3>3. IsFiniteSet(With(Claiming)')
        BY <3>2, CountIsNat
      <3> QED
        BY <3>2, <3>3, FS_Subset DEF Held, Claims
    <2>3. Claims' >= MaxSize
      BY <1>2, <2>1, <2>2, SizeAssumption DEF CountsChange, CountsAreNat
    <2> QED
      BY <1>1, <1>2, <2>3 DEF Wait, IInv, Shape, ClosedShape, OthersStay, Ends
  <1> QED
    BY <1>3, <1>4 DEF IInv

LEMMA ReleaseKeeps ==
    ASSUME IInv, NEW t \in Threads, Release(t)
    PROVE  IInv'
  <1>1. pc[t] = "release"
    BY DEF Release
  <1>2. CASE closed
    <2>1. CountsChange(t, "close_released", 0) /\ OthersStay("close_released")
      BY <1>2, GotoSteps, IInvIsTyped DEF Release, Pcs
    <2>2. Counts'
      BY <1>1, <1>2, <2>1, CountsCompare, SizeAssumption
         DEF Release, IInv, Counts, CountsChange, CountsAreNat, Bit, Holding, Occupying, Connected, Claiming, Discarding
    <2>3. Shape'
      BY <1>1, <1>2, <2>1
         DEF Release, IInv, Shape, ClosedShape, OthersStay
    <2> QED
      BY <2>2, <2>3 DEF IInv
  <1>3. CASE ~closed
    <2>1. CountsChange(t, "out", Told) /\ OthersStay("out")
      BY <1>1, <1>3, NotifySteps, IInvIsTyped DEF Release, Pcs
    <2>2. Counts'
      BY <1>1, <1>3, <2>1, CountsCompare, SizeAssumption
         DEF Release, IInv, Counts, Shape, ClosedShape, CountsChange, CountsAreNat,
             Bit, Holding, Occupying, Connected, Claiming, Discarding
    <2>3. Shape'
      BY <1>1, <1>3, <2>1, CountsCompare, SizeAssumption
         DEF Release, IInv, Shape, ClosedShape, CountsChange, CountsAreNat,
             OthersStay, Told, Bit, Holding, Occupying, Connected, Claiming, Discarding
    <2> QED
      BY <2>2, <2>3 DEF IInv
  <1>4. closed \in BOOLEAN
    BY DEF IInv, Shape
  <1> QED
    BY <1>2, <1>3, <1>4

\* A step that moves no thread leaves every count as it is.
LEMMA StillCounts ==
    ASSUME UNCHANGED pc
    PROVE  /\ Held' = Held /\ Occupied' = Occupied /\ AtServer' = AtServer
           /\ Claims' = Claims /\ Waiters' = Waiters
  BY DEF Held, Occupied, AtServer, Claims, Waiters, With

LEMMA DeadlinePassesKeeps ==
    ASSUME IInv, NEW t \in Threads, DeadlinePasses(t)
    PROVE  IInv'
  <1>1. UNCHANGED <<idle, total, closed, dropping, open, pc>>
    BY DEF DeadlinePasses
  <1> QED
    BY <1>1, StillCounts DEF DeadlinePasses, IInv, Counts, Shape, ClosedShape

LEMMA CloseIdleKeeps ==
    ASSUME IInv, CloseIdle
    PROVE  IInv'
  <1>1. UNCHANGED <<idle, total, closed, late, pc>>
    BY DEF CloseIdle
  <1>2. Counts'
    BY <1>1, StillCounts, CountsCompare, SizeAssumption
       DEF CloseIdle, IInv, Counts, CountsAreNat
  <1>3. Shape'
    BY <1>1, StillCounts DEF CloseIdle, IInv, Shape, ClosedShape, Counts
  <1> QED
    BY <1>2, <1>3 DEF IInv

\* close() moves the idle connections from the total to those being closed,
\* and wakes every waiter.
LEMMA CloseKeeps ==
    ASSUME IInv, Close
    PROVE  IInv'
  <1>1. /\ \A t \in Threads : pc'[t] = IF pc[t] = "waiting" THEN "notified" ELSE pc[t]
        /\ pc' \in [Threads -> Pcs]
    BY DEF Close, NotifyAll, IInv, Shape, Pcs
  <1>2. Held' = Held /\ Occupied' = Occupied /\ AtServer' = AtServer
    <2>1. /\ With(Holding)' = With(Holding) /\ With(Occupying)' = With(Occupying)
          /\ With(Connected)' = With(Connected)
      BY <1>1 DEF With, Holding, Occupying, Connected, Discarding
    <2> QED
      BY <2>1 DEF Held, Occupied, AtServer
  <1>3. Counts'
    BY <1>2, CountsCompare, SizeAssumption
       DEF Close, IInv, Counts, Shape, ClosedShape, CountsAreNat
  <1>4. Shape'
    <2>1. Waiters' = {}
      BY <1>1 DEF Waiters, With
    <2> QED
      BY <1>1, <2>1 DEF Close, IInv, Shape, ClosedShape
  <1> QED
    BY <1>3, <1>4 DEF IInv

-------------------------------------------------------------------------------
(* The theorems. *)

LEMMA InitIsInvariant == Init => IInv
  <1> SUFFICES ASSUME Init PROVE IInv
    OBVIOUS
  <1>1. \A S : "out" \notin S => Cardinality(With(S)) = 0
    <2> SUFFICES ASSUME NEW S, "out" \notin S PROVE Cardinality(With(S)) = 0
      OBVIOUS
    <2>1. With(S) = {}
      BY DEF Init, With
    <2> QED
      BY <2>1, FS_EmptySet
  <1>2. Held = 0 /\ Occupied = 0 /\ AtServer = 0
    <2>1. "out" \notin Holding /\ "out" \notin Occupying /\ "out" \notin Connected
      BY DEF Holding, Occupying, Connected, Discarding
    <2> QED
      BY <1>1, <2>1 DEF Held, Occupied, AtServer
  <1>3. Counts
    BY <1>2, SizeAssumption DEF Init, Counts
  <1>4. Shape
    BY DEF Init, Shape, ClosedShape, Waiters, With, Pcs
  <1> QED
    BY <1>3, <1>4 DEF IInv

LEMMA NextKeeps ==
    ASSUME IInv, [Next]_vars
    PROVE  IInv'
  <1>1. ASSUME NEW t \in Threads, Begin(t) \/ DeadlinePasses(t)
        PROVE  IInv'
    BY <1>1, BeginKeeps, DeadlinePassesKeeps
  <1>2. ASSUME NEW t \in Threads, Step(t)
        PROVE  IInv'
    BY <1>2, RefuseClosedKeeps, TakeIdleKeeps, ReservePlaceKeeps, WaitKeeps,
       ConnectKeeps, ConnectFailsKeeps, PingKeeps, RecheckKeeps, DiscardKeeps,
       ForgetKeeps, EndTransactionKeeps, ReleaseKeeps, CloseReleasedKeeps DEF Step
  <1>3. CASE Close
    BY <1>3, CloseKeeps
  <1>4. CASE CloseIdle
    BY <1>4, CloseIdleKeeps
  <1>5. CASE UNCHANGED vars
    <2>1. UNCHANGED pc
      BY <1>5 DEF vars
    <2> QED
      BY <1>5, <2>1, StillCounts DEF vars, IInv, Counts, Shape, ClosedShape
  <1> QED
    BY <1>1, <1>2, <1>3, <1>4, <1>5 DEF Next

\* The counts are right, and nobody waits in vain, in every reachable state.
THEOREM Invariant == Spec => []IInv
  <1>1. Init => IInv
    BY InitIsInvariant
  <1>2. IInv /\ [Next]_vars => IInv'
    BY NextKeeps
  <1> QED
    BY <1>1, <1>2, PTL DEF Spec

\* _total is exact, whichever path a connection left the pool by.
THEOREM ExactTotal == Spec => []TotalIsExact
  <1>1. IInv => TotalIsExact
    BY DEF IInv, Counts, TotalIsExact, Held
  <1> QED
    BY <1>1, Invariant, PTL

\* The server never has more connections of the pool than max_size.
THEOREM BoundedConnections == Spec => []ConnectionsAreBounded
  <1>1. IInv => ConnectionsAreBounded
    <2> SUFFICES ASSUME IInv PROVE ConnectionsAreBounded
      OBVIOUS
    <2>1. AtServer <= Occupied
      <3>1. With(Connected) \subseteq With(Occupying)
        BY DEF With, Connected, Occupying, Holding
      <3>2. IsFiniteSet(With(Occupying))
        <4>1. With(Occupying) = In(pc, Occupying)
          BY DEF With, In
        <4> QED
          BY <4>1, CountIsNat
      <3> QED
        BY <3>1, <3>2, FS_Subset DEF AtServer, Occupied
    <2> QED
      BY <2>1, CountsCompare, SizeAssumption
         DEF IInv, Counts, CountsAreNat, ConnectionsAreBounded
  <1> QED
    BY <1>1, Invariant, PTL

\* notify() is called often enough: while a thread waits, every place is taken
\* or was promised to a thread that is about to run.
THEOREM WakeupsAreKept == Spec => []NoLostWakeup
  <1>1. IInv => NoLostWakeup
    BY DEF IInv, Shape, NoLostWakeup, Claims, Claiming
  <1> QED
    BY <1>1, Invariant, PTL
===============================================================================
