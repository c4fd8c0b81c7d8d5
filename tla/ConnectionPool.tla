---------------------------- MODULE ConnectionPool ----------------------------
(***************************************************************************)
(* The pool of database connections that the threads of a replica share:   *)
(* a list of idle connections, a count of those that exist, and a          *)
(* condition variable on which a checkout waits until its deadline.        *)
(*                                                                         *)
(* What is done under the condition's lock is one step, and so is each     *)
(* call to the server: connect, the ping of a checkout, the end of a       *)
(* transaction, the close of a connection.  Idle connections differ only   *)
(* in whether their next ping succeeds, so they are counted.               *)
(***************************************************************************)
EXTENDS Naturals, FiniteSets

CONSTANTS
    Threads,  \* threads that check connections out
    MinSize,  \* connections opened by the constructor
    MaxSize   \* connections that may exist at a time

ASSUME ThreadAssumption == IsFiniteSet(Threads)
ASSUME SizeAssumption == MinSize \in Nat /\ MaxSize \in Nat \ {0} /\ MinSize <= MaxSize

VARIABLES
    idle,      \* length of _idle
    total,     \* _total
    closed,    \* _closed
    dropping,  \* connections that close() took from _idle and has not closed
    open,      \* connections the server has
    late,      \* threads whose checkout is past its deadline
    pc         \* thread -> what it does next

vars == <<idle, total, closed, dropping, open, late, pc>>

\* A thread that is about to close its connection and then to forget it; the
\* word says why, and so what it does afterwards.
Discarding == {"discard_unhealthy", "discard_closed", "discard_broken"}

\* A thread whose connection is part of the total.
Holding == {"connect", "ping", "recheck", "using", "release", "forget_unhealthy",
            "forget_closed"} \cup Discarding

\* A thread whose connection exists at the server.
Connected == {"ping", "recheck", "using", "release", "close_released"} \cup Discarding

Pcs == {"out", "checkout", "waiting", "notified", "close_released"} \cup Holding

With(S) == {t \in Threads : pc[t] \in S}

Waiters == With({"waiting"})

Init ==
    /\ idle = MinSize
    /\ total = MinSize
    /\ closed = FALSE
    /\ dropping = 0
    /\ open = MinSize
    /\ late = {}
    /\ pc = [t \in Threads |-> "out"]

-------------------------------------------------------------------------------
(* The condition variable. *)

Goto(t, next) == pc' = [pc EXCEPT ![t] = next]

\* Slip: a connection is given back, and nobody is told.
NotifySilent(t, next) == pc' = [pc EXCEPT ![t] = next]

\* notify: one waiter, if there is one, may run again.
Notify(t, next) ==
    IF Waiters = {}
    THEN Goto(t, next)
    ELSE \E w \in Waiters : pc' = [pc EXCEPT ![t] = next, ![w] = "notified"]

NotifyAll == pc' = [t \in Threads |-> IF pc[t] = "waiting" THEN "notified" ELSE pc[t]]

-------------------------------------------------------------------------------
(* _checkout. *)

Begin(t) ==
    /\ pc[t] = "out"
    /\ Goto(t, "checkout")
    /\ UNCHANGED <<idle, total, closed, dropping, open, late>>

DeadlinePasses(t) ==
    /\ pc[t] \in {"checkout", "waiting", "notified", "connect", "ping",
                  "discard_unhealthy", "forget_unhealthy"}
    /\ late' = late \cup {t}
    /\ UNCHANGED <<idle, total, closed, dropping, open, pc>>

\* A checkout ends: with a connection, or by an exception.
Ends(t) == late' = late \ {t}

\* A thread runs the loop under the lock when it comes to it, when it was
\* notified, and when wait() gives up.
Runs(t) == pc[t] \in {"checkout", "notified"} \/ (pc[t] = "waiting" /\ t \in late)

RefuseClosed(t) ==
    /\ Runs(t)
    /\ closed
    /\ Goto(t, "out")
    /\ Ends(t)
    /\ UNCHANGED <<idle, total, closed, dropping, open>>

TakeIdle(t) ==
    /\ Runs(t)
    /\ ~closed
    /\ idle > 0
    /\ idle' = idle - 1
    /\ Goto(t, "ping")
    /\ UNCHANGED <<total, closed, dropping, open, late>>

\* Slip: the place is taken as if the pool could grow by one.
ReservePlaceOffByOne(t) ==
    /\ Runs(t)
    /\ ~closed
    /\ idle = 0
    /\ total <= MaxSize
    /\ total' = total + 1
    /\ Goto(t, "connect")
    /\ UNCHANGED <<idle, closed, dropping, open, late>>

\* A place in the total is taken before the connection is made.
ReservePlace(t) ==
    /\ Runs(t)
    /\ ~closed
    /\ idle = 0
    /\ total < MaxSize
    /\ total' = total + 1
    /\ Goto(t, "connect")
    /\ UNCHANGED <<idle, closed, dropping, open, late>>

\* Slip: the remaining time is not looked at.
WaitForever(t) ==
    /\ Runs(t)
    /\ ~closed
    /\ idle = 0
    /\ total >= MaxSize
    /\ Goto(t, "waiting")
    /\ UNCHANGED <<idle, total, closed, dropping, open, late>>

\* Nothing is free: wait, or give up when the deadline has passed.
Wait(t) ==
    /\ Runs(t)
    /\ ~closed
    /\ idle = 0
    /\ total >= MaxSize
    /\ IF t \in late
       THEN Goto(t, "out") /\ Ends(t)
       ELSE Goto(t, "waiting") /\ UNCHANGED late
    /\ UNCHANGED <<idle, total, closed, dropping, open>>

Connect(t) ==
    /\ pc[t] = "connect"
    /\ open' = open + 1
    /\ Goto(t, "ping")
    /\ UNCHANGED <<idle, total, closed, dropping, late>>

ConnectFails(t) ==
    /\ pc[t] = "connect"
    /\ total' = total - 1
    /\ Notify(t, "out")
    /\ Ends(t)
    /\ UNCHANGED <<idle, closed, dropping, open>>

Ping(t) ==
    /\ pc[t] = "ping"
    /\ \E next \in {"recheck", "discard_unhealthy"} : Goto(t, next)
    /\ UNCHANGED <<idle, total, closed, dropping, open, late>>

\* The pool may have been closed since the connection was taken.
Recheck(t) ==
    /\ pc[t] = "recheck"
    /\ Goto(t, IF closed THEN "discard_closed" ELSE "using")
    /\ Ends(t)
    /\ UNCHANGED <<idle, total, closed, dropping, open>>

-------------------------------------------------------------------------------
(* _discard, connection and _release. *)

\* _discard closes the connection first, and counts it out under the lock.
Discard(t) ==
    /\ pc[t] \in Discarding
    /\ open' = open - 1
    /\ Goto(t, IF pc[t] = "discard_unhealthy" THEN "forget_unhealthy"
               ELSE "forget_closed")
    /\ UNCHANGED <<idle, total, closed, dropping, late>>

\* After an unhealthy connection the checkout tries again until its deadline.
Forget(t) ==
    /\ pc[t] \in {"forget_unhealthy", "forget_closed"}
    /\ total' = total - 1
    /\ IF pc[t] = "forget_unhealthy" /\ t \notin late
       THEN Notify(t, "checkout") /\ UNCHANGED late
       ELSE Notify(t, "out") /\ Ends(t)
    /\ UNCHANGED <<idle, closed, dropping, open>>

\* The body of `with pool.connection()` ends: the connection is committed or
\* rolled back, or is broken.
EndTransaction(t) ==
    /\ pc[t] = "using"
    /\ \E next \in {"release", "discard_broken"} : Goto(t, next)
    /\ UNCHANGED <<idle, total, closed, dropping, open, late>>

Release(t) ==
    /\ pc[t] = "release"
    /\ IF closed
       THEN /\ total' = total - 1
            /\ Goto(t, "close_released")
            /\ UNCHANGED idle
       ELSE /\ idle' = idle + 1
            /\ Notify(t, "out")
            /\ UNCHANGED total
    /\ UNCHANGED <<closed, dropping, open, late>>

CloseReleased(t) ==
    /\ pc[t] = "close_released"
    /\ open' = open - 1
    /\ Goto(t, "out")
    /\ UNCHANGED <<idle, total, closed, dropping, late>>

-------------------------------------------------------------------------------
(* close. *)

Close ==
    /\ ~closed
    /\ closed' = TRUE
    /\ dropping' = idle
    /\ idle' = 0
    /\ total' = total - idle
    /\ NotifyAll
    /\ UNCHANGED <<open, late>>

CloseIdle ==
    /\ dropping > 0
    /\ dropping' = dropping - 1
    /\ open' = open - 1
    /\ UNCHANGED <<idle, total, closed, late, pc>>

-------------------------------------------------------------------------------

Step(t) == \/ RefuseClosed(t) \/ TakeIdle(t) \/ ReservePlace(t) \/ Wait(t)
           \/ Connect(t) \/ ConnectFails(t) \/ Ping(t) \/ Recheck(t)
           \/ Discard(t) \/ Forget(t)
           \/ EndTransaction(t) \/ Release(t) \/ CloseReleased(t)

Next ==
    \/ \E t \in Threads : Begin(t) \/ DeadlinePasses(t) \/ Step(t)
    \/ Close
    \/ CloseIdle

Spec == Init /\ [][Next]_vars

\* Threads run, transactions end, deadlines pass, and a pool that is being
\* closed is closed.  Nobody need close it, or use it.
FairSpec ==
    /\ Spec
    /\ \A t \in Threads : WF_vars(Step(t)) /\ WF_vars(DeadlinePasses(t))
    /\ WF_vars(CloseIdle)

-------------------------------------------------------------------------------
(* Properties. *)

\* Every variable holds a value of its type.
TypeOK ==
    /\ idle \in Nat
    /\ total \in Nat
    /\ closed \in BOOLEAN
    /\ dropping \in Nat
    /\ open \in Nat
    /\ late \subseteq Threads
    /\ pc \in [Threads -> Pcs]

\* The count is right on every path, of errors too: it is the idle connections
\* and those that threads hold, make or discard.
TotalIsExact == total = idle + Cardinality(With(Holding))

\* The server never has more connections of this pool than its maximum, not
\* even while some are replaced or while the pool is closed.
ConnectionsAreBounded == open <= MaxSize

\* No wakeup is lost: while a thread waits, as many threads as there can be
\* connections hold one, make one, or have been told of a free one.
NoLostWakeup ==
    Waiters # {} => Cardinality(With(Holding \cup {"notified"})) >= MaxSize

\* A checkout does not wait longer than its deadline.
CheckoutsEnd ==
    \A t \in Threads : pc[t] = "checkout" ~> pc[t] \in {"out", "using"}
================================================================================
