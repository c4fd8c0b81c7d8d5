------------------------ MODULE SocialPublicationProofs ------------------------
(***************************************************************************)
(* Proofs about SocialPublication, for every number of threads, keys,      *)
(* runs, channels and accounts, with and without crashes.                  *)
(*                                                                         *)
(* IInv is the inductive invariant.  What a step may disturb is local to   *)
(* the thread that takes it, so the invariant is a formula about one       *)
(* thread's registers (Fits, Holds), the exclusion of two holders of one   *)
(* row, and formulas about the rows and the provider alone; and steps are  *)
(* proved by what they change, one lemma for each kind of change.          *)
(***************************************************************************)
EXTENDS SocialPublication, TLAPS

Columns ==
    /\ greenlight \in [Runs -> {"active", "revoked"}]
    /\ connection \in [Channels -> Accounts \cup {None}]
    /\ status \in [Keys -> {"none", "pending", "succeeded", "failed",
                            "unknown", "revoked"}]
    /\ binding \in [Keys -> Effects \cup {None}]
    /\ failure \in [Keys -> {"", "publish", "lookup"}]
    /\ contained \subseteq Keys
    /\ reconciled \subseteq Keys
    /\ creates \in [Effects -> Nat]
    /\ posts \in [Effects -> Nat]
    /\ audit \subseteq Events

Registers ==
    /\ pc \in [Procs -> Pcs]
    /\ key \in [Procs -> Keys \cup {None}]
    /\ target \in [Procs -> Targets]

\* Program counters of a thread that knows the whole effect it is about.
Addressed == Executing \cup {"check_connection", "reserve"}

\* The registers a thread at c has filled in.
Fits(c, k, t) ==
    /\ c \in Pcs /\ k \in Keys \cup {None} /\ t \in Targets
    /\ c \in Addressed \cup {"bind_account", "audit_succeeded",
                             "audit_reconciled"} => k \in Keys
    /\ c \in Addressed => t \in Effects
    /\ c = "bind_account" => t.run \in Runs /\ t.channel \in Channels
    /\ c \in {"disconnect_read", "disconnect_revoke", "disconnect_delete",
              "disconnect_audit"} => t.channel \in Channels
    /\ c \in {"revoke_unused", "revoke_audit"} => t.run \in Runs

RequestInv == \A p \in Procs : Fits(pc[p], key[p], target[p])

\* What a thread at c may rely on: while it executes, its row is bound to its
\* effect and settled by nobody else, except that it may have been revoked.
Holds(c, k, t) ==
    /\ c \in Executing =>
          /\ binding[k] = t
          /\ status[k] \in {"pending", "revoked", "succeeded"}
          /\ status[k] = "succeeded" => c = "outcome_unknown"
    /\ c \in BeforeCall => creates[t] = 0
    /\ c \in AfterCall => posts[t] = 1
    /\ c = "rejected" => posts[t] = 0
    /\ c \in {"audit_succeeded", "audit_reconciled"} => status[k] = "succeeded"
    /\ c = "audit_reconciled" => k \in reconciled
    /\ c \in {"poll", "media_publish"} => k \in contained
    /\ c \in {"record_container", "poll", "media_publish"} =>
          t.channel = "instagram"

HolderInv == \A p \in Procs : Holds(pc[p], key[p], target[p])

\* No row has two executing threads.
Exclusive ==
    \A p, q \in Procs :
        pc[p] \in Executing /\ pc[q] \in Executing /\ key[p] = key[q] => p = q

\* A row is absent, or bound to one effect that no other row has.
RowInv ==
    /\ \A k \in Keys : IF Exists(k) THEN binding[k] \in Effects
                                    ELSE binding[k] = None
    /\ \A j, k \in Keys : Exists(j) /\ binding[j] = binding[k] => j = k

\* The provider was called for an effect only once there was a row for it.
CallInv ==
    /\ OneProviderCall
    /\ \A e \in Effects : creates[e] > 0 => \E k \in Keys : binding[k] = e
    /\ ContainerBeforePost

\* What a row says happened did happen.
OutcomeInv ==
    /\ \A k \in Keys : status[k] = "succeeded" => posts[binding[k]] = 1
    /\ FailedBeforeLookup

\* What the ledger says is recorded is recorded.
LedgerInv ==
    \A k \in Keys :
        /\ <<"social.publication_succeeded", k>> \in audit =>
               status[k] = "succeeded"
        /\ <<"social.publication_reconciled", k>> \in audit =>
               status[k] = "succeeded" /\ k \in reconciled

Typed == Columns /\ Registers /\ RequestInv
Local == HolderInv /\ Exclusive
Global == RowInv /\ CallInv /\ OutcomeInv /\ LedgerInv

IInv == Typed /\ Local /\ Global

-------------------------------------------------------------------------------
(* The registers. *)

LEMMA EffectIsTarget == Effects \subseteq Targets
  BY DEF Effects, Targets

LEMMA IdleFits == Fits("idle", None, NoTarget)
  BY DEF Fits, NoTarget, Targets, Pcs, Addressed, Executing, BeforeCall,
         AfterCall, Verdicts

\* A thread with a key and an effect can be anywhere on the publishing path.
LEMMA AddressedFits ==
  ASSUME NEW k \in Keys, NEW t \in Effects,
         NEW c \in Addressed \cup {"audit_succeeded"}
  PROVE  Fits(c, k, t)
  BY EffectIsTarget DEF Fits, Addressed, Executing, BeforeCall, AfterCall,
                        Verdicts, Pcs

\* Start writes the registers of one thread and no others.
LEMMA StartWrites ==
  ASSUME Registers, NEW p \in Procs, NEW c, NEW k, NEW t, Start(p, c, k, t)
  PROVE  /\ pc'[p] = c /\ key'[p] = k /\ target'[p] = t
         /\ \A q \in Procs \ {p} : /\ pc'[q] = pc[q] /\ key'[q] = key[q]
                                   /\ target'[q] = target[q]
  BY DEF Registers, Start

LEMMA GotoStarts ==
  ASSUME Registers, NEW p \in Procs, NEW c, Goto(p, c)
  PROVE  Start(p, c, key[p], target[p])
  BY DEF Goto, Start, Registers, request

LEMMA StartFits ==
  ASSUME Registers, RequestInv, NEW p \in Procs, NEW c, NEW k, NEW t,
         Fits(c, k, t), Start(p, c, k, t)
  PROVE  Registers' /\ RequestInv'
<1>1. Registers'
  BY DEF Registers, Start, Fits
<1>2. ASSUME NEW q \in Procs PROVE Fits(pc[q], key[q], target[q])'
  <2>1. CASE q = p
    BY <2>1, StartWrites DEF Fits
  <2>2. CASE q # p
    BY <2>2, StartWrites DEF RequestInv, Fits
  <2>3. QED BY <2>1, <2>2
<1>3. QED BY <1>1, <1>2 DEF RequestInv

-------------------------------------------------------------------------------
(* Steps that move a thread and change neither rows nor provider. *)

\* A thread may move to any place whose promises hold already; it starts to
\* execute only through Grant.
Moves(p, c, k, t) ==
    /\ Start(p, c, k, t)
    /\ Fits(c, k, t)
    /\ Holds(c, k, t)
    /\ c \in Executing => pc[p] \in Executing /\ k = key[p]

LEMMA MoveKeeps ==
  ASSUME IInv, NEW p \in Procs, NEW c, NEW k, NEW t, Moves(p, c, k, t),
         UNCHANGED <<rows, provider, audit>>
  PROVE  Registers' /\ RequestInv' /\ Local' /\ Global'
<1> USE DEF rows, provider
<1>1. Registers' /\ RequestInv'
  BY StartFits DEF IInv, Typed, Moves
<1>2. HolderInv'
  <2>1. ASSUME NEW q \in Procs PROVE Holds(pc[q], key[q], target[q])'
    <3>1. CASE q = p
      BY <3>1, StartWrites DEF Moves, Holds, IInv, Typed
    <3>2. CASE q # p
      BY <3>2, StartWrites DEF Moves, Holds, IInv, Typed, Local, HolderInv
    <3>3. QED BY <3>1, <3>2
  <2>2. QED BY <2>1 DEF HolderInv
<1>3. Exclusive'
  BY StartWrites DEF Moves, IInv, Typed, Local, Exclusive
<1>4. Global'
  BY DEF IInv, Global, RowInv, Exists, CallInv, OneProviderCall,
         ContainerBeforePost, OutcomeInv, FailedBeforeLookup, LedgerInv
<1>5. QED BY <1>1, <1>2, <1>3, <1>4 DEF Local

\* Going idle promises nothing.
LEMMA FinishMoves ==
  ASSUME NEW p \in Procs, Finish(p)
  PROVE  Moves(p, "idle", None, NoTarget)
  BY IdleFits DEF Finish, Moves, Holds, Executing, BeforeCall, AfterCall, Verdicts

-------------------------------------------------------------------------------
(* Steps that change rows or the provider, by what they change. *)

\* What the invariant says of the row of an executing thread.
LEMMA HolderRow ==
  ASSUME IInv, NEW p \in Procs, pc[p] \in Executing
  PROVE  /\ key[p] \in Keys /\ target[p] \in Effects
         /\ Exists(key[p]) /\ binding[key[p]] = target[p]
         /\ \A k \in Keys : binding[k] = target[p] => k = key[p]
         /\ \A q \in Procs \ {p} : pc[q] \in Executing =>
                key[q] # key[p] /\ target[q] # target[p]
<1>1. key[p] \in Keys /\ target[p] \in Effects
  BY DEF IInv, Typed, RequestInv, Fits, Addressed
<1>2. Exists(key[p]) /\ binding[key[p]] = target[p]
  BY DEF IInv, Local, HolderInv, Holds, Exists
<1>3. \A k \in Keys : binding[k] = target[p] => k = key[p]
  BY <1>1, <1>2 DEF IInv, Global, RowInv
<1>4. ASSUME NEW q \in Procs \ {p}, pc[q] \in Executing
      PROVE  key[q] # key[p] /\ target[q] # target[p]
  <2>1. key[q] \in Keys /\ binding[key[q]] = target[q]
    BY <1>4 DEF IInv, Typed, RequestInv, Fits, Addressed, Local, HolderInv, Holds
  <2>2. key[q] # key[p]
    BY <1>4 DEF IInv, Local, Exclusive
  <2>3. QED BY <1>3, <2>1, <2>2
<1>5. QED BY <1>1, <1>2, <1>3, <1>4

\* The local part after a step of p: the promises of its own new place hold,
\* and those made to every other thread q, whose registers stay (d, j, e).
LEMMA LocalKeeps ==
  ASSUME IInv, NEW p \in Procs, NEW c, NEW k, NEW t,
         Start(p, c, k, t), Fits(c, k, t), Holds(c, k, t)',
         \A q \in Procs \ {p} : \A d, j, e :
             d = pc[q] /\ j = key[q] /\ e = target[q] => Holds(d, j, e)',
         c \in Executing =>
             \A q \in Procs \ {p} : pc[q] \in Executing => key[q] # k
  PROVE  Registers' /\ RequestInv' /\ Local'
<1>1. Registers' /\ RequestInv'
  BY StartFits DEF IInv, Typed
<1>2. ASSUME NEW q \in Procs PROVE Holds(pc[q], key[q], target[q])'
  <2>1. CASE q = p
    BY <2>1, StartWrites DEF Holds, IInv, Typed
  <2>2. CASE q # p
    BY <2>2, StartWrites DEF Holds, IInv, Typed
  <2>3. QED BY <2>1, <2>2
<1>3. Exclusive'
  BY StartWrites DEF IInv, Typed, Local, Exclusive
<1>4. QED BY <1>1, <1>2, <1>3 DEF Local, HolderInv

\* An executing thread settles its row, or finds it is not held any more.
LEMMA SettleKeeps ==
  ASSUME IInv, NEW p \in Procs, pc[p] \in Executing,
         NEW o \in {"succeeded", "failed", "unknown"},
         NEW f \in {"", "publish", "lookup"}, Settled(key[p], o, f),
         o = "succeeded" => posts[target[p]] = 1,
         o = "failed" /\ f # "lookup" => posts[target[p]] = 0,
         NEW c, NEW k, NEW t, Start(p, c, k, t), Fits(c, k, t), Holds(c, k, t)',
         c \in Executing => k = key[p],
         UNCHANGED <<durable, binding, contained, reconciled, provider>>
  PROVE  IInv'
<1> DEFINE me == key[p]
<1>r. /\ me \in Keys /\ Exists(me) /\ binding[me] = target[p]
      /\ \A q \in Procs \ {p} : pc[q] \in Executing =>
             key[q] # me /\ target[q] # target[p]
  BY HolderRow
<1>s. /\ status' = IF Held(me) THEN [status EXCEPT ![me] = o] ELSE status
      /\ failure' = IF Held(me) THEN [failure EXCEPT ![me] = f] ELSE failure
  BY DEF Settled
<1>w. /\ \A j \in Keys \ {me} : status'[j] = status[j] /\ failure'[j] = failure[j]
      /\ \/ /\ Held(me) /\ status'[me] = o /\ failure'[me] = f
         \/ /\ status' = status /\ failure' = failure
  BY <1>r, <1>s DEF IInv, Typed, Columns
<1>1. Columns'
  BY <1>r, <1>s DEF IInv, Typed, Columns, durable, provider
<1>2. ASSUME NEW q \in Procs \ {p}, NEW d, NEW j, NEW e,
             d = pc[q], j = key[q], e = target[q]
      PROVE  Holds(d, j, e)'
  <2>1. Holds(d, j, e) /\ Fits(d, j, e)
    BY <1>2 DEF IInv, Typed, RequestInv, Local, HolderInv
  <2>2. d \in Executing \cup {"audit_succeeded", "audit_reconciled"} =>
            status'[j] = status[j]
    BY <1>r, <1>w, <1>2, <2>1 DEF Holds, Fits, Addressed, Held
  <2>3. QED BY <2>1, <2>2 DEF Holds, BeforeCall, AfterCall, Executing, provider
<1>3. Registers' /\ RequestInv' /\ Local'
  BY <1>2, <1>r, LocalKeeps
<1>4. RowInv'
  BY <1>r, <1>w DEF IInv, Global, RowInv, Exists, Held
<1>5. CallInv'
  BY DEF IInv, Global, CallInv, OneProviderCall, ContainerBeforePost, provider
<1>6. OutcomeInv'
  BY <1>r, <1>w DEF IInv, Global, OutcomeInv, FailedBeforeLookup, provider
<1>7. LedgerInv'
  BY <1>r, <1>w DEF IInv, Global, LedgerInv, Held, durable
<1>8. QED BY <1>1, <1>3, <1>4, <1>5, <1>6, <1>7 DEF IInv, Typed, Global

\* A reservation inserts the row of a new effect.
LEMMA GrantKeeps ==
  ASSUME IInv, NEW p \in Procs, Grant(p)
  PROVE  IInv'
<1> DEFINE me == key[p]
<1>r. /\ me \in Keys /\ target[p] \in Effects /\ pc[p] = "reserve"
  BY DEF Grant, IInv, Typed, RequestInv, Fits, Addressed
<1>m. ~Exists(me) /\ \A j \in Keys : Exists(j) => binding[j] # target[p]
  BY <1>r DEF Grant, Matches
<1>n. \A j \in Keys : binding[j] # target[p]
  BY <1>r, <1>m, NoneAssumption DEF IInv, Global, RowInv
<1>0. creates[target[p]] = 0
  <2>1. creates[target[p]] \in Nat
    BY <1>r DEF IInv, Typed, Columns
  <2>2. ~(creates[target[p]] > 0)
    BY <1>r, <1>n DEF IInv, Global, CallInv
  <2>3. QED BY <2>1, <2>2
<1>w. /\ status' = [status EXCEPT ![me] = "pending"]
      /\ binding' = [binding EXCEPT ![me] = target[p]]
      /\ UNCHANGED <<durable, failure, contained, reconciled, provider>>
      /\ Start(p, "granted", me, target[p])
  BY GotoStarts DEF Grant, IInv, Typed
<1>v. /\ status'[me] = "pending" /\ binding'[me] = target[p]
      /\ \A j \in Keys \ {me} : status'[j] = status[j] /\ binding'[j] = binding[j]
  BY <1>r, <1>w DEF IInv, Typed, Columns
<1>1. Columns'
  BY <1>r, <1>w DEF IInv, Typed, Columns, durable, provider
<1>2. ASSUME NEW q \in Procs \ {p}, NEW d, NEW j, NEW e,
             d = pc[q], j = key[q], e = target[q]
      PROVE  Holds(d, j, e)' /\ (d \in Executing => j # me)
  <2>1. Holds(d, j, e) /\ Fits(d, j, e)
    BY <1>2 DEF IInv, Typed, RequestInv, Local, HolderInv
  <2>2. d \in Executing \cup {"audit_succeeded", "audit_reconciled"} =>
            j \in Keys /\ Exists(j)
    BY <2>1 DEF Holds, Fits, Addressed, Exists
  <2>3. QED BY <1>m, <1>v, <1>w, <2>1, <2>2 DEF Holds, BeforeCall, AfterCall, Executing, provider
<1>3. Registers' /\ RequestInv' /\ Local'
  <2>1. Fits("granted", me, target[p])
    BY <1>r, AddressedFits DEF Addressed, Executing, BeforeCall
  <2>2. ASSUME NEW c, NEW k, NEW t, c = "granted", k = me, t = target[p]
        PROVE  Holds(c, k, t)'
    BY <1>0, <1>v, <1>w, <2>2 DEF Holds, BeforeCall, AfterCall, provider
  <2>3. \A q \in Procs \ {p} : pc[q] \in Executing => key[q] # me
    BY <1>2
  <2>4. \A q \in Procs \ {p} : \A d, j, e :
             d = pc[q] /\ j = key[q] /\ e = target[q] => Holds(d, j, e)'
    BY <1>2
  <2>5. QED BY <1>w, <2>1, <2>2, <2>3, <2>4, LocalKeeps
<1>4. RowInv'
  BY <1>r, <1>v, <1>n DEF IInv, Global, RowInv, Exists
<1>5. CallInv'
  <2>1. \A e \in Effects, j \in Keys : binding[j] = e => binding'[j] = e
    BY <1>r, <1>m, <1>v, NoneAssumption DEF IInv, Global, RowInv
  <2>2. QED BY <1>w, <2>1 DEF IInv, Global, CallInv, OneProviderCall, ContainerBeforePost, provider
<1>6. OutcomeInv'
  BY <1>v, <1>w DEF IInv, Global, OutcomeInv, FailedBeforeLookup, provider
<1>7. LedgerInv'
  BY <1>v, <1>w, <1>m DEF IInv, Global, LedgerInv, Exists, durable
<1>8. QED BY <1>1, <1>3, <1>4, <1>5, <1>6, <1>7 DEF IInv, Typed, Global

LEMMA ReplyLeads ==
  ASSUME NEW next, NEW rejection, NEW reply \in Replies
  PROVE  AfterReply(reply, next, rejection) =
            IF reply = "ok" THEN next
            ELSE IF reply = "rejected" THEN rejection
            ELSE IF reply = "unhandled" THEN "unhandled" ELSE "outcome_unknown"
  BY DEF Replies, AfterReply

\* The request that creates the post, from the holder of the effect's row.
LEMMA SendKeeps ==
  ASSUME IInv, NEW p \in Procs, pc[p] \in BeforeCall, SendPost(p),
         target[p].channel = "instagram" => pc[p] = "media_publish"
  PROVE  IInv'
<1> DEFINE me == key[p]
           my == target[p]
<1>r. /\ me \in Keys /\ my \in Effects /\ Exists(me) /\ binding[me] = my
      /\ \A j \in Keys : binding[j] = my => j = me
      /\ \A q \in Procs \ {p} : pc[q] \in Executing =>
             key[q] # me /\ target[q] # my
  BY HolderRow DEF Executing
<1>h. /\ status[me] \in {"pending", "revoked"} /\ creates[my] = 0
      /\ pc[p] = "media_publish" => me \in contained
  BY DEF IInv, Local, HolderInv, Holds, BeforeCall, Executing
<1>n. creates \in [Effects -> Nat] /\ posts \in [Effects -> Nat]
  BY DEF IInv, Typed, Columns
<1>0. posts[my] = 0
  <2>1. posts[my] <= creates[my] /\ posts[my] \in Nat
    BY <1>r, <1>n DEF IInv, Global, CallInv, OneProviderCall
  <2>2. QED BY <1>h, <2>1
<1>p. PICK reply \in Replies, landed \in {0, 1} :
         /\ reply = "ok" => landed = 1
         /\ reply = "rejected" => landed = 0
         /\ creates' = [creates EXCEPT ![my] = @ + 1]
         /\ posts' = [posts EXCEPT ![my] = @ + landed]
         /\ Goto(p, AfterReply(reply, "verify", "rejected"))
  BY DEF SendPost
<1>w. UNCHANGED <<durable, rows>>
  BY DEF SendPost
<1>v. /\ creates'[my] = 1 /\ posts'[my] = landed
      /\ \A e \in Effects \ {my} : creates'[e] = creates[e] /\ posts'[e] = posts[e]
  <2>1. creates'[my] = creates[my] + 1 /\ posts'[my] = posts[my] + landed
    BY <1>r, <1>n, <1>p
  <2>2. \A e \in Effects \ {my} : creates'[e] = creates[e] /\ posts'[e] = posts[e]
    BY <1>r, <1>n, <1>p
  <2>3. QED BY <1>h, <1>0, <2>1, <2>2
<1>1. Columns'
  <2>1. creates' \in [Effects -> Nat] /\ posts' \in [Effects -> Nat]
    BY <1>r, <1>h, <1>0, <1>n, <1>p
  <2>2. QED BY <1>w, <2>1 DEF IInv, Typed, Columns, durable, rows
<1>2. ASSUME NEW q \in Procs \ {p}, NEW d, NEW j, NEW e,
             d = pc[q], j = key[q], e = target[q]
      PROVE  Holds(d, j, e)'
  <2>1. Holds(d, j, e) /\ Fits(d, j, e)
    BY <1>2 DEF IInv, Typed, RequestInv, Local, HolderInv
  <2>2. d \in Executing => e \in Effects /\ e # my
    BY <1>r, <1>2, <2>1 DEF Fits, Addressed
  <2>3. QED
    BY <1>v, <1>w, <2>1, <2>2 DEF Holds, BeforeCall, AfterCall, Verdicts, Executing, rows
<1>3. Registers' /\ RequestInv' /\ Local'
  <2> DEFINE c == AfterReply(reply, "verify", "rejected")
  <2>1. Start(p, c, me, my)
    BY <1>p, GotoStarts DEF IInv, Typed
  <2>2. /\ c \in {"verify", "rejected", "outcome_unknown", "unhandled"}
        /\ c = "verify" => landed = 1
        /\ c = "rejected" => landed = 0
    BY <1>p, ReplyLeads
  <2>3. Fits(c, me, my)
    BY <1>r, <2>2, AddressedFits DEF Addressed, Executing, AfterCall, Verdicts
  <2>4. ASSUME NEW d, NEW j, NEW e, d = c, j = me, e = my PROVE Holds(d, j, e)'
    <3> HIDE DEF c
    <3>1. binding'[j] = e /\ status'[j] \in {"pending", "revoked"}
      BY <1>r, <1>h, <1>w, <2>4 DEF rows
    <3>2. posts'[e] = landed
      BY <1>v, <2>4
    <3>3. QED BY <2>2, <2>4, <3>1, <3>2 DEF Holds, BeforeCall, AfterCall, Verdicts
  <2>5. \A q \in Procs \ {p} : \A d, j, e :
             d = pc[q] /\ j = key[q] /\ e = target[q] => Holds(d, j, e)'
    BY <1>2
  <2>6. \A d, j, e : d = c /\ j = me /\ e = my => Holds(d, j, e)'
    BY <2>4
  <2>7. QED BY <1>r, <2>1, <2>3, <2>5, <2>6, LocalKeeps
<1>4. RowInv' /\ LedgerInv'
  BY <1>w DEF IInv, Global, RowInv, LedgerInv, Exists, durable, rows
<1>5. CallInv'
  <2>1. \A e \in Effects : creates'[e] <= 1 /\ posts'[e] <= creates'[e]
    BY <1>r, <1>v DEF IInv, Global, CallInv, OneProviderCall
  <2>2. \A e \in Effects : creates'[e] > 0 => \E k \in Keys : binding'[k] = e
    BY <1>r, <1>v, <1>w DEF IInv, Global, CallInv, rows
  <2>3. my.channel = "instagram" => me \in contained
    BY <1>h
  <2>4. ContainerBeforePost'
    BY <1>r, <1>v, <1>w, <2>3 DEF IInv, Global, CallInv, ContainerBeforePost, rows
  <2>5. QED BY <2>1, <2>2, <2>4 DEF CallInv, OneProviderCall
<1>6. OutcomeInv'
  <2>1. ASSUME NEW k \in Keys, status[k] \in {"succeeded", "failed"}
        PROVE  posts'[binding[k]] = posts[binding[k]]
    <3>1. k # me /\ binding[k] \in Effects
      BY <1>h, <2>1 DEF IInv, Global, RowInv, Exists
    <3>2. QED BY <1>r, <1>v, <3>1
  <2>2. QED BY <1>w, <2>1 DEF IInv, Global, OutcomeInv, FailedBeforeLookup, rows
<1>7. QED BY <1>1, <1>3, <1>4, <1>5, <1>6 DEF IInv, Typed, Global

\* The container ID becomes durable under a held reservation.
LEMMA RecordContainerKeeps ==
  ASSUME IInv, NEW p \in Procs, RecordContainer(p)
  PROVE  IInv'
<1> DEFINE me == key[p]
<1>r. /\ pc[p] = "record_container" /\ pc[p] \in Executing
      /\ me \in Keys /\ target[p] \in Effects
  BY HolderRow DEF RecordContainer, Executing, BeforeCall
<1>p. /\ contained' \in {contained, contained \cup {me}}
      /\ \E c \in {"poll", "outcome_unknown"} :
            Goto(p, c) /\ (c = "poll" => me \in contained')
      /\ UNCHANGED <<durable, status, binding, failure, reconciled, provider>>
  BY DEF RecordContainer
<1>c. PICK c \in {"poll", "outcome_unknown"} :
            Goto(p, c) /\ (c = "poll" => me \in contained')
  BY <1>p
<1>1. Columns'
  BY <1>r, <1>p DEF IInv, Typed, Columns, durable, provider
<1>2. \A q \in Procs : \A d, j, e :
             d = pc[q] /\ j = key[q] /\ e = target[q] => 
             Holds(d, j, e)'
  BY <1>p DEF IInv, Local, HolderInv, Holds, provider
<1>3. Registers' /\ RequestInv' /\ Local'
  <2>1. Start(p, c, me, target[p])
    BY <1>c, GotoStarts DEF IInv, Typed
  <2>2. Fits(c, me, target[p])
    BY <1>r, AddressedFits DEF Addressed, Executing, BeforeCall, Verdicts
  <2>3. Holds("record_container", me, target[p])
    BY <1>r DEF IInv, Local, HolderInv
  <2>4. \A d, j, e : d = c /\ j = me /\ e = target[p] => Holds(d, j, e)'
    BY <1>p, <1>c, <2>3 DEF Holds, Executing, BeforeCall, AfterCall, Verdicts, provider
  <2>5. \A q \in Procs \ {p} : pc[q] \in Executing => key[q] # me
    BY <1>r, HolderRow
  <2>6. QED BY <1>2, <2>1, <2>2, <2>4, <2>5, LocalKeeps
<1>4. Global'
  BY <1>p DEF IInv, Global, RowInv, Exists, CallInv, OneProviderCall,
     ContainerBeforePost, OutcomeInv, FailedBeforeLookup, LedgerInv, durable, provider
<1>5. QED BY <1>1, <1>3, <1>4 DEF IInv, Typed

\* revoke_unused: some pending rows become revoked; the thread that runs it is
\* on no row's publishing path.
LEMMA RevokeKeeps ==
  ASSUME IInv, NEW p \in Procs, pc[p] \notin Executing,
         NEW S \in SUBSET Keys, \A k \in S : Held(k),
         status' = [k \in Keys |-> IF k \in S THEN "revoked" ELSE status[k]],
         NEW c, NEW k0, NEW t, Start(p, c, k0, t), Fits(c, k0, t),
         c \in {"idle", "disconnect_delete", "revoke_audit"},
         UNCHANGED <<durable, binding, failure, contained, reconciled, provider>>
  PROVE  IInv'
<1>v. \A k \in Keys : \/ status'[k] = status[k]
                      \/ status[k] = "pending" /\ status'[k] = "revoked"
  BY DEF Held
<1>1. Columns'
  BY DEF IInv, Typed, Columns, durable, provider
<1>2. ASSUME NEW q \in Procs \ {p}, NEW d, NEW j, NEW e,
             d = pc[q], j = key[q], e = target[q]
      PROVE  Holds(d, j, e)'
  <2>1. Holds(d, j, e) /\ Fits(d, j, e)
    BY <1>2 DEF IInv, Typed, RequestInv, Local, HolderInv
  <2>2. d \in Executing \cup {"audit_succeeded", "audit_reconciled"} => j \in Keys
    BY <2>1 DEF Fits, Addressed
  <2>3. QED BY <1>v, <2>1, <2>2 DEF Holds, BeforeCall, AfterCall, Verdicts, Executing, provider
<1>3. Registers' /\ RequestInv' /\ Local'
  <2>1. Holds(c, k0, t)'
    BY DEF Holds, Executing, BeforeCall, AfterCall, Verdicts
  <2>2. c \notin Executing
    BY DEF Executing, BeforeCall, AfterCall, Verdicts
  <2>3. QED BY <1>2, <2>1, <2>2, LocalKeeps
<1>4. Global'
  BY <1>v DEF IInv, Global, RowInv, Exists, CallInv, OneProviderCall,
     ContainerBeforePost, OutcomeInv, FailedBeforeLookup, LedgerInv, durable, provider
<1>5. QED BY <1>1, <1>3, <1>4 DEF IInv, Typed

\* An operator reconciles an unknown intent, which nobody holds.
LEMMA ReconcileKeeps ==
  ASSUME IInv, NEW p \in Procs, Reconcile(p)
  PROVE  IInv'
<1>p. PICK me \in Keys :
        /\ Exists(me) /\ posts[binding[me]] > 0
        /\ \/ /\ status[me] = "unknown"
              /\ status' = [status EXCEPT ![me] = "succeeded"]
              /\ reconciled' = reconciled \cup {me}
           \/ /\ status[me] = "succeeded" /\ me \in reconciled
              /\ UNCHANGED <<status, reconciled>>
        /\ Start(p, "audit_reconciled", me, NoTarget)
  BY DEF Reconcile
<1>w. UNCHANGED <<durable, binding, failure, contained, provider>>
  BY DEF Reconcile
<1>v. /\ status'[me] = "succeeded" /\ me \in reconciled' /\ reconciled \subseteq reconciled'
      /\ \A k \in Keys \ {me} : status'[k] = status[k]
      /\ status[me] \in {"unknown", "succeeded"}
      /\ \A k \in Keys : status[k] = "succeeded" => status'[k] = "succeeded"
  BY <1>p DEF IInv, Typed, Columns
<1>0. posts[binding[me]] = 1
  <2>1. binding[me] \in Effects
    BY <1>p DEF IInv, Global, RowInv
  <2>2. creates[binding[me]] \in Nat /\ posts[binding[me]] \in Nat
    BY <2>1 DEF IInv, Typed, Columns
  <2>3. creates[binding[me]] <= 1 /\ posts[binding[me]] <= creates[binding[me]]
    BY <2>1 DEF IInv, Global, CallInv, OneProviderCall
  <2>4. QED BY <1>p, <2>2, <2>3
<1>1. Columns'
  BY <1>p, <1>w DEF IInv, Typed, Columns, durable, provider
<1>2. ASSUME NEW q \in Procs \ {p}, NEW d, NEW j, NEW e,
             d = pc[q], j = key[q], e = target[q]
      PROVE  Holds(d, j, e)'
  <2>1. Holds(d, j, e) /\ Fits(d, j, e)
    BY <1>2 DEF IInv, Typed, RequestInv, Local, HolderInv
  <2>2. d \in Executing \cup {"audit_succeeded", "audit_reconciled"} =>
            j \in Keys /\ status'[j] = status[j]
    BY <1>p, <1>v, <2>1 DEF Fits, Addressed, Holds
  <2>3. QED
    BY <1>v, <1>w, <2>1, <2>2 DEF Holds, BeforeCall, AfterCall, Verdicts, Executing, provider
<1>3. Registers' /\ RequestInv' /\ Local'
  <2>1. Fits("audit_reconciled", me, NoTarget)
    BY DEF Fits, NoTarget, Targets, Pcs, Addressed, Executing, BeforeCall, AfterCall, Verdicts
  <2>2. \A c, t : c = "audit_reconciled" => Holds(c, me, t)'
    BY <1>v DEF Holds, Executing, BeforeCall, AfterCall, Verdicts
  <2>3. "audit_reconciled" \notin Executing
    BY DEF Executing, BeforeCall, AfterCall, Verdicts
  <2>4. QED BY <1>2, <1>p, <2>1, <2>2, <2>3, LocalKeeps
<1>4. RowInv' /\ CallInv'
  BY <1>p, <1>v, <1>w DEF IInv, Global, RowInv, Exists, CallInv, OneProviderCall,
     ContainerBeforePost, provider
<1>5. OutcomeInv'
  BY <1>0, <1>v, <1>w DEF IInv, Global, OutcomeInv, FailedBeforeLookup, provider
<1>6. LedgerInv'
  BY <1>v, <1>w DEF IInv, Global, LedgerInv, durable
<1>7. QED BY <1>1, <1>3, <1>4, <1>5, <1>6 DEF IInv, Typed, Global

\* A thread records an event of a row that is in the state it reports.
LEMMA RecordEventKeeps ==
  ASSUME IInv, NEW p \in Procs, RecordEvent(p)
  PROVE  IInv'
<1>h. Holds(pc[p], key[p], target[p]) /\ Fits(pc[p], key[p], target[p])
  BY DEF IInv, Typed, RequestInv, Local, HolderInv
<1>w. UNCHANGED <<greenlight, connection, rows, provider>> /\ Finish(p)
  BY DEF RecordEvent
<1>p. PICK event \in Events :
        /\ audit' = audit \cup {event}
        /\ \A k \in Keys :
              /\ event = <<"social.publication_succeeded", k>> =>
                     status[k] = "succeeded"
              /\ event = <<"social.publication_reconciled", k>> =>
                     status[k] = "succeeded" /\ k \in reconciled
  <2>1. CASE pc[p] = "audit_succeeded"
    <3>1. key[p] \in Keys /\ status[key[p]] = "succeeded"
      BY <1>h, <2>1 DEF Holds, Fits
    <3>2. audit' = audit \cup {<<"social.publication_succeeded", key[p]>>}
      BY <2>1 DEF RecordEvent
    <3>3. <<"social.publication_succeeded", key[p]>> \in Events
      BY <3>1 DEF Events
    <3>4. QED BY <3>1, <3>2, <3>3
  <2>2. CASE pc[p] = "audit_reconciled"
    <3>1. key[p] \in Keys /\ status[key[p]] = "succeeded" /\ key[p] \in reconciled
      BY <1>h, <2>2 DEF Holds, Fits
    <3>2. audit' = audit \cup {<<"social.publication_reconciled", key[p]>>}
      BY <2>2 DEF RecordEvent
    <3>3. <<"social.publication_reconciled", key[p]>> \in Events
      BY <3>1 DEF Events
    <3>4. QED BY <3>1, <3>2, <3>3
  <2>3. CASE pc[p] = "revoke_audit"
    <3>1. target[p].run \in Runs
      BY <1>h, <2>3 DEF Fits
    <3>2. audit' = audit \cup {<<"social.publication_intents_revoked", target[p].run>>}
      BY <2>3 DEF RecordEvent
    <3>3. <<"social.publication_intents_revoked", target[p].run>> \in Events
      BY <3>1 DEF Events
    <3>4. QED BY <3>1, <3>2, <3>3
  <2>4. CASE pc[p] = "disconnect_audit"
    <3>1. target[p].channel \in Channels
      BY <1>h, <2>4 DEF Fits
    <3>2. audit' = audit \cup {<<"social.connection_removed", target[p].channel>>}
      BY <2>4 DEF RecordEvent
    <3>3. <<"social.connection_removed", target[p].channel>> \in Events
      BY <3>1 DEF Events
    <3>4. QED BY <3>1, <3>2, <3>3
  <2>5. QED BY <2>1, <2>2, <2>3, <2>4 DEF RecordEvent
<1>1. Columns'
  BY <1>w, <1>p DEF IInv, Typed, Columns, rows, provider
<1>2. \A q \in Procs \ {p} : \A d, j, e :
             d = pc[q] /\ j = key[q] /\ e = target[q] => Holds(d, j, e)'
  BY <1>w DEF IInv, Local, HolderInv, Holds, rows, provider
<1>3. Registers' /\ RequestInv' /\ Local'
  <2>1. \A c, k, t : c = "idle" => Holds(c, k, t)'
    BY DEF Holds, Executing, BeforeCall, AfterCall, Verdicts
  <2>2. "idle" \notin Executing
    BY DEF Executing, BeforeCall, AfterCall, Verdicts
  <2>3. QED BY <1>2, <1>w, <2>1, <2>2, IdleFits, LocalKeeps DEF Finish
<1>4. RowInv' /\ CallInv' /\ OutcomeInv'
  BY <1>w DEF IInv, Global, RowInv, Exists, CallInv, OneProviderCall,
     ContainerBeforePost, OutcomeInv, FailedBeforeLookup, rows, provider
<1>5. LedgerInv'
  BY <1>p, <1>w DEF IInv, Global, LedgerInv, rows
<1>6. QED BY <1>1, <1>3, <1>4, <1>5 DEF IInv, Typed, Global

-------------------------------------------------------------------------------
(* The inductive invariant. *)

\* Columns of steps that write none of them but the Greenlight or a connection.
LEMMA MoveKeepsAll ==
  ASSUME IInv, NEW p \in Procs, NEW c, NEW k, NEW t, Moves(p, c, k, t),
         greenlight' \in [Runs -> {"active", "revoked"}],
         connection' \in [Channels -> Accounts \cup {None}],
         UNCHANGED <<rows, provider, audit>>
  PROVE  IInv'
<1>1. Columns'
  BY DEF IInv, Typed, Columns, rows, provider
<1>2. QED BY <1>1, MoveKeeps DEF IInv, Typed

LEMMA Initially == Init => IInv
<1> SUFFICES ASSUME Init PROVE IInv
  OBVIOUS
<1>1. Columns
  BY DEF Init, Columns
<1>2. Registers /\ RequestInv
  <2>1. Registers
    BY IdleFits DEF Init, Registers, Fits
  <2>2. QED BY <2>1, IdleFits DEF Init, RequestInv
<1>3. Local
  BY DEF Init, Local, HolderInv, Holds, Exclusive, Executing, BeforeCall,
         AfterCall, Verdicts
<1>4. Global
  <2>1. RowInv /\ OutcomeInv /\ LedgerInv
    BY DEF Init, RowInv, Exists, OutcomeInv, FailedBeforeLookup, LedgerInv
  <2>2. \A e \in Effects : creates[e] = 0 /\ posts[e] = 0
    BY DEF Init
  <2>3. CallInv
    BY <2>2 DEF CallInv, OneProviderCall, ContainerBeforePost
  <2>4. QED BY <2>1, <2>3 DEF Global
<1>5. QED BY <1>1, <1>2, <1>3, <1>4 DEF IInv, Typed

\* One step of one request.
LEMMA RequestStep ==
  ASSUME IInv, NEW p \in Procs,
         BeginPublish(p) \/ Reconcile(p) \/ BeginDisconnect(p)
         \/ RevokeGreenlight(p) \/ Continue(p) \/ Crash(p)
  PROVE  IInv'
<1>f. Fits(pc[p], key[p], target[p]) /\ Holds(pc[p], key[p], target[p])
  BY DEF IInv, Typed, RequestInv, Local, HolderInv
<1>a. ASSUME pc[p] \in Addressed
      PROVE  /\ key[p] \in Keys /\ target[p] \in Effects
             /\ \A c \in Addressed \cup {"audit_succeeded"} :
                    Fits(c, key[p], target[p])
  BY <1>a, <1>f, AddressedFits DEF Fits
<1>g. greenlight \in [Runs -> {"active", "revoked"}]
      /\ connection \in [Channels -> Accounts \cup {None}]
  BY DEF IInv, Typed, Columns
<1>s. \A c : Goto(p, c) => Start(p, c, key[p], target[p])
  BY GotoStarts DEF IInv, Typed
<1>i. Finish(p) => Moves(p, "idle", None, NoTarget)
  BY FinishMoves
<1>m. \* A move that leaves durable, rows and provider alone.
      ASSUME NEW c, NEW k, NEW t, Moves(p, c, k, t),
             UNCHANGED <<durable, rows, provider>>
      PROVE  IInv'
  BY <1>g, <1>m, MoveKeepsAll DEF durable
<1>1. CASE BeginPublish(p)
  <2>1. PICK k \in Keys, r \in Runs, ch \in Channels :
           Start(p, "bind_account", k,
                 [run |-> r, channel |-> ch, account |-> None])
    BY <1>1 DEF BeginPublish
  <2> DEFINE t == [run |-> r, channel |-> ch, account |-> None]
  <2>2. Fits("bind_account", k, t) /\ Holds("bind_account", k, t)
    BY DEF Fits, Holds, Targets, Pcs, Addressed, Executing, BeforeCall, AfterCall, Verdicts
  <2>3. Moves(p, "bind_account", k, t)
    BY <2>1, <2>2 DEF Moves, Executing, BeforeCall, AfterCall, Verdicts
  <2>4. QED BY <1>1, <1>m, <2>3 DEF BeginPublish
<1>2. CASE BindAccount(p)
  <2> DEFINE t == [run |-> target[p].run, channel |-> target[p].channel,
                   account |-> connection[target[p].channel]]
  <2>1. \/ Finish(p)
        \/ t.account # None /\ Start(p, "check_connection", key[p], t)
    BY <1>2 DEF BindAccount
  <2>2. target[p].channel \in Channels /\ target[p].run \in Runs /\ key[p] \in Keys
    BY <1>2, <1>f DEF BindAccount, Fits
  <2>3. ASSUME t.account # None, Start(p, "check_connection", key[p], t)
        PROVE  Moves(p, "check_connection", key[p], t)
    <3>1. t \in Effects
      BY <1>g, <2>2, <2>3 DEF Effects
    <3>2. Fits("check_connection", key[p], t)
      BY <2>2, <3>1, AddressedFits DEF Addressed
    <3>3. QED
      BY <2>3, <3>2 DEF Moves, Holds, Executing, BeforeCall, AfterCall, Verdicts
  <2>4. QED BY <1>2, <1>i, <1>m, <2>1, <2>3 DEF BindAccount
<1>3. CASE CheckConnection(p)
  <2>1. Finish(p) \/ Goto(p, "reserve")
    BY <1>3 DEF CheckConnection
  <2>2. Goto(p, "reserve") => Moves(p, "reserve", key[p], target[p])
    BY <1>3, <1>a, <1>s DEF CheckConnection, Addressed, Moves, Holds, Executing,
                            BeforeCall, AfterCall, Verdicts
  <2>3. QED BY <1>3, <1>i, <1>m, <2>1, <2>2 DEF CheckConnection
<1>4. CASE Grant(p)
  BY <1>4, GrantKeeps
<1>5. CASE Replay(p)
  <2> DEFINE found == Found(key[p], target[p])
  <2>1. key[p] \in Keys /\ target[p] \in Effects
    BY <1>5, <1>a DEF Replay, Addressed
  <2>2. found \in Keys
    BY <1>5, <2>1 DEF Replay, Found, Matches
  <2>3. \/ Finish(p)
        \/ status[found] = "succeeded" /\ Start(p, "audit_succeeded", found, target[p])
    BY <1>5 DEF Replay
  <2>4. Fits("audit_succeeded", found, target[p])
    BY <2>1, <2>2, AddressedFits
  <2>5. ASSUME status[found] = "succeeded",
               Start(p, "audit_succeeded", found, target[p])
        PROVE  Moves(p, "audit_succeeded", found, target[p])
    <3> HIDE DEF found
    <3>1. QED BY <2>4, <2>5 DEF Moves, Holds, Executing, BeforeCall, AfterCall, Verdicts
  <2>6. QED BY <1>5, <1>i, <1>m, <2>3, <2>5 DEF Replay
<1>6. CASE CredentialInvalid(p)
  <2>1. pc[p] \in Executing /\ posts[target[p]] = 0
    <3>1. pc[p] \in BeforeCall /\ pc[p] \in Executing
      BY <1>6 DEF CredentialInvalid, BeforeCall, Executing
    <3>2. target[p] \in Effects /\ creates[target[p]] = 0
      BY <1>a, <1>f, <3>1 DEF Addressed, Holds
    <3>3. posts[target[p]] \in Nat /\ posts[target[p]] <= creates[target[p]]
      BY <3>2 DEF IInv, Typed, Columns, Global, CallInv, OneProviderCall
    <3>4. QED BY <3>1, <3>2, <3>3
  <2>2. \A c, k, t : c = "idle" => Holds(c, k, t)'
    BY DEF Holds, Executing, BeforeCall, AfterCall, Verdicts
  <2>3. "idle" \notin Executing
    BY DEF Executing, BeforeCall, AfterCall, Verdicts
  <2>4. QED BY <1>6, <2>1, <2>2, <2>3, IdleFits, SettleKeeps DEF CredentialInvalid, Finish
<1>7. CASE CreatePostX(p)
  <2>1. pc[p] \in BeforeCall /\ SendPost(p) /\ target[p].channel # "instagram"
    BY <1>7 DEF CreatePostX, BeforeCall
  <2>2. QED BY <2>1, SendKeeps
<1>8. CASE CreateContainer(p)
  <2>1. PICK reply \in Replies : Goto(p, AfterReply(reply, "record_container", "rejected"))
    BY <1>8 DEF CreateContainer, Ask
  <2> DEFINE c == AfterReply(reply, "record_container", "rejected")
  <2>2. c \in {"record_container", "rejected", "outcome_unknown", "unhandled"}
    BY ReplyLeads
  <2>3. creates[target[p]] = 0 /\ target[p] \in Effects
        /\ target[p].channel = "instagram"
    BY <1>8, <1>f, <1>a DEF CreateContainer, Holds, Addressed, BeforeCall, Executing
  <2>4. posts[target[p]] = 0
    <3>1. posts[target[p]] \in Nat /\ posts[target[p]] <= creates[target[p]]
      BY <2>3 DEF IInv, Typed, Columns, Global, CallInv, OneProviderCall
    <3>2. QED BY <2>3, <3>1
  <2>5. Moves(p, c, key[p], target[p])
    <3>1. pc[p] = "granted" /\ Start(p, c, key[p], target[p])
      BY <1>8, <1>s, <2>1 DEF CreateContainer
    <3>2. Fits(c, key[p], target[p])
      BY <1>a, <2>2, <3>1 DEF Addressed, Executing, BeforeCall, Verdicts
    <3> HIDE DEF c
    <3>3. Holds(c, key[p], target[p])
      BY <1>f, <2>2, <2>3, <2>4, <3>1 DEF Holds, BeforeCall, AfterCall, Verdicts, Executing
    <3>4. QED BY <3>1, <3>2, <3>3 DEF Moves, Executing, BeforeCall
  <2>6. QED BY <1>8, <1>m, <2>5 DEF CreateContainer, Ask
<1>9. CASE RecordContainer(p)
  BY <1>9, RecordContainerKeeps
<1>10. CASE PollContainer(p)
  <2>1. PICK reply \in Replies : Goto(p, AfterReply(reply, "media_publish", "rejected"))
    BY <1>10 DEF PollContainer, Ask
  <2> DEFINE c == AfterReply(reply, "media_publish", "rejected")
  <2>2. c \in {"media_publish", "rejected", "outcome_unknown", "unhandled"}
    BY ReplyLeads
  <2>3. creates[target[p]] = 0 /\ target[p] \in Effects
    BY <1>10, <1>f, <1>a DEF PollContainer, Holds, Addressed, BeforeCall, Executing
  <2>4. posts[target[p]] = 0
    <3>1. posts[target[p]] \in Nat /\ posts[target[p]] <= creates[target[p]]
      BY <2>3 DEF IInv, Typed, Columns, Global, CallInv, OneProviderCall
    <3>2. QED BY <2>3, <3>1
  <2>5. Moves(p, c, key[p], target[p])
    <3>1. pc[p] = "poll" /\ Start(p, c, key[p], target[p])
      BY <1>10, <1>s, <2>1 DEF PollContainer
    <3>2. Fits(c, key[p], target[p])
      BY <1>a, <2>2, <3>1 DEF Addressed, Executing, BeforeCall, Verdicts
    <3> HIDE DEF c
    <3>3. Holds(c, key[p], target[p])
      BY <1>f, <2>2, <2>3, <2>4, <3>1 DEF Holds, BeforeCall, AfterCall, Verdicts, Executing
    <3>4. QED BY <3>1, <3>2, <3>3 DEF Moves, Executing, BeforeCall
  <2>6. QED BY <1>10, <1>m, <2>5 DEF PollContainer, Ask
<1>11. CASE PublishMedia(p)
  <2>1. pc[p] \in BeforeCall /\ SendPost(p) /\ pc[p] = "media_publish"
    BY <1>11 DEF PublishMedia, BeforeCall
  <2>2. QED BY <2>1, SendKeeps
<1>12. CASE VerifyPost(p)
  <2>1. PICK reply \in Replies : Goto(p, AfterReply(reply, "complete", "lookup_rejected"))
    BY <1>12 DEF VerifyPost, Ask
  <2> DEFINE c == AfterReply(reply, "complete", "lookup_rejected")
  <2>2. c \in {"complete", "lookup_rejected", "outcome_unknown", "unhandled"}
    BY ReplyLeads
  <2>3. Moves(p, c, key[p], target[p])
    <3>1. pc[p] = "verify" /\ Start(p, c, key[p], target[p])
      BY <1>12, <1>s, <2>1 DEF VerifyPost
    <3>2. Fits(c, key[p], target[p])
      BY <1>a, <2>2, <3>1 DEF Addressed, Executing, AfterCall, Verdicts
    <3> HIDE DEF c
    <3>3. Holds(c, key[p], target[p])
      BY <1>f, <2>2, <3>1 DEF Holds, BeforeCall, AfterCall, Verdicts, Executing
    <3>4. QED BY <3>1, <3>2, <3>3 DEF Moves, Executing, AfterCall
  <2>4. QED BY <1>12, <1>m, <2>3 DEF VerifyPost, Ask
<1>13. CASE Complete(p)
  <2>1. /\ pc[p] \in Executing /\ key[p] \in Keys /\ target[p] \in Effects
        /\ posts[target[p]] = 1 /\ binding[key[p]] = target[p]
        /\ status[key[p]] \in {"pending", "revoked"}
    BY <1>13, <1>a, <1>f DEF Complete, Holds, Addressed, AfterCall, Executing
  <2>2. UNCHANGED <<durable, binding, contained, reconciled, provider>>
    BY <1>13 DEF Complete
  <2>3. CASE /\ Held(key[p])
             /\ Settled(key[p], "succeeded", "")
             /\ \E next \in {"audit_succeeded", "outcome_unknown"} : Goto(p, next)
    <3>1. PICK c \in {"audit_succeeded", "outcome_unknown"} : Goto(p, c)
      BY <2>3
    <3>2. Start(p, c, key[p], target[p]) /\ Fits(c, key[p], target[p])
      BY <1>a, <1>s, <2>1, <3>1 DEF Addressed, Executing, Verdicts
    <3>3. status' = [status EXCEPT ![key[p]] = "succeeded"]
      BY <2>3 DEF Settled
    <3>4. status'[key[p]] = "succeeded"
      BY <2>1, <3>3 DEF IInv, Typed, Columns
    <3>5. \A d, k, t : d = c /\ k = key[p] /\ t = target[p] => Holds(d, k, t)'
      BY <2>1, <2>2, <3>4 DEF Holds, BeforeCall, AfterCall, Verdicts, Executing
    <3>6. QED BY <2>1, <2>2, <2>3, <3>2, <3>5, SettleKeeps
  <2>4. CASE Goto(p, "outcome_unknown") /\ UNCHANGED <<status, failure>>
    <3>1. Start(p, "outcome_unknown", key[p], target[p])
          /\ Fits("outcome_unknown", key[p], target[p])
      BY <1>a, <1>s, <2>1, <2>4 DEF Addressed, Executing, Verdicts
    <3>2. Holds("outcome_unknown", key[p], target[p])
      BY <2>1 DEF Holds, BeforeCall, AfterCall, Verdicts, Executing
    <3>3. Moves(p, "outcome_unknown", key[p], target[p])
      BY <2>1, <3>1, <3>2 DEF Moves
    <3>4. QED BY <1>m, <2>2, <2>4, <3>3 DEF rows
  <2>5. QED BY <1>13, <2>3, <2>4 DEF Complete
<1>14. CASE MarkUnknown(p)
  <2>1. pc[p] \in Executing
    BY <1>14 DEF MarkUnknown, Executing, Verdicts
  <2>2. \A c, k, t : c = "idle" => Holds(c, k, t)'
    BY DEF Holds, Executing, BeforeCall, AfterCall, Verdicts
  <2>3. "idle" \notin Executing
    BY DEF Executing, BeforeCall, AfterCall, Verdicts
  <2>4. QED BY <1>14, <2>1, <2>2, <2>3, IdleFits, SettleKeeps DEF MarkUnknown, Finish
<1>15. CASE MarkFailed(p)
  <2> DEFINE f == IF pc[p] = "rejected" THEN "publish" ELSE "lookup"
             t == [NoTarget EXCEPT !.channel = target[p].channel]
  <2>1. pc[p] \in Executing /\ key[p] \in Keys /\ target[p] \in Effects
    BY <1>15, <1>a DEF MarkFailed, Executing, Verdicts, Addressed
  <2>2. f # "lookup" => posts[target[p]] = 0
    BY <1>f DEF Holds
  <2>3. /\ Settled(key[p], "failed", f)
        /\ \/ Start(p, "idle", None, NoTarget)
           \/ Start(p, "disconnect_read", None, t)
        /\ UNCHANGED <<durable, binding, contained, reconciled, provider>>
    BY <1>15 DEF MarkFailed, Finish
  <2>4. Fits("disconnect_read", None, t)
    BY <2>1 DEF Fits, NoTarget, Targets, Effects, Pcs, Addressed, Executing,
                BeforeCall, AfterCall, Verdicts
  <2>5. \A c, k, e : c \in {"idle", "disconnect_read"} => Holds(c, k, e)'
    BY DEF Holds, Executing, BeforeCall, AfterCall, Verdicts
  <2>6. "idle" \notin Executing /\ "disconnect_read" \notin Executing
    BY DEF Executing, BeforeCall, AfterCall, Verdicts
  <2>7. f \in {"publish", "lookup"}
    OBVIOUS
  <2> HIDE DEF f, t
  <2>8. ASSUME NEW c, NEW u, c \in {"idle", "disconnect_read"},
               Start(p, c, None, u), Fits(c, None, u)
        PROVE  IInv'
    <3>1. Holds(c, None, u)'
      BY <2>5, <2>8
    <3>2. c \notin Executing
      BY <2>6, <2>8
    <3> DEFINE o == "failed"
    <3>3. /\ o \in {"succeeded", "failed", "unknown"}
          /\ o = "succeeded" => posts[target[p]] = 1
          /\ o = "failed" /\ f # "lookup" => posts[target[p]] = 0
          /\ Settled(key[p], o, f)
      BY <2>2, <2>3
    <3>4. f \in {"", "publish", "lookup"}
      BY <2>7
    <3> HIDE DEF o
    <3>5. QED BY <2>1, <2>3, <2>8, <3>1, <3>2, <3>3, <3>4, SettleKeeps
  <2>9. QED BY <2>3, <2>4, <2>8, IdleFits
<1>16. CASE RecordEvent(p)
  BY <1>16, RecordEventKeeps
<1>17. CASE Reconcile(p)
  BY <1>17, ReconcileKeeps
<1>18. CASE BeginDisconnect(p)
  <2>1. PICK ch \in Channels :
          Start(p, "disconnect_read", None, [NoTarget EXCEPT !.channel = ch])
    BY <1>18 DEF BeginDisconnect
  <2> DEFINE t == [NoTarget EXCEPT !.channel = ch]
  <2>2. Fits("disconnect_read", None, t)
    BY DEF Fits, NoTarget, Targets, Pcs, Addressed, Executing, BeforeCall,
           AfterCall, Verdicts
  <2>3. Moves(p, "disconnect_read", None, t)
    BY <2>1, <2>2 DEF Moves, Holds, Executing, BeforeCall, AfterCall, Verdicts
  <2>4. QED BY <1>18, <1>m, <2>3 DEF BeginDisconnect
<1>19. CASE DisconnectRead(p)
  <2> DEFINE account == connection[target[p].channel]
             t == [target[p] EXCEPT !.account = account]
  <2>1. PICK c \in {"disconnect_delete", "disconnect_revoke"} : Start(p, c, None, t)
    BY <1>19 DEF DisconnectRead
  <2>2. target[p] \in Targets /\ target[p].channel \in Channels
    BY <1>19, <1>f DEF DisconnectRead, Fits
  <2>3. Fits(c, None, t)
    BY <1>g, <2>2 DEF Fits, Targets, Pcs, Addressed, Executing, BeforeCall,
                      AfterCall, Verdicts
  <2>4. Moves(p, c, None, t)
    BY <2>1, <2>3 DEF Moves, Holds, Executing, BeforeCall, AfterCall, Verdicts
  <2>5. QED BY <1>19, <1>m, <2>4 DEF DisconnectRead
<1>20. CASE DisconnectRevoke(p)
  <2> DEFINE B == {e \in Effects : /\ e.channel = target[p].channel
                                   /\ e.account = target[p].account}
             S == {k \in Keys : Held(k) /\ binding[k] \in B}
  <2>1. status' = [k \in Keys |-> IF k \in S THEN "revoked" ELSE status[k]]
    BY <1>20 DEF DisconnectRevoke, RevokeUnused
  <2>2. Start(p, "disconnect_delete", key[p], target[p])
    BY <1>20, <1>s DEF DisconnectRevoke
  <2>3. Fits("disconnect_delete", key[p], target[p]) /\ pc[p] \notin Executing
    BY <1>20, <1>f DEF DisconnectRevoke, Fits, Pcs, Addressed, Executing,
                       BeforeCall, AfterCall, Verdicts
  <2>4. UNCHANGED <<durable, binding, failure, contained, reconciled, provider>>
    BY <1>20 DEF DisconnectRevoke
  <2>5. \A k \in S : Held(k)
    OBVIOUS
  <2> HIDE DEF S
  <2>6. S \in SUBSET Keys
    BY DEF S
  <2>7. QED BY <2>1, <2>2, <2>3, <2>4, <2>5, <2>6, RevokeKeeps
<1>21. CASE DisconnectDelete(p)
  <2>1. \/ Finish(p)
        \/ Start(p, "disconnect_audit", key[p], target[p])
    BY <1>21, <1>s DEF DisconnectDelete
  <2>2. target[p].channel \in Channels
        /\ Fits("disconnect_audit", key[p], target[p])
    BY <1>21, <1>f DEF DisconnectDelete, Fits, Pcs, Addressed, Executing,
                       BeforeCall, AfterCall, Verdicts
  <2>3. Start(p, "disconnect_audit", key[p], target[p]) =>
            Moves(p, "disconnect_audit", key[p], target[p])
    BY <2>2 DEF Moves, Holds, Executing, BeforeCall, AfterCall, Verdicts
  <2>4. connection' \in [Channels -> Accounts \cup {None}]
        /\ UNCHANGED <<greenlight, audit, rows, provider>>
    BY <1>21, <1>g DEF DisconnectDelete
  <2>5. QED BY <1>g, <1>i, <2>1, <2>3, <2>4, MoveKeepsAll
<1>22. CASE RevokeGreenlight(p)
  <2>1. PICK r \in Runs :
          /\ greenlight' = [greenlight EXCEPT ![r] = "revoked"]
          /\ Start(p, "revoke_unused", None, [NoTarget EXCEPT !.run = r])
    BY <1>22 DEF RevokeGreenlight
  <2> DEFINE t == [NoTarget EXCEPT !.run = r]
  <2>2. Fits("revoke_unused", None, t)
    BY DEF Fits, NoTarget, Targets, Pcs, Addressed, Executing, BeforeCall,
           AfterCall, Verdicts
  <2>3. Moves(p, "revoke_unused", None, t)
    BY <2>1, <2>2 DEF Moves, Holds, Executing, BeforeCall, AfterCall, Verdicts
  <2>4. greenlight' \in [Runs -> {"active", "revoked"}]
        /\ UNCHANGED <<connection, audit, rows, provider>>
    BY <1>22, <1>g, <2>1 DEF RevokeGreenlight
  <2>5. QED BY <1>g, <2>3, <2>4, MoveKeepsAll
<1>23. CASE RevokePendingOfRun(p)
  <2> DEFINE B == {e \in Effects : e.run = target[p].run}
             S == {k \in Keys : Held(k) /\ binding[k] \in B}
  <2>1. status' = [k \in Keys |-> IF k \in S THEN "revoked" ELSE status[k]]
    BY <1>23 DEF RevokePendingOfRun, RevokeUnused
  <2>2. \/ Start(p, "idle", None, NoTarget)
        \/ Start(p, "revoke_audit", key[p], target[p])
    BY <1>23, <1>s DEF RevokePendingOfRun, Finish
  <2>3. Fits("revoke_audit", key[p], target[p]) /\ pc[p] \notin Executing
    BY <1>23, <1>f DEF RevokePendingOfRun, Fits, Pcs, Addressed, Executing,
                       BeforeCall, AfterCall, Verdicts
  <2>4. UNCHANGED <<durable, binding, failure, contained, reconciled, provider>>
    BY <1>23 DEF RevokePendingOfRun
  <2>5. \A k \in S : Held(k)
    OBVIOUS
  <2> HIDE DEF S
  <2>6. S \in SUBSET Keys
    BY DEF S
  <2>7. QED BY <2>1, <2>2, <2>3, <2>4, <2>5, <2>6, IdleFits, RevokeKeeps
<1>24. CASE Crash(p)
  BY <1>24, <1>i, <1>m DEF Crash
<1>25. CASE SecretMissing(p)
  <2>1. pc[p] = "granted" /\ Start(p, "unhandled", key[p], target[p])
    BY <1>25, <1>s DEF SecretMissing
  <2>2. Fits("unhandled", key[p], target[p])
    BY <1>a, <2>1 DEF Addressed, Executing, BeforeCall, Verdicts
  <2>3. Holds("unhandled", key[p], target[p])
    BY <1>f, <2>1 DEF Holds, BeforeCall, AfterCall, Verdicts, Executing
  <2>4. Moves(p, "unhandled", key[p], target[p])
    BY <2>1, <2>2, <2>3 DEF Moves, Executing, BeforeCall
  <2>5. QED BY <1>25, <1>m, <2>4 DEF SecretMissing
<1>26. CASE Escape(p)
  BY <1>26, <1>i, <1>m DEF Escape
<1>27. QED
  BY <1>1, <1>2, <1>3, <1>4, <1>5, <1>6, <1>7, <1>8, <1>9, <1>10, <1>11, <1>12,
     <1>13, <1>14, <1>15, <1>16, <1>17, <1>18, <1>19, <1>20, <1>21, <1>22,
     <1>23, <1>24, <1>25, <1>26 DEF Continue

LEMMA Step == IInv /\ [Next]_vars => IInv'
<1> SUFFICES ASSUME IInv, [Next]_vars PROVE IInv'
  OBVIOUS
<1>1. CASE UNCHANGED vars
  <2>1. UNCHANGED <<durable, rows, provider, pc, request>>
    BY <1>1 DEF vars
  <2>2. Typed'
    BY <2>1 DEF IInv, Typed, Columns, Registers, RequestInv, Fits, durable, rows,
                provider, request
  <2>3. Local'
    BY <2>1 DEF IInv, Local, HolderInv, Holds, Exclusive, rows, provider, request
  <2>4. Global'
    BY <2>1 DEF IInv, Global, RowInv, Exists, CallInv, OneProviderCall,
       ContainerBeforePost, OutcomeInv, FailedBeforeLookup, LedgerInv, durable,
       rows, provider
  <2>5. QED BY <2>2, <2>3, <2>4 DEF IInv
<1>2. CASE Connect
  <2>1. UNCHANGED <<greenlight, audit, rows, provider, pc, request>>
        /\ connection' \in [Channels -> Accounts \cup {None}]
    BY <1>2 DEF Connect, IInv, Typed, Columns
  <2>2. Typed'
    BY <2>1 DEF IInv, Typed, Columns, Registers, RequestInv, Fits, rows,
                provider, request
  <2>3. Local'
    BY <2>1 DEF IInv, Local, HolderInv, Holds, Exclusive, rows, provider, request
  <2>4. Global'
    BY <2>1 DEF IInv, Global, RowInv, Exists, CallInv, OneProviderCall,
       ContainerBeforePost, OutcomeInv, FailedBeforeLookup, LedgerInv,
       rows, provider
  <2>5. QED BY <2>2, <2>3, <2>4 DEF IInv
<1>3. CASE \E p \in Procs :
              BeginPublish(p) \/ Reconcile(p) \/ BeginDisconnect(p)
              \/ RevokeGreenlight(p) \/ Continue(p) \/ Crash(p)
  BY <1>3, RequestStep
<1>4. QED BY <1>1, <1>2, <1>3 DEF Next

\* The invariant holds in every reachable state, for every value of the
\* constants.
THEOREM Invariant == Spec => []IInv
  BY Initially, Step, PTL DEF Spec

\* No sequence of retries, crashes and concurrent requests sends an effect to
\* the provider twice.
THEOREM AtMostOneProviderCall == Spec => []OneProviderCall
<1>1. IInv => OneProviderCall
  BY DEF IInv, Global, CallInv
<1>2. QED BY <1>1, Invariant, PTL

\* The reservation is exclusive, and its row is the one bound to the effect.
THEOREM ExclusiveExecution == Spec => []OneExecutor
<1>1. IInv => OneExecutor
  BY HolderRow DEF OneExecutor
<1>2. QED BY <1>1, Invariant, PTL

\* Neither the authority, nor a reconciliation, nor the ledger reports a post
\* that does not exist.
THEOREM SuccessesAreReal == Spec => []SuccessIsReal
<1>1. IInv => SuccessIsReal
  BY DEF IInv, Global, OutcomeInv, LedgerInv, SuccessIsReal
<1>2. QED BY <1>1, Invariant, PTL

\* A failure before the lookup left nothing on the channel.
THEOREM FailuresBeforeLookup == Spec => []FailedBeforeLookup
<1>1. IInv => FailedBeforeLookup
  BY DEF IInv, Global, OutcomeInv
<1>2. QED BY <1>1, Invariant, PTL

\* Media is published only under a container that was stored first.
THEOREM ContainersComeFirst == Spec => []ContainerBeforePost
<1>1. IInv => ContainerBeforePost
  BY DEF IInv, Global, CallInv
<1>2. QED BY <1>1, Invariant, PTL

-------------------------------------------------------------------------------
(* What leaves an intent pending.  IInv does not mention the history; this   *)
(* invariant does, and rests on it.                                          *)

LostInv ==
    /\ abandoned \subseteq Keys
    /\ overlooked \subseteq Keys
    /\ OnlyLostRequestsAbandon
    /\ RevocationsReach

\* The registers of the other threads stay.
OthersStay(p) == \A q \in Procs \ {p} :
    pc'[q] = pc[q] /\ key'[q] = key[q] /\ target'[q] = target[q]

\* No row becomes pending, and the history only grows.
Recedes ==
    /\ \A k \in Keys : Held(k)' => Held(k)
    /\ abandoned \subseteq abandoned' /\ abandoned' \subseteq Keys
    /\ overlooked \subseteq overlooked' /\ overlooked' \subseteq Keys

\* The thread goes on executing its row, settles it or abandons it ...
Resolves(p) == pc[p] \in Executing =>
    \/ pc'[p] \in Executing /\ key'[p] = key[p]
    \/ status'[key[p]] # "pending"
    \/ key[p] \in abandoned'

\* ... and what it had to revoke is revoked, or overlooked.
Reaches(p) == pc[p] = "revoke_unused" =>
    \A k \in Keys : Held(k)' /\ binding[k].run = target[p].run =>
        k \in overlooked'

LEMMA AbandonKeeps ==
  ASSUME LostInv, NEW p \in Procs, OthersStay(p), Recedes, Resolves(p)
  PROVE  OnlyLostRequestsAbandon'
<1> SUFFICES ASSUME NEW k \in Keys, Held(k)', k \notin abandoned'
             PROVE  \E q \in Procs : pc'[q] \in Executing /\ key'[q] = k
  BY DEF OnlyLostRequestsAbandon
<1>1. PICK q \in Procs : pc[q] \in Executing /\ key[q] = k
  BY DEF LostInv, OnlyLostRequestsAbandon, Recedes
<1>2. CASE q = p
  BY <1>1, <1>2 DEF Resolves, Held
<1>3. CASE q # p
  BY <1>1, <1>3 DEF OthersStay
<1>4. QED BY <1>2, <1>3

LEMMA ReachKeeps ==
  ASSUME LostInv, NEW p \in Procs, OthersStay(p), Recedes, Reaches(p),
         UNCHANGED <<greenlight, binding>>
  PROVE  RevocationsReach'
<1> SUFFICES ASSUME NEW k \in Keys, Held(k)', k \notin overlooked',
                    greenlight[binding[k].run] # "active"
             PROVE  \E q \in Procs : /\ pc'[q] = "revoke_unused"
                                     /\ target'[q].run = binding[k].run
  BY DEF RevocationsReach
<1>1. PICK q \in Procs : /\ pc[q] = "revoke_unused"
                         /\ target[q].run = binding[k].run
  BY DEF LostInv, RevocationsReach, Recedes
<1>2. q # p
  BY <1>1 DEF Reaches
<1>3. QED BY <1>1, <1>2 DEF OthersStay

LEMMA LostKeeps ==
  ASSUME LostInv, NEW p \in Procs, OthersStay(p), Recedes, Resolves(p),
         Reaches(p), UNCHANGED <<greenlight, binding>>
  PROVE  LostInv'
  BY AbandonKeeps, ReachKeeps DEF LostInv, Recedes

LEMMA SettledRecedes ==
  ASSUME IInv, NEW k \in Keys, NEW o \in {"succeeded", "failed", "unknown"}, NEW f,
         Settled(k, o, f)
  PROVE  (\A j \in Keys : Held(j)' => Held(j)) /\ status'[k] # "pending"
<1>1. CASE ~Held(k)
  BY <1>1 DEF Settled, Held
<1>2. CASE Held(k)
  <2>1. status' = [status EXCEPT ![k] = o]
    BY <1>2 DEF Settled
  <2>2. status'[k] = o /\ \A j \in Keys \ {k} : status'[j] = status[j]
    BY <2>1 DEF IInv, Typed, Columns
  <2>3. QED BY <2>2 DEF Held
<1>3. QED BY <1>1, <1>2

LEMMA RevokedRecedes ==
  ASSUME IInv, NEW B, RevokeUnused(B)
  PROVE  \A k \in Keys : Held(k)' => Held(k) /\ binding[k] \notin B
  BY DEF RevokeUnused, Held

\* A reservation: its thread executes it, and if the Greenlight was revoked
\* meanwhile the revocation cannot reach it.
LEMMA GrantLost ==
  ASSUME IInv, LostInv, NEW p \in Procs, Grant(p)
  PROVE  LostInv'
<1> DEFINE me == key[p]
<1>1. me \in Keys /\ target[p] \in Effects /\ pc[p] = "reserve"
  BY DEF Grant, IInv, Typed, RequestInv, Fits, Addressed
<1>2. /\ status'[me] = "pending" /\ binding'[me] = target[p]
      /\ \A j \in Keys \ {me} : status'[j] = status[j] /\ binding'[j] = binding[j]
  BY <1>1 DEF Grant, IInv, Typed, Columns
<1>3. /\ UNCHANGED <<greenlight, abandoned>>
      /\ overlooked' = IF greenlight[target[p].run] = "active" THEN overlooked
                       ELSE overlooked \cup {me}
  BY DEF Grant, durable
<1>4. OthersStay(p) /\ pc'[p] = "granted" /\ key'[p] = me
  BY GotoStarts, StartWrites DEF Grant, IInv, Typed, OthersStay
<1>5. OnlyLostRequestsAbandon'
  <2>1. ASSUME NEW k \in Keys, Held(k)', k \notin abandoned'
        PROVE  \E q \in Procs : pc'[q] \in Executing /\ key'[q] = k
    <3>1. CASE k = me
      BY <1>4, <3>1 DEF Executing, BeforeCall
    <3>2. CASE k # me
      <4>1. PICK q \in Procs : pc[q] \in Executing /\ key[q] = k
        BY <1>2, <1>3, <2>1, <3>2 DEF LostInv, OnlyLostRequestsAbandon, Held
      <4>2. QED BY <1>4, <3>2, <4>1 DEF OthersStay
    <3>3. QED BY <3>1, <3>2
  <2>2. QED BY <2>1 DEF OnlyLostRequestsAbandon
<1>6. RevocationsReach'
  <2>1. ASSUME NEW k \in Keys, Held(k)', k \notin overlooked',
               greenlight[binding'[k].run] # "active"
        PROVE  \E q \in Procs : /\ pc'[q] = "revoke_unused"
                                /\ target'[q].run = binding'[k].run
    <3>1. k # me
      BY <1>2, <1>3, <2>1
    <3>2. PICK q \in Procs : /\ pc[q] = "revoke_unused"
                             /\ target[q].run = binding[k].run
      BY <1>2, <1>3, <2>1, <3>1 DEF LostInv, RevocationsReach, Held
    <3>3. q # p
      BY <1>1, <3>2
    <3>4. QED BY <1>2, <1>4, <3>1, <3>2, <3>3 DEF OthersStay
  <2>2. QED BY <1>3, <2>1 DEF RevocationsReach
<1>7. QED BY <1>1, <1>3, <1>5, <1>6 DEF LostInv

\* A revocation is committed: its thread has yet to reach the run's intents.
LEMMA RevokeGreenlightLost ==
  ASSUME IInv, LostInv, NEW p \in Procs, RevokeGreenlight(p)
  PROVE  LostInv'
<1>1. PICK r \in Runs :
        /\ greenlight' = [greenlight EXCEPT ![r] = "revoked"]
        /\ Start(p, "revoke_unused", None, [NoTarget EXCEPT !.run = r])
  BY DEF RevokeGreenlight
<1>2. pc[p] = "idle" /\ UNCHANGED <<rows, history>>
  BY DEF RevokeGreenlight
<1>3. /\ OthersStay(p) /\ pc'[p] = "revoke_unused"
      /\ target'[p] = [NoTarget EXCEPT !.run = r]
  BY <1>1, StartWrites DEF IInv, Typed, OthersStay
<1>4. target'[p].run = r
  BY <1>3 DEF NoTarget
<1>5. \A s \in Runs : s # r => greenlight'[s] = greenlight[s]
  BY <1>1 DEF IInv, Typed, Columns
<1>6. OnlyLostRequestsAbandon'
  BY <1>2, <1>3, AbandonKeeps DEF Recedes, Resolves, LostInv, Held, rows, history,
                  Executing, BeforeCall, AfterCall, Verdicts
<1>7. RevocationsReach'
  <2>1. ASSUME NEW k \in Keys, Held(k)', k \notin overlooked',
               greenlight'[binding'[k].run] # "active"
        PROVE  \E q \in Procs : /\ pc'[q] = "revoke_unused"
                                /\ target'[q].run = binding'[k].run
    <3>1. Held(k) /\ k \notin overlooked /\ binding'[k] = binding[k]
      BY <1>2, <2>1 DEF Held, rows, history
    <3>2. binding[k].run \in Runs
      BY <3>1 DEF Held, Effects, IInv, Global, RowInv, Exists
    <3>3. CASE binding[k].run = r
      BY <1>3, <1>4, <3>1, <3>3
    <3>4. CASE binding[k].run # r
      <4>1. PICK q \in Procs : /\ pc[q] = "revoke_unused"
                               /\ target[q].run = binding[k].run
        BY <1>5, <2>1, <3>1, <3>2, <3>4 DEF LostInv, RevocationsReach
      <4>2. QED BY <1>2, <1>3, <3>1, <4>1 DEF OthersStay
    <3>5. QED BY <3>3, <3>4
  <2>2. QED BY <2>1 DEF RevocationsReach
<1>8. QED BY <1>2, <1>6, <1>7 DEF LostInv, history

\* One step of one request.
LEMMA RequestLost ==
  ASSUME IInv, LostInv, NEW p \in Procs,
         BeginPublish(p) \/ Reconcile(p) \/ BeginDisconnect(p)
         \/ RevokeGreenlight(p) \/ Continue(p) \/ Crash(p)
  PROVE  LostInv'
<1>f. Fits(pc[p], key[p], target[p]) /\ Registers
  BY DEF IInv, Typed, RequestInv
<1>k. pc[p] \in Executing => key[p] \in Keys
  BY <1>f DEF Fits, Addressed
<1>s. \A c : Goto(p, c) => Start(p, c, key[p], target[p])
  BY <1>f, GotoStarts
<1>i. Finish(p) => OthersStay(p)
  BY <1>f, StartWrites DEF Finish, OthersStay
<1>o. \A c : Goto(p, c) => OthersStay(p) /\ pc'[p] = c /\ key'[p] = key[p]
  BY <1>f, <1>s, StartWrites DEF OthersStay
<1>q. \* A step of a thread that holds nothing and revokes nothing.
      ASSUME pc[p] \notin Executing \cup {"revoke_unused"}, OthersStay(p),
             UNCHANGED <<greenlight, rows, history>>
      PROVE  LostInv'
  BY <1>q, LostKeeps DEF Recedes, Resolves, Reaches, LostInv, Held, rows, history
<1>e. \* A step of a thread that goes on executing.
      ASSUME NEW c \in Executing, Goto(p, c), pc[p] \in Executing,
             UNCHANGED <<greenlight, status, binding, history>>
      PROVE  LostInv'
  <2>1. pc[p] # "revoke_unused"
    BY <1>e DEF Executing, BeforeCall, AfterCall, Verdicts
  <2>2. QED
    BY <1>e, <1>o, <2>1, LostKeeps DEF Recedes, Resolves, Reaches, LostInv, Held, history
<1>t. \* A step of a thread that settles its row.
      ASSUME pc[p] \in Executing, OthersStay(p),
             NEW o \in {"succeeded", "failed", "unknown"}, NEW f,
             Settled(key[p], o, f), UNCHANGED <<greenlight, binding, history>>
      PROVE  LostInv'
  <2>1. pc[p] # "revoke_unused"
    BY <1>t DEF Executing, BeforeCall, AfterCall, Verdicts
  <2>2. (\A j \in Keys : Held(j)' => Held(j)) /\ status'[key[p]] # "pending"
    BY <1>k, <1>t, SettledRecedes
  <2>3. QED
    BY <1>t, <2>1, <2>2, LostKeeps DEF Recedes, Resolves, Reaches, LostInv, history
<1>v. \* A reply sends the thread to its next step or to a verdict.
      ASSUME NEW next \in Executing, NEW rejection \in Executing,
             NEW reply \in Replies
      PROVE  AfterReply(reply, next, rejection) \in Executing
  BY ReplyLeads DEF Executing, Verdicts
<1>x. pc[p] \in {"idle", "bind_account", "check_connection", "reserve",
                "audit_succeeded", "audit_reconciled", "disconnect_read",
                "disconnect_revoke", "disconnect_delete", "disconnect_audit",
                "revoke_audit"} => pc[p] \notin Executing \cup {"revoke_unused"}
  BY DEF Executing, BeforeCall, AfterCall, Verdicts
<1>y. ASSUME NEW c, NEW k, NEW t, Start(p, c, k, t) PROVE OthersStay(p)
  BY <1>f, <1>y, StartWrites DEF OthersStay
<1>1. CASE BeginPublish(p)
  BY <1>1, <1>q, <1>x, <1>y DEF BeginPublish, durable
<1>2. CASE BindAccount(p)
  BY <1>2, <1>i, <1>q, <1>x, <1>y DEF BindAccount, durable
<1>3. CASE CheckConnection(p)
  BY <1>3, <1>i, <1>o, <1>q, <1>x DEF CheckConnection, durable
<1>4. CASE Grant(p)
  BY <1>4, GrantLost
<1>5. CASE Replay(p)
  BY <1>5, <1>i, <1>q, <1>x, <1>y DEF Replay, durable
<1>6. CASE CredentialInvalid(p)
  BY <1>6, <1>i, <1>t DEF CredentialInvalid, durable, Executing, BeforeCall
<1>7. CASE CreatePostX(p) \/ PublishMedia(p)
  <2>1. pc[p] \in Executing /\ SendPost(p)
    BY <1>7 DEF CreatePostX, PublishMedia, Executing, BeforeCall
  <2>2. PICK reply \in Replies : Goto(p, AfterReply(reply, "verify", "rejected"))
    BY <2>1 DEF SendPost
  <2>3. QED
    BY <1>e, <1>v, <2>1, <2>2 DEF SendPost, durable, rows, Executing, AfterCall, Verdicts
<1>8. CASE CreateContainer(p) \/ PollContainer(p) \/ VerifyPost(p)
  <2>1. PICK next \in Executing, rejection \in Executing :
           pc[p] \in Executing /\ Ask(p, next, rejection)
    BY <1>8 DEF CreateContainer, PollContainer, VerifyPost, Executing, BeforeCall,
                AfterCall, Verdicts
  <2>2. QED
    BY <1>e, <1>v, <2>1 DEF Ask, durable, rows
<1>9. CASE RecordContainer(p)
  BY <1>9, <1>e DEF RecordContainer, durable, Executing, BeforeCall, Verdicts
<1>10. CASE Complete(p)
  <2>1. /\ pc[p] \in Executing /\ UNCHANGED <<greenlight, binding, history>>
        /\ \/ /\ Settled(key[p], "succeeded", "")
              /\ \E c \in {"audit_succeeded", "outcome_unknown"} : Goto(p, c)
           \/ Goto(p, "outcome_unknown") /\ UNCHANGED status
    BY <1>10 DEF Complete, durable, Executing, AfterCall
  <2>2. QED BY <1>e, <1>o, <1>t, <2>1 DEF Executing, Verdicts
<1>11. CASE MarkUnknown(p)
  BY <1>11, <1>i, <1>t DEF MarkUnknown, durable, Executing, Verdicts
<1>12. CASE MarkFailed(p)
  <2>1. OthersStay(p)
    BY <1>12, <1>i, <1>y DEF MarkFailed
  <2>2. /\ pc[p] \in Executing /\ UNCHANGED <<greenlight, binding, history>>
        /\ Settled(key[p], "failed",
                   IF pc[p] = "rejected" THEN "publish" ELSE "lookup")
    BY <1>12 DEF MarkFailed, durable, Executing, Verdicts
  <2>3. QED BY <1>t, <2>1, <2>2
<1>13. CASE SecretMissing(p)
  BY <1>13, <1>e DEF SecretMissing, durable, rows, Executing, BeforeCall, Verdicts
<1>14. CASE Escape(p)
  <2>1. /\ pc[p] \in Executing /\ pc[p] # "revoke_unused" /\ OthersStay(p)
        /\ abandoned' = abandoned \cup {key[p]}
        /\ UNCHANGED <<greenlight, status, binding, overlooked>>
    BY <1>14, <1>i DEF Escape, durable, rows, Executing, Verdicts
  <2>2. QED
    BY <1>k, <2>1, LostKeeps DEF Recedes, Resolves, Reaches, LostInv, Held
<1>15. CASE RecordEvent(p)
  BY <1>15, <1>i, <1>q, <1>x DEF RecordEvent
<1>16. CASE Reconcile(p)
  <2>1. PICK k \in Keys :
          /\ \/ status' = [status EXCEPT ![k] = "succeeded"]
             \/ UNCHANGED status
          /\ Start(p, "audit_reconciled", k, NoTarget)
    BY <1>16 DEF Reconcile
  <2>2. \A j \in Keys : Held(j)' => Held(j)
    BY <2>1 DEF Held, IInv, Typed, Columns
  <2>3. /\ pc[p] \notin Executing \cup {"revoke_unused"} /\ OthersStay(p)
        /\ UNCHANGED <<greenlight, binding, history>>
    BY <1>16, <1>x, <1>y, <2>1 DEF Reconcile, durable
  <2>4. QED
    BY <2>2, <2>3, LostKeeps DEF Recedes, Resolves, Reaches, LostInv, history
<1>17. CASE BeginDisconnect(p)
  BY <1>17, <1>q, <1>x, <1>y DEF BeginDisconnect, durable
<1>18. CASE DisconnectRead(p)
  BY <1>18, <1>q, <1>x, <1>y DEF DisconnectRead, durable
<1>19. CASE DisconnectRevoke(p)
  <2>1. /\ pc[p] \notin Executing \cup {"revoke_unused"} /\ OthersStay(p)
        /\ UNCHANGED <<greenlight, binding, history>>
    BY <1>19, <1>o, <1>x DEF DisconnectRevoke, durable
  <2>2. \A k \in Keys : Held(k)' => Held(k)
    BY <1>19, RevokedRecedes DEF DisconnectRevoke
  <2>3. QED
    BY <2>1, <2>2, LostKeeps DEF Recedes, Resolves, Reaches, LostInv, history
<1>20. CASE DisconnectDelete(p)
  BY <1>20, <1>i, <1>o, <1>q, <1>x DEF DisconnectDelete
<1>21. CASE RevokeGreenlight(p)
  BY <1>21, RevokeGreenlightLost
<1>22. CASE RevokePendingOfRun(p)
  <2> DEFINE B == {e \in Effects : e.run = target[p].run}
  <2>1. /\ pc[p] \notin Executing /\ OthersStay(p) /\ RevokeUnused(B)
        /\ UNCHANGED <<greenlight, binding, history>>
    BY <1>22, <1>i, <1>o DEF RevokePendingOfRun, durable, Executing, BeforeCall,
                             AfterCall, Verdicts
  <2>2. \A k \in Keys : Held(k)' => Held(k) /\ binding[k] \notin B
    <3> HIDE DEF B
    <3>1. QED BY <2>1, RevokedRecedes
  <2>3. ASSUME NEW k \in Keys, Held(k)' PROVE binding[k].run # target[p].run
    <3>1. binding[k] \in Effects
      BY <2>2, <2>3 DEF IInv, Global, RowInv, Exists, Held
    <3>2. QED BY <2>2, <2>3, <3>1
  <2> HIDE DEF B
  <2>4. QED
    BY <2>1, <2>2, <2>3, LostKeeps DEF Recedes, Resolves, Reaches, LostInv, history
<1>23. CASE Crash(p)
  <2>1. /\ OthersStay(p) /\ UNCHANGED <<greenlight, status, binding>>
        /\ abandoned' = IF pc[p] \in Executing THEN abandoned \cup {key[p]}
                        ELSE abandoned
        /\ overlooked' = IF pc[p] = "revoke_unused" THEN overlooked \cup Reach(p)
                         ELSE overlooked
    BY <1>23, <1>i DEF Crash, durable, rows
  <2>2. Recedes
    BY <1>k, <2>1 DEF Recedes, LostInv, Held, Reach
  <2>3. Resolves(p) /\ Reaches(p)
    BY <2>1 DEF Resolves, Reaches, Reach, Held
  <2>4. QED BY <2>1, <2>2, <2>3, LostKeeps
<1>24. QED
  BY <1>1, <1>2, <1>3, <1>4, <1>5, <1>6, <1>7, <1>8, <1>9, <1>10, <1>11, <1>12,
     <1>13, <1>14, <1>15, <1>16, <1>17, <1>18, <1>19, <1>20, <1>21, <1>22,
     <1>23 DEF Continue

LEMMA LostStep == IInv /\ LostInv /\ [Next]_vars => LostInv'
<1> SUFFICES ASSUME IInv, LostInv, [Next]_vars PROVE LostInv'
  OBVIOUS
<1>1. CASE UNCHANGED vars \/ Connect
  <2>1. UNCHANGED <<greenlight, rows, pc, request, history>>
    BY <1>1 DEF vars, durable, Connect
  <2>2. QED
    BY <2>1 DEF LostInv, OnlyLostRequestsAbandon, RevocationsReach, Held, rows,
                request, history
<1>2. CASE \E p \in Procs :
              BeginPublish(p) \/ Reconcile(p) \/ BeginDisconnect(p)
              \/ RevokeGreenlight(p) \/ Continue(p) \/ Crash(p)
  BY <1>2, RequestLost
<1>3. QED BY <1>1, <1>2 DEF Next

LEMMA LostInvariant == Spec => []LostInv
<1>1. Init => LostInv
  BY DEF Init, LostInv, OnlyLostRequestsAbandon, RevocationsReach, Held
<1>2. QED BY <1>1, LostStep, Invariant, PTL DEF Spec

\* Every column and every register keeps its type.
THEOREM TypeCorrect == Spec => []TypeOK
<1>1. IInv /\ LostInv => TypeOK
  BY DEF IInv, Typed, Columns, Registers, LostInv, TypeOK
<1>2. QED BY <1>1, Invariant, LostInvariant, PTL

\* Whatever clients, the provider and other threads do, a row stays pending
\* only after a request that was lost or ended by an unhandled exception.
THEOREM NothingElseAbandons == Spec => []OnlyLostRequestsAbandon
<1>1. LostInv => OnlyLostRequestsAbandon
  BY DEF LostInv
<1>2. QED BY <1>1, LostInvariant, PTL

\* A committed revocation reaches every intent of its run that was there, unless
\* its own request is lost.
THEOREM RevocationsReachIntents == Spec => []RevocationsReach
<1>1. LostInv => RevocationsReach
  BY DEF LostInv
<1>2. QED BY <1>1, LostInvariant, PTL

-------------------------------------------------------------------------------
(* The authority implements EffectOnce. *)

\* EffectOutcome as a function of the two columns it reads.
OutcomeIn(s, b) ==
    [e \in Effects |-> IF \E k \in Keys : b[k] = e
                       THEN s[CHOOSE k \in Keys : b[k] = e]
                       ELSE "none"]

\* No effect is bound to two keys.
Unique(b) == \A j, k \in Keys : b[j] \in Effects /\ b[j] = b[k] => j = k

LEMMA RowsAreUnique == RowInv => Unique(binding)
  BY NoneAssumption DEF RowInv, Unique

\* The outcome of an effect is the status of the row bound to it.
LEMMA OutcomeOfRow ==
  ASSUME NEW s, NEW b, Unique(b), NEW k \in Keys, b[k] \in Effects
  PROVE  OutcomeIn(s, b)[b[k]] = s[k]
<1> DEFINE j == CHOOSE i \in Keys : b[i] = b[k]
<1>1. j \in Keys /\ b[j] = b[k]
  OBVIOUS
<1>2. j = k
  BY <1>1 DEF Unique
<1>3. OutcomeIn(s, b)[b[k]] = s[j]
  BY DEF OutcomeIn
<1>4. QED BY <1>2, <1>3

LEMMA OutcomeWithoutRow ==
  ASSUME NEW s, NEW b, NEW e \in Effects, \A k \in Keys : b[k] # e
  PROVE  OutcomeIn(s, b)[e] = "none"
  BY DEF OutcomeIn

LEMMA FunctionUpdated ==
  ASSUME NEW S, NEW f, NEW g, NEW a \in S, NEW v,
         f = [x \in S |-> f[x]], g = [x \in S |-> g[x]],
         g[a] = v, \A x \in S \ {a} : g[x] = f[x]
  PROVE  g = [f EXCEPT ![a] = v]
<1>1. DOMAIN f = S /\ DOMAIN g = S
  OBVIOUS
<1>2. [f EXCEPT ![a] = v] = [x \in S |-> IF x = a THEN v ELSE f[x]]
  BY <1>1
<1>3. \A x \in S : g[x] = IF x = a THEN v ELSE f[x]
  OBVIOUS
<1>4. QED BY <1>1, <1>2, <1>3

\* A step that writes the row k, which is bound to e after it, and no other row
\* changes the outcome of e alone.
LEMMA OutcomeFollowsRow ==
  ASSUME NEW s, NEW t, NEW b, NEW c, Unique(b), Unique(c),
         NEW k \in Keys, c[k] \in Effects, b[k] \in {c[k], None},
         \A j \in Keys \ {k} : t[j] = s[j] /\ c[j] = b[j]
  PROVE  OutcomeIn(t, c) = [OutcomeIn(s, b) EXCEPT ![c[k]] = t[k]]
<1> DEFINE f == OutcomeIn(s, b)
           g == OutcomeIn(t, c)
<1>1. g[c[k]] = t[k]
  BY OutcomeOfRow
<1>2. ASSUME NEW e \in Effects, e # c[k]
      PROVE  g[e] = f[e]
  <2>1. CASE \E j \in Keys : c[j] = e
    <3>1. PICK j \in Keys : c[j] = e
      BY <2>1
    <3>2. j # k /\ b[j] = e /\ t[j] = s[j]
      BY <1>2, <3>1
    <3>3. g[c[j]] = t[j]
      BY <3>1, OutcomeOfRow
    <3>4. f[b[j]] = s[j]
      BY <3>2, OutcomeOfRow
    <3>5. QED BY <3>1, <3>2, <3>3, <3>4
  <2>2. CASE \A j \in Keys : c[j] # e
    <3>1. \A j \in Keys : b[j] # e
      BY <1>2, <2>2, NoneAssumption
    <3>2. g[e] = "none" /\ f[e] = "none"
      BY <2>2, <3>1, OutcomeWithoutRow
    <3>3. QED BY <3>2
  <2>3. QED BY <2>1, <2>2
<1>3. f = [e \in Effects |-> f[e]] /\ g = [e \in Effects |-> g[e]]
  BY DEF OutcomeIn
<1> HIDE DEF f, g
<1>4. g = [f EXCEPT ![c[k]] = t[k]]
  BY <1>1, <1>2, <1>3, FunctionUpdated
<1>5. QED BY <1>4 DEF f, g

LEMMA OutcomeFollowsStatus ==
  ASSUME NEW s, NEW t, NEW b, Unique(b), NEW k \in Keys, b[k] \in Effects,
         \A j \in Keys \ {k} : t[j] = s[j]
  PROVE  OutcomeIn(t, b) = [OutcomeIn(s, b) EXCEPT ![b[k]] = t[k]]
<1> DEFINE c == b
<1>1. /\ Unique(c) /\ c[k] \in Effects /\ b[k] \in {c[k], None}
      /\ \A j \in Keys \ {k} : t[j] = s[j] /\ c[j] = b[j]
  OBVIOUS
<1> HIDE DEF c
<1>2. OutcomeIn(t, c) = [OutcomeIn(s, b) EXCEPT ![c[k]] = t[k]]
  BY <1>1, OutcomeFollowsRow
<1>3. QED BY <1>2 DEF c

\* What a step of the refinement may use.
LEMMA RowFacts ==
  ASSUME IInv
  PROVE  /\ Unique(binding)
         /\ EffectOutcome = OutcomeIn(status, binding)
         /\ \A k \in Keys : Exists(k) => binding[k] \in Effects
         /\ \A k \in Keys : binding[k] \in Effects =>
                EffectOutcome[binding[k]] = status[k]
<1>1. Unique(binding)
  BY RowsAreUnique DEF IInv, Global
<1>2. EffectOutcome = OutcomeIn(status, binding)
  BY DEF EffectOutcome, OutcomeIn
<1>3. \A k \in Keys : Exists(k) => binding[k] \in Effects
  BY DEF IInv, Global, RowInv
<1>4. QED BY <1>1, <1>2, <1>3, OutcomeOfRow

Mapped == [Once!Next]_<<EffectOutcome, creates>>

LEMMA StutterMaps ==
  ASSUME UNCHANGED <<status, binding, creates>>
  PROVE  Mapped
<1>1. EffectOutcome' = EffectOutcome
  BY DEF EffectOutcome
<1>2. QED BY <1>1 DEF Mapped

\* The one step that changes the outcome of an effect by writing its row.
LEMMA RowWritten ==
  ASSUME IInv, IInv', NEW k \in Keys, NEW o,
         status' = [status EXCEPT ![k] = o], UNCHANGED binding, Exists(k)
  PROVE  EffectOutcome' = [EffectOutcome EXCEPT ![binding[k]] = o]
<1>1. EffectOutcome' = OutcomeIn(status', binding)
  BY DEF EffectOutcome, OutcomeIn
<1>2. Unique(binding) /\ EffectOutcome = OutcomeIn(status, binding)
      /\ binding[k] \in Effects
  BY RowFacts
<1>3. status'[k] = o /\ \A j \in Keys \ {k} : status'[j] = status[j]
  BY DEF IInv, Typed, Columns
<1>4. ASSUME NEW t, t = status'
      PROVE  OutcomeIn(t, binding)
               = [OutcomeIn(status, binding) EXCEPT ![binding[k]] = t[k]]
  <2>1. \A j \in Keys \ {k} : t[j] = status[j]
    BY <1>3, <1>4
  <2>2. QED BY <1>2, <2>1, OutcomeFollowsStatus
<1>5. QED BY <1>1, <1>2, <1>3, <1>4

LEMMA GrantMaps ==
  ASSUME IInv, IInv', NEW p \in Procs, Grant(p)
  PROVE  Mapped
<1> DEFINE me == key[p]
           e == target[p]
<1>r. /\ me \in Keys /\ e \in Effects /\ pc[p] = "reserve"
  BY DEF Grant, IInv, Typed, RequestInv, Fits, Addressed
<1>m. ~Exists(me) /\ \A j \in Keys : Exists(j) => binding[j] # e
  BY <1>r DEF Grant, Matches
<1>n. binding[me] = None /\ \A j \in Keys : binding[j] # e
  BY <1>r, <1>m, NoneAssumption DEF IInv, Global, RowInv
<1>0. creates[e] = 0
  <2>1. creates[e] \in Nat
    BY <1>r DEF IInv, Typed, Columns
  <2>2. ~(creates[e] > 0)
    BY <1>r, <1>n DEF IInv, Global, CallInv
  <2>3. QED BY <2>1, <2>2
<1>1. /\ status' = [status EXCEPT ![me] = "pending"]
      /\ binding' = [binding EXCEPT ![me] = e]
      /\ UNCHANGED creates
  BY DEF Grant, provider
<1>2. /\ status'[me] = "pending" /\ binding'[me] = e
      /\ \A j \in Keys \ {me} : status'[j] = status[j] /\ binding'[j] = binding[j]
  BY <1>r, <1>1 DEF IInv, Typed, Columns
<1>3. Unique(binding) /\ EffectOutcome = OutcomeIn(status, binding)
  BY RowFacts
<1>4. Unique(binding') /\ EffectOutcome' = OutcomeIn(status', binding')
  <2>1. Unique(binding')
    BY <1>r, <1>2, <1>3, <1>n DEF Unique
  <2>2. QED BY <2>1 DEF EffectOutcome, OutcomeIn
<1>5. EffectOutcome' = [EffectOutcome EXCEPT ![e] = "pending"]
  <2>1. OutcomeIn(status', binding')
          = [OutcomeIn(status, binding) EXCEPT ![binding'[me]] = status'[me]]
    BY <1>r, <1>n, <1>2, <1>3, <1>4, OutcomeFollowsRow
  <2>2. QED BY <1>2, <1>3, <1>4, <2>1
<1>6. EffectOutcome[e] = "none"
  BY <1>r, <1>n, <1>3, OutcomeWithoutRow
<1>7. Once!Reserve(e)
  BY <1>0, <1>1, <1>5, <1>6 DEF Once!Reserve
<1>8. QED BY <1>r, <1>7 DEF Mapped, Once!Next

\* A settled row is pending before, and it succeeds only for a post that exists.
LEMMA SettleMaps ==
  ASSUME IInv, IInv', NEW p \in Procs, pc[p] \in Executing,
         NEW o \in {"succeeded", "failed", "unknown"}, NEW f,
         Settled(key[p], o, f), UNCHANGED <<binding, creates>>,
         o = "succeeded" => creates[target[p]] = 1
  PROVE  Mapped
<1>1. CASE ~Held(key[p])
  BY <1>1, StutterMaps DEF Settled
<1>2. CASE Held(key[p])
  <2> DEFINE e == target[p]
  <2>1. /\ key[p] \in Keys /\ e \in Effects /\ Exists(key[p])
        /\ binding[key[p]] = e
    BY HolderRow
  <2>2. status' = [status EXCEPT ![key[p]] = o]
    BY <1>2 DEF Settled
  <2>3. EffectOutcome' = [EffectOutcome EXCEPT ![e] = o]
    BY <2>1, <2>2, RowWritten
  <2>4. EffectOutcome[e] = "pending"
    BY <1>2, <2>1, RowFacts DEF Held
  <2>5. Once!Settle(e)
    BY <2>3, <2>4 DEF Once!Settle
  <2>6. QED BY <2>1, <2>5 DEF Mapped, Once!Next
<1>3. QED BY <1>1, <1>2

LEMMA SendMaps ==
  ASSUME IInv, IInv', NEW p \in Procs, pc[p] \in BeforeCall, SendPost(p)
  PROVE  Mapped
<1> DEFINE e == target[p]
<1>1. /\ key[p] \in Keys /\ e \in Effects /\ binding[key[p]] = e
  BY HolderRow DEF Executing
<1>2. creates[e] = 0 /\ status[key[p]] \in {"pending", "revoked"}
  BY DEF IInv, Local, HolderInv, Holds, Executing, BeforeCall
<1>3. creates' = [creates EXCEPT ![e] = 1] /\ UNCHANGED <<status, binding>>
  <2>1. creates' = [creates EXCEPT ![e] = @ + 1] /\ UNCHANGED rows
    BY DEF SendPost
  <2>2. creates[e] + 1 = 1
    BY <1>2
  <2>3. QED BY <2>1, <2>2 DEF rows
<1>4. EffectOutcome[e] \in {"pending", "revoked"}
  BY <1>1, <1>2, RowFacts
<1>5. EffectOutcome' = EffectOutcome
  BY <1>3 DEF EffectOutcome
<1>6. Once!Send(e)
  BY <1>2, <1>3, <1>4, <1>5 DEF Once!Send
<1>7. QED BY <1>1, <1>6 DEF Mapped, Once!Next

LEMMA RevokeMaps ==
  ASSUME IInv, IInv', NEW B \in SUBSET Effects, RevokeUnused(B),
         UNCHANGED <<binding, creates>>
  PROVE  Mapped
<1> DEFINE S == {e \in B : EffectOutcome[e] = "pending"}
<1>1. ASSUME NEW e \in Effects
      PROVE  EffectOutcome'[e] = IF e \in S THEN "revoked" ELSE EffectOutcome[e]
  <2>u. /\ Unique(binding)
        /\ EffectOutcome = OutcomeIn(status, binding)
        /\ EffectOutcome' = OutcomeIn(status', binding)
    BY RowFacts DEF EffectOutcome, OutcomeIn
  <2>1. CASE \E k \in Keys : binding[k] = e
    <3>1. PICK k \in Keys : binding[k] = e
      BY <2>1
    <3>2. EffectOutcome[e] = status[k] /\ EffectOutcome'[e] = status'[k]
      BY <2>u, <3>1, OutcomeOfRow
    <3>3. status'[k] = IF status[k] = "pending" /\ e \in B THEN "revoked"
                       ELSE status[k]
      BY <3>1 DEF RevokeUnused, Held
    <3>4. QED BY <3>2, <3>3
  <2>2. CASE \A k \in Keys : binding[k] # e
    <3>1. EffectOutcome[e] = "none" /\ EffectOutcome'[e] = "none"
      BY <2>u, <2>2, OutcomeWithoutRow
    <3>2. QED BY <3>1
  <2>3. QED BY <2>1, <2>2
<1>2. EffectOutcome' = [e \in Effects |-> EffectOutcome'[e]]
  BY DEF EffectOutcome
<1>3. EffectOutcome' = [e \in Effects |-> IF e \in S THEN "revoked"
                                                     ELSE EffectOutcome[e]]
  BY <1>1, <1>2
<1>4. S \in SUBSET Effects /\ \A e \in S : EffectOutcome[e] = "pending"
  OBVIOUS
<1> HIDE DEF S
<1>5. Once!Revoke(S)
  BY <1>3, <1>4 DEF Once!Revoke
<1>6. QED BY <1>4, <1>5 DEF Mapped, Once!Next

LEMMA ReconcileMaps ==
  ASSUME IInv, IInv', NEW p \in Procs, Reconcile(p)
  PROVE  Mapped
<1>1. PICK k \in Keys :
        /\ Exists(k)
        /\ posts[binding[k]] > 0
        /\ \/ /\ status[k] = "unknown"
              /\ status' = [status EXCEPT ![k] = "succeeded"]
           \/ UNCHANGED status
  BY DEF Reconcile
<1>2. UNCHANGED <<binding, creates>>
  BY DEF Reconcile, provider
<1>3. CASE UNCHANGED status
  BY <1>2, <1>3, StutterMaps
<1>4. CASE /\ status[k] = "unknown"
           /\ status' = [status EXCEPT ![k] = "succeeded"]
  <2> DEFINE e == binding[k]
  <2>1. e \in Effects /\ EffectOutcome[e] = "unknown"
    BY <1>1, <1>4, RowFacts
  <2>2. creates[e] = 1
    <3>1. creates[e] \in Nat /\ posts[e] \in Nat
      BY <2>1 DEF IInv, Typed, Columns
    <3>2. creates[e] <= 1 /\ posts[e] <= creates[e]
      BY <2>1 DEF IInv, Global, CallInv, OneProviderCall
    <3>3. QED BY <1>1, <3>1, <3>2
  <2>3. EffectOutcome' = [EffectOutcome EXCEPT ![e] = "succeeded"]
    BY <1>1, <1>2, <1>4, RowWritten
  <2>4. Once!Reconcile(e)
    BY <1>2, <2>1, <2>2, <2>3 DEF Once!Reconcile
  <2>5. QED BY <2>1, <2>4 DEF Mapped, Once!Next
<1>5. QED BY <1>1, <1>3, <1>4

\* Every step of a thread is a step of EffectOnce, or one it does not see.
LEMMA RequestMaps ==
  ASSUME IInv, IInv', NEW p \in Procs,
         BeginPublish(p) \/ Reconcile(p) \/ BeginDisconnect(p)
         \/ RevokeGreenlight(p) \/ Continue(p) \/ Crash(p)
  PROVE  Mapped
<1>s. ASSUME UNCHANGED <<rows, provider>> PROVE Mapped
  BY <1>s, StutterMaps DEF rows, provider
<1>1. CASE BeginPublish(p)     BY <1>1, <1>s DEF BeginPublish
<1>2. CASE BindAccount(p)      BY <1>2, <1>s DEF BindAccount
<1>3. CASE CheckConnection(p)  BY <1>3, <1>s DEF CheckConnection
<1>4. CASE Grant(p)            BY <1>4, GrantMaps
<1>5. CASE Replay(p)           BY <1>5, <1>s DEF Replay
<1>6. CASE CredentialInvalid(p)
  <2>1. /\ pc[p] \in Executing /\ Settled(key[p], "failed", "publish")
        /\ UNCHANGED <<binding, creates>>
    BY <1>6 DEF CredentialInvalid, Executing, BeforeCall, provider
  <2>2. QED BY <2>1, SettleMaps
<1>7. CASE CreatePostX(p)
  BY <1>7, SendMaps DEF CreatePostX, BeforeCall
<1>8. CASE CreateContainer(p)  BY <1>8, <1>s DEF CreateContainer, Ask
<1>9. CASE RecordContainer(p)
  BY <1>9, StutterMaps DEF RecordContainer, provider
<1>10. CASE PollContainer(p)   BY <1>10, <1>s DEF PollContainer, Ask
<1>11. CASE PublishMedia(p)
  BY <1>11, SendMaps DEF PublishMedia, BeforeCall
<1>12. CASE VerifyPost(p)      BY <1>12, <1>s DEF VerifyPost, Ask
<1>13. CASE Complete(p)
  <2>1. /\ pc[p] \in Executing /\ UNCHANGED <<binding, creates>>
        /\ Settled(key[p], "succeeded", "") \/ UNCHANGED status
    BY <1>13 DEF Complete, Executing, AfterCall, provider
  <2>2. creates[target[p]] = 1
    <3>1. target[p] \in Effects /\ posts[target[p]] = 1
      BY <1>13, <2>1, HolderRow DEF Complete, IInv, Local, HolderInv, Holds, AfterCall
    <3>2. creates[target[p]] \in Nat /\ creates[target[p]] <= 1
          /\ posts[target[p]] <= creates[target[p]]
      BY <3>1 DEF IInv, Typed, Columns, Global, CallInv, OneProviderCall
    <3>3. QED BY <3>1, <3>2
  <2>3. QED BY <2>1, <2>2, SettleMaps, StutterMaps
<1>14. CASE MarkUnknown(p)
  <2>1. /\ pc[p] \in Executing /\ Settled(key[p], "unknown", "")
        /\ UNCHANGED <<binding, creates>>
    BY <1>14 DEF MarkUnknown, Executing, Verdicts, provider
  <2>2. QED BY <2>1, SettleMaps
<1>15. CASE MarkFailed(p)
  <2>1. /\ pc[p] \in Executing
        /\ Settled(key[p], "failed", IF pc[p] = "rejected" THEN "publish" ELSE "lookup")
        /\ UNCHANGED <<binding, creates>>
    BY <1>15 DEF MarkFailed, Executing, Verdicts, provider
  <2>2. QED BY <2>1, SettleMaps
<1>16. CASE RecordEvent(p)     BY <1>16, <1>s DEF RecordEvent
<1>17. CASE Reconcile(p)       BY <1>17, ReconcileMaps
<1>18. CASE BeginDisconnect(p) BY <1>18, <1>s DEF BeginDisconnect
<1>19. CASE DisconnectRead(p)  BY <1>19, <1>s DEF DisconnectRead
<1>20. CASE DisconnectRevoke(p)
  <2> DEFINE B == {e \in Effects : /\ e.channel = target[p].channel
                                   /\ e.account = target[p].account}
  <2>1. RevokeUnused(B) /\ UNCHANGED <<binding, creates>>
    BY <1>20 DEF DisconnectRevoke, provider
  <2>2. B \in SUBSET Effects
    OBVIOUS
  <2> HIDE DEF B
  <2>3. QED BY <2>1, <2>2, RevokeMaps
<1>21. CASE DisconnectDelete(p) BY <1>21, <1>s DEF DisconnectDelete
<1>22. CASE RevokeGreenlight(p) BY <1>22, <1>s DEF RevokeGreenlight
<1>23. CASE RevokePendingOfRun(p)
  <2> DEFINE B == {e \in Effects : e.run = target[p].run}
  <2>1. RevokeUnused(B) /\ UNCHANGED <<binding, creates>>
    BY <1>23 DEF RevokePendingOfRun, provider
  <2>2. B \in SUBSET Effects
    OBVIOUS
  <2> HIDE DEF B
  <2>3. QED BY <2>1, <2>2, RevokeMaps
<1>24. CASE Crash(p)           BY <1>24, <1>s DEF Crash
<1>25. CASE SecretMissing(p)   BY <1>25, <1>s DEF SecretMissing
<1>26. CASE Escape(p)          BY <1>26, <1>s DEF Escape
<1>27. QED
  BY <1>1, <1>2, <1>3, <1>4, <1>5, <1>6, <1>7, <1>8, <1>9, <1>10, <1>11, <1>12,
     <1>13, <1>14, <1>15, <1>16, <1>17, <1>18, <1>19, <1>20, <1>21, <1>22,
     <1>23, <1>24, <1>25, <1>26 DEF Continue

\* The authority is an EffectOnce: threads, keys, crashes and lost answers
\* never make an effect's outcome or its calls move in a way it forbids.
THEOREM Implementation == Spec => ImplementsEffectOnce
<1>1. Init => Once!Init
  <2> SUFFICES ASSUME Init PROVE Once!Init
    OBVIOUS
  <2>1. \A k \in Keys : binding[k] = None
    BY DEF Init
  <2>2. EffectOutcome = [e \in Effects |-> "none"]
    BY <2>1, NoneAssumption DEF EffectOutcome
  <2>3. QED BY <2>2 DEF Init, Once!Init
<1>2. IInv /\ IInv' /\ [Next]_vars => [Once!Next]_<<EffectOutcome, creates>>
  <2> SUFFICES ASSUME IInv, IInv', [Next]_vars PROVE Mapped
    BY DEF Mapped
  <2>1. CASE UNCHANGED vars
    BY <2>1, StutterMaps DEF vars, rows, provider
  <2>2. CASE Connect
    BY <2>2, StutterMaps DEF Connect, rows, provider
  <2>3. CASE \E p \in Procs :
                BeginPublish(p) \/ Reconcile(p) \/ BeginDisconnect(p)
                \/ RevokeGreenlight(p) \/ Continue(p) \/ Crash(p)
    BY <2>3, RequestMaps
  <2>4. QED BY <2>1, <2>2, <2>3 DEF Next
<1>3. QED BY <1>1, <1>2, Invariant, PTL DEF Spec, Once!Spec, ImplementsEffectOnce

================================================================================
