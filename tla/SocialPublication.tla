--------------------------- MODULE SocialPublication ---------------------------
(***************************************************************************)
(* The authority that publishes an approved artifact to a social channel   *)
(* at most once: SocialPublicationAuthority, the durable intent store it   *)
(* reserves from, the endpoints that publish, reconcile, disconnect and    *)
(* revoke, and the provider they call.  Requests are served concurrently   *)
(* by several threads and replicas; each keeps only what it has read so    *)
(* far, and every access to the database or to the provider is one step.   *)
(*                                                                         *)
(* An effect is what the binding digest identifies.  The artifact, its     *)
(* hash, the media and the Greenlight fence are functions of the run and   *)
(* the channel once the run is approved, so an effect here is a run, a     *)
(* channel and the account it is posted from.  An intent is found by the   *)
(* digest of the client's idempotency key, so its columns are indexed by   *)
(* the keys.  execution_fencing_token is left out: it is 1 in every row.   *)
(***************************************************************************)
EXTENDS Naturals

CONSTANTS
    Procs,      \* request threads, over all replicas of the API
    Keys,       \* idempotency keys clients use
    Runs,       \* completed runs, each with an approved Greenlight
    Channels,   \* the enabled channels
    Accounts,   \* provider accounts that can be connected
    None,       \* absence of a value
    CanCrash    \* whether a request may be lost between two steps

Effects == [run : Runs, channel : Channels, account : Accounts]

\* The effect a request is about, as far as the request knows it.
Targets == [run : Runs \cup {None}, channel : Channels \cup {None},
            account : Accounts \cup {None}]

ASSUME ChannelAssumption == Channels \subseteq {"x", "instagram"}
ASSUME NoneAssumption ==
    None \notin Keys \cup Runs \cup Channels \cup Accounts \cup Effects
ASSUME CrashAssumption == CanCrash \in BOOLEAN

VARIABLES
    greenlight,  \* run -> whether its Greenlight is active or revoked
    connection,  \* channel -> the connected account, or None
    status,      \* key -> status of its intent, "none" when there is none
    binding,     \* key -> the effect its intent is bound to, or None
    failure,     \* key -> which call was rejected, when status is "failed"
    contained,   \* keys whose intent has a container ID
    reconciled,  \* keys whose intent has the receipt of a reconciliation
    creates,     \* effect -> publish requests the provider was sent
    posts,       \* effect -> posts that exist at the provider
    audit,       \* the publication events of the audit ledger
    pc,          \* thread -> what it does next
    key,         \* thread -> the idempotency key of the intent it is about
    target       \* thread -> the effect it is about

\* What no table keeps; nothing in the system reads it.
VARIABLES
    abandoned,   \* keys whose executing request ended without settling them
    overlooked   \* keys no revocation reached: reserved after it, or pending
                 \* when the request that committed it was lost

durable == <<greenlight, connection, audit>>
rows == <<status, binding, failure, contained, reconciled>>
provider == <<creates, posts>>
request == <<key, target>>
history == <<abandoned, overlooked>>
vars == <<durable, rows, provider, pc, request, history>>

\* A request that holds a reservation, before it creates the post, and after.
BeforeCall == {"granted", "record_container", "poll", "media_publish"}
AfterCall == {"verify", "complete"}

\* _mark_failed with the phase rejected, _mark_unknown, or an exception that
\* execute does not catch.
Verdicts == {"rejected", "lookup_rejected", "outcome_unknown", "unhandled"}

Executing == BeforeCall \cup AfterCall \cup Verdicts

Pcs == Executing \cup
       {"idle", "bind_account", "check_connection", "reserve",
        "audit_succeeded", "audit_reconciled",
        "disconnect_read", "disconnect_revoke", "disconnect_delete",
        "disconnect_audit", "revoke_unused", "revoke_audit"}

NoTarget == [run |-> None, channel |-> None, account |-> None]

Events == {"social.publication_succeeded", "social.publication_reconciled"}
              \X Keys
          \cup {"social.publication_intents_revoked"} \X Runs
          \cup {"social.connection_removed"} \X Channels

Init ==
    /\ greenlight = [r \in Runs |-> "active"]
    /\ connection \in [Channels -> Accounts \cup {None}]
    /\ status = [k \in Keys |-> "none"]
    /\ binding = [k \in Keys |-> None]
    /\ failure = [k \in Keys |-> ""]
    /\ contained = {}
    /\ reconciled = {}
    /\ creates = [e \in Effects |-> 0]
    /\ posts = [e \in Effects |-> 0]
    /\ audit = {}
    /\ pc = [p \in Procs |-> "idle"]
    /\ key = [p \in Procs |-> None]
    /\ target = [p \in Procs |-> NoTarget]
    /\ abandoned = {}
    /\ overlooked = {}

-------------------------------------------------------------------------------
(* The durable store. *)

Exists(k) == status[k] # "none"

\* Slip: a failed intent is free to be retried.
MatchesUnfailed(k, e) ==
    {j \in Keys : Exists(j) /\ status[j] # "failed" /\ (j = k \/ binding[j] = e)}

\* Rows the reservation's SELECT may return: same key or same binding.
Matches(k, e) == {j \in Keys : Exists(j) /\ (j = k \/ binding[j] = e)}

\* The row it does return: the ORDER BY prefers the client's own key.
Found(k, e) == IF Exists(k) THEN k
               ELSE CHOOSE j \in Matches(k, e) : TRUE

\* The WHERE clause of every transition.
Held(k) == status[k] = "pending"

\* A transition to a final status, skipped when the row is not held any more.
Settled(k, outcome, phase) ==
    IF Held(k)
    THEN /\ status' = [status EXCEPT ![k] = outcome]
         /\ failure' = [failure EXCEPT ![k] = phase]
    ELSE UNCHANGED <<status, failure>>

\* Slip: intents that have a container are passed over.
RevokeUnusedUncontained(effects) ==
    status' = [k \in Keys |->
        IF Held(k) /\ binding[k] \in effects /\ k \notin contained
        THEN "revoked" ELSE status[k]]

\* revoke_unused over the pending rows bound to one of the effects.
RevokeUnused(effects) ==
    status' = [k \in Keys |->
        IF Held(k) /\ binding[k] \in effects THEN "revoked" ELSE status[k]]

-------------------------------------------------------------------------------
(* Publishing: the endpoint, then SocialPublicationAuthority.execute. *)

Goto(p, next) ==
    /\ pc' = [pc EXCEPT ![p] = next]
    /\ UNCHANGED request

Start(p, next, k, t) ==
    /\ pc' = [pc EXCEPT ![p] = next]
    /\ key' = [key EXCEPT ![p] = k]
    /\ target' = [target EXCEPT ![p] = t]

Finish(p) == Start(p, "idle", None, NoTarget)

\* prepare_social_publication reads the run: its Greenlight must be active.
BeginPublish(p) ==
    /\ pc[p] = "idle"
    /\ \E k \in Keys, r \in Runs, ch \in Channels :
        /\ greenlight[r] = "active"
        /\ Start(p, "bind_account", k,
                 [run |-> r, channel |-> ch, account |-> None])
    /\ UNCHANGED <<durable, rows, provider, history>>

\* It ends by binding the command to the account connected at this moment.
BindAccount(p) ==
    /\ pc[p] = "bind_account"
    /\ LET t == target[p]
           account == connection[t.channel]
       IN  IF account = None
           THEN Finish(p)
           ELSE Start(p, "check_connection", key[p],
                      [run |-> t.run, channel |-> t.channel,
                       account |-> account])
    /\ UNCHANGED <<durable, rows, provider, history>>

\* execute reads the connection again; a credential may have expired.
CheckConnection(p) ==
    /\ pc[p] = "check_connection"
    /\ \/ /\ connection[target[p].channel] = target[p].account
          /\ Goto(p, "reserve")
       \/ Finish(p)
    /\ UNCHANGED <<durable, rows, provider, history>>

\* Slip: the row bound to the account connected now, not to the command's.
GrantRebound(p) ==
    /\ pc[p] = "reserve"
    /\ Matches(key[p], target[p]) = {}
    /\ status' = [status EXCEPT ![key[p]] = "pending"]
    /\ binding' = [binding EXCEPT ![key[p]] =
            [target[p] EXCEPT !.account = connection[target[p].channel]]]
    /\ Goto(p, "granted")
    /\ overlooked' = IF greenlight[target[p].run] = "active" THEN overlooked
                     ELSE overlooked \cup {key[p]}
    /\ UNCHANGED <<durable, failure, contained, reconciled, provider, abandoned>>

\* One transaction: the first reservation of an effect is executable ...
Grant(p) ==
    /\ pc[p] = "reserve"
    /\ Matches(key[p], target[p]) = {}
    /\ status' = [status EXCEPT ![key[p]] = "pending"]
    /\ binding' = [binding EXCEPT ![key[p]] = target[p]]
    /\ Goto(p, "granted")
    /\ overlooked' = IF greenlight[target[p].run] = "active" THEN overlooked
                     ELSE overlooked \cup {key[p]}
    /\ UNCHANGED <<durable, failure, contained, reconciled, provider, abandoned>>

\* ... any other one replays a success or is refused.
Replay(p) ==
    /\ pc[p] = "reserve"
    /\ Matches(key[p], target[p]) # {}
    /\ LET found == Found(key[p], target[p])
       IN  IF binding[found] = target[p] /\ status[found] = "succeeded"
           THEN Start(p, "audit_succeeded", found, target[p])
           ELSE Finish(p)
    /\ UNCHANGED <<durable, rows, provider, history>>

\* The stored tokens do not decrypt: the intent fails before any request.
CredentialInvalid(p) ==
    /\ pc[p] = "granted"
    /\ Settled(key[p], "failed", "publish")
    /\ Finish(p)
    /\ UNCHANGED <<durable, binding, contained, reconciled, provider, history>>

\* They decrypt, and a secret in them is missing: an exception no caller of
\* execute settles the intent for.
SecretMissing(p) ==
    /\ pc[p] = "granted"
    /\ Goto(p, "unhandled")
    /\ UNCHANGED <<durable, rows, provider, history>>

\* Such an exception leaves the row as it is and answers the client, with a
\* conflict or as an internal error.
Escape(p) ==
    /\ pc[p] = "unhandled"
    /\ abandoned' = abandoned \cup {key[p]}
    /\ Finish(p)
    /\ UNCHANGED <<durable, rows, provider, overlooked>>

\* A 2xx answer goes on; a 4xx is a rejection; a timeout, a 5xx, a redirect or
\* a malformed body leaves the outcome unknown; and some bodies make their
\* reader raise what is not handled: JSON nested too deep, a lone surrogate in
\* the text, a user name outside ASCII, a permalink that is no URL.
Replies == {"ok", "rejected", "ambiguous", "unhandled"}

\* Slips: a lost answer taken for success, and for a rejection.
AfterReplyTrusting(reply, next, rejection) ==
    IF reply = "rejected" THEN rejection ELSE next
AfterReplyFailing(reply, next, rejection) ==
    IF reply = "ok" THEN next ELSE rejection

AfterReply(reply, next, rejection) ==
    CASE reply = "ok"        -> next
      [] reply = "rejected"  -> rejection
      [] reply = "ambiguous" -> "outcome_unknown"
      [] reply = "unhandled" -> "unhandled"

\* A request that creates the post.  A provider that rejects a request has not
\* acted on it; any other answer but a success tells nothing of whether the
\* post landed.
SendPost(p) ==
    /\ \E reply \in Replies, landed \in {0, 1} :
        /\ reply = "ok" => landed = 1
        /\ reply = "rejected" => landed = 0
        /\ creates' = [creates EXCEPT ![target[p]] = @ + 1]
        /\ posts' = [posts EXCEPT ![target[p]] = @ + landed]
        /\ Goto(p, AfterReply(reply, "verify", "rejected"))
    /\ UNCHANGED <<durable, rows, history>>

\* A request that creates nothing a reader of the channel can see.
Ask(p, next, rejection) ==
    /\ \E reply \in Replies : Goto(p, AfterReply(reply, next, rejection))
    /\ UNCHANGED <<durable, rows, provider, history>>

CreatePostX(p) ==
    /\ pc[p] = "granted"
    /\ target[p].channel = "x"
    /\ SendPost(p)

CreateContainer(p) ==
    /\ pc[p] = "granted"
    /\ target[p].channel = "instagram"
    /\ Ask(p, "record_container", "rejected")

\* Slip: a container that could not be stored is published anyway.
RecordContainerLoosely(p) ==
    /\ pc[p] = "record_container"
    /\ contained' = IF Held(key[p]) THEN contained \cup {key[p]} ELSE contained
    /\ Goto(p, "poll")
    /\ UNCHANGED <<durable, status, binding, failure, reconciled, provider, history>>

\* The container ID must be durable, under a reservation still held, before
\* the media is published.  A commit whose answer is lost raises too.
RecordContainer(p) ==
    /\ pc[p] = "record_container"
    /\ \/ /\ Held(key[p])
          /\ contained' = contained \cup {key[p]}
          /\ \E next \in {"poll", "outcome_unknown"} : Goto(p, next)
       \/ /\ Goto(p, "outcome_unknown")
          /\ UNCHANGED contained
    /\ UNCHANGED <<durable, status, binding, failure, reconciled, provider, history>>

\* Slip: a container that was not processed is created again.
PollContainerRetrying(p) ==
    /\ pc[p] = "poll"
    /\ Ask(p, "media_publish", "granted")

\* The polling loop as its outcome: FINISHED, a rejected poll, or no answer
\* that can be used within the allowed attempts.
PollContainer(p) ==
    /\ pc[p] = "poll"
    /\ Ask(p, "media_publish", "rejected")

PublishMedia(p) ==
    /\ pc[p] = "media_publish"
    /\ SendPost(p)

\* The independent lookup of the new post, on either channel.
VerifyPost(p) ==
    /\ pc[p] = "verify"
    /\ Ask(p, "complete", "lookup_rejected")

\* The receipt is stored while the reservation is still held; any error of
\* the store, one after its commit included, is an unknown outcome.
Complete(p) ==
    /\ pc[p] = "complete"
    /\ \/ /\ Held(key[p])
          /\ Settled(key[p], "succeeded", "")
          /\ \E next \in {"audit_succeeded", "outcome_unknown"} : Goto(p, next)
       \/ /\ Goto(p, "outcome_unknown")
          /\ UNCHANGED <<status, failure>>
    /\ UNCHANGED <<durable, binding, contained, reconciled, provider, history>>

\* Slip: the unknown outcome reported to the client and not to the store.
MarkUnknownUnmarked(p) ==
    /\ pc[p] = "outcome_unknown"
    /\ Finish(p)
    /\ UNCHANGED <<durable, rows, provider, history>>

\* _mark_unknown ignores an intent no longer pending.
MarkUnknown(p) ==
    /\ pc[p] = "outcome_unknown"
    /\ Settled(key[p], "unknown", "")
    /\ Finish(p)
    /\ UNCHANGED <<durable, binding, contained, reconciled, provider, history>>

\* So does _mark_failed.  An Instagram rejection with code 190 also makes the
\* endpoint drop the connection.
MarkFailed(p) ==
    /\ pc[p] \in {"rejected", "lookup_rejected"}
    /\ Settled(key[p], "failed",
               IF pc[p] = "rejected" THEN "publish" ELSE "lookup")
    /\ \/ Finish(p)
       \/ /\ target[p].channel = "instagram"
          /\ Start(p, "disconnect_read", None,
                   [NoTarget EXCEPT !.channel = target[p].channel])
    /\ UNCHANGED <<durable, binding, contained, reconciled, provider, history>>

\* record_publication_event: the event ID is a function of its subject, so
\* recording an event twice adds nothing.  A removed connection is reported as
\* social.disconnected or social.reauthorization_required, one event here.
RecordEvent(p) ==
    /\ \/ /\ pc[p] = "audit_succeeded"
          /\ audit' = audit \cup {<<"social.publication_succeeded", key[p]>>}
       \/ /\ pc[p] = "audit_reconciled"
          /\ audit' = audit \cup {<<"social.publication_reconciled", key[p]>>}
       \/ /\ pc[p] = "revoke_audit"
          /\ audit' = audit \cup
                {<<"social.publication_intents_revoked", target[p].run>>}
       \/ /\ pc[p] = "disconnect_audit"
          /\ audit' = audit \cup
                {<<"social.connection_removed", target[p].channel>>}
    /\ Finish(p)
    /\ UNCHANGED <<greenlight, connection, rows, provider, history>>

-------------------------------------------------------------------------------
(* Reconciling, disconnecting, revoking, connecting. *)

\* An operator who found the post at the provider reconciles its intent: the
\* code takes the operator's word for it.  A repeated call with the same
\* evidence succeeds again.
Reconcile(p) ==
    /\ pc[p] = "idle"
    /\ \E k \in Keys :
        /\ Exists(k)
        /\ posts[binding[k]] > 0
        /\ \/ /\ status[k] = "unknown"
              /\ status' = [status EXCEPT ![k] = "succeeded"]
              /\ reconciled' = reconciled \cup {k}
           \/ /\ status[k] = "succeeded"
              /\ k \in reconciled
              /\ UNCHANGED <<status, reconciled>>
        /\ Start(p, "audit_reconciled", k, NoTarget)
    /\ UNCHANGED <<durable, binding, failure, contained, provider, history>>

BeginDisconnect(p) ==
    /\ pc[p] = "idle"
    /\ \E ch \in Channels :
        Start(p, "disconnect_read", None, [NoTarget EXCEPT !.channel = ch])
    /\ UNCHANGED <<durable, rows, provider, history>>

DisconnectRead(p) ==
    /\ pc[p] = "disconnect_read"
    /\ LET account == connection[target[p].channel]
       IN  Start(p, IF account = None THEN "disconnect_delete"
                    ELSE "disconnect_revoke",
                 None, [target[p] EXCEPT !.account = account])
    /\ UNCHANGED <<durable, rows, provider, history>>

DisconnectRevoke(p) ==
    /\ pc[p] = "disconnect_revoke"
    /\ RevokeUnused({e \in Effects : /\ e.channel = target[p].channel
                                     /\ e.account = target[p].account})
    /\ Goto(p, "disconnect_delete")
    /\ UNCHANGED <<durable, binding, failure, contained, reconciled, provider,
                   history>>

DisconnectDelete(p) ==
    /\ pc[p] = "disconnect_delete"
    /\ connection' = [connection EXCEPT ![target[p].channel] = None]
    /\ IF connection[target[p].channel] = None
       THEN Finish(p)
       ELSE Goto(p, "disconnect_audit")
    /\ UNCHANGED <<greenlight, audit, rows, provider, history>>

\* The revocation is committed with its audit event and its replay receipt;
\* the pending intents are revoked by the endpoint afterwards, and only by
\* the call that committed it: a replayed command returns before that.
RevokeGreenlight(p) ==
    /\ pc[p] = "idle"
    /\ \E r \in Runs :
        /\ greenlight[r] = "active"
        /\ greenlight' = [greenlight EXCEPT ![r] = "revoked"]
        /\ Start(p, "revoke_unused", None, [NoTarget EXCEPT !.run = r])
    /\ UNCHANGED <<connection, audit, rows, provider, history>>

RevokePendingOfRun(p) ==
    /\ pc[p] = "revoke_unused"
    /\ RevokeUnused({e \in Effects : e.run = target[p].run})
    /\ IF status' = status THEN Finish(p) ELSE Goto(p, "revoke_audit")
    /\ UNCHANGED <<durable, binding, failure, contained, reconciled, provider,
                   history>>

\* An OAuth callback stores the connection of an account.
Connect ==
    /\ \E ch \in Channels, a \in Accounts :
        connection' = [connection EXCEPT ![ch] = a]
    /\ UNCHANGED <<greenlight, audit, rows, provider, pc, request, history>>

\* The intents a revocation under way has yet to revoke.
Reach(p) == {k \in Keys : Held(k) /\ binding[k].run = target[p].run}

\* The request is lost: its process dies, or an error of the database ends it.
Crash(p) ==
    /\ CanCrash
    /\ pc[p] # "idle"
    /\ Finish(p)
    /\ abandoned' = IF pc[p] \in Executing THEN abandoned \cup {key[p]}
                    ELSE abandoned
    /\ overlooked' = IF pc[p] = "revoke_unused" THEN overlooked \cup Reach(p)
                     ELSE overlooked
    /\ UNCHANGED <<durable, rows, provider>>

\* What a thread does once a request has reached it.
Continue(p) ==
    \/ BindAccount(p) \/ CheckConnection(p) \/ Grant(p) \/ Replay(p)
    \/ CredentialInvalid(p) \/ SecretMissing(p) \/ Escape(p)
    \/ CreatePostX(p) \/ CreateContainer(p) \/ RecordContainer(p) \/ PollContainer(p)
    \/ PublishMedia(p) \/ VerifyPost(p) \/ Complete(p)
    \/ MarkUnknown(p) \/ MarkFailed(p) \/ RecordEvent(p)
    \/ DisconnectRead(p) \/ DisconnectRevoke(p) \/ DisconnectDelete(p)
    \/ RevokePendingOfRun(p)

Next ==
    \/ Connect
    \/ \E p \in Procs :
        \/ BeginPublish(p) \/ Reconcile(p) \/ BeginDisconnect(p)
        \/ RevokeGreenlight(p) \/ Continue(p) \/ Crash(p)

Spec == Init /\ [][Next]_vars

\* Clients need not send anything; a request being served is finished, for
\* every call to the provider or to the database has a time limit.
FairSpec == Spec /\ \A p \in Procs : WF_vars(Continue(p))

-------------------------------------------------------------------------------
(* Properties. *)

\* Every column and every request register holds a value of its type.
TypeOK ==
    /\ greenlight \in [Runs -> {"active", "revoked"}]
    /\ connection \in [Channels -> Accounts \cup {None}]
    /\ status \in [Keys -> {"none", "pending", "succeeded", "failed",
                            "unknown", "revoked"}]
    /\ binding \in [Keys -> Effects \cup {None}]
    /\ failure \in [Keys -> {"", "publish", "lookup"}]
    /\ contained \subseteq Keys
    /\ reconciled \subseteq Keys
    /\ creates \in [Effects -> Nat]
    /\ posts \in [Effects -> Nat]
    /\ audit \subseteq Events
    /\ pc \in [Procs -> Pcs]
    /\ key \in [Procs -> Keys \cup {None}]
    /\ target \in [Procs -> Targets]
    /\ abandoned \subseteq Keys
    /\ overlooked \subseteq Keys

\* Whatever clients, crashes and the provider do, an effect is sent to the
\* provider once: no retry with the same key or another one, and no second
\* thread, publishes it again.
OneProviderCall == \A e \in Effects : creates[e] <= 1 /\ posts[e] <= creates[e]

\* Only the thread whose reservation inserted the row calls the provider for
\* its effect, and the row it will settle is the one bound to that effect.
OneExecutor ==
    \A p \in Procs : pc[p] \in Executing =>
        /\ binding[key[p]] = target[p]
        /\ \A q \in Procs \ {p} : pc[q] \in Executing => target[q] # target[p]

\* A success is never recorded, by the authority or by a reconciliation, for a
\* post that does not exist, and the ledger never reports one that is not
\* recorded.
SuccessIsReal ==
    \A k \in Keys :
        /\ status[k] = "succeeded" => posts[binding[k]] = 1
        /\ <<"social.publication_succeeded", k>> \in audit =>
               status[k] = "succeeded"
        /\ <<"social.publication_reconciled", k>> \in audit =>
               status[k] = "succeeded" /\ k \in reconciled

\* The phase kept in the failure reason tells whether the channel can show the
\* post: a failure before the lookup left nothing there.
FailedBeforeLookup ==
    \A k \in Keys : status[k] = "failed" /\ failure[k] # "lookup" =>
                        posts[binding[k]] = 0

\* Media is published only under a container ID that was stored while the
\* reservation was held: an intent revoked before that publishes nothing.
ContainerBeforePost ==
    \A e \in Effects : e.channel = "instagram" /\ creates[e] > 0 =>
        \E k \in Keys : binding[k] = e /\ k \in contained

\* No row is left pending by anything but a request that was lost, or ended by
\* an exception execute does not catch, while it held the reservation: not by
\* a rejection, a lost answer, a failed save or a concurrent disconnect.
OnlyLostRequestsAbandon ==
    \A k \in Keys : Held(k) =>
        \/ k \in abandoned
        \/ \E p \in Procs : pc[p] \in Executing /\ key[p] = k

\* Under a revoked Greenlight an intent is pending only while the revocation is
\* still to reach it, when it was reserved after the revocation, or when the
\* request that committed the revocation was lost before it revoked.
RevocationsReach ==
    \A k \in Keys : Held(k) =>
        \/ greenlight[binding[k].run] = "active"
        \/ k \in overlooked
        \/ \E p \in Procs : /\ pc[p] = "revoke_unused"
                            /\ target[p].run = binding[k].run

\* A reservation reaches an outcome, unless the request that held it did not
\* end by itself.
ReservationsSettle ==
    \A k \in Keys :
        status[k] = "pending" ~> (status[k] # "pending" \/ k \in abandoned)

\* A revoked Greenlight is left with no pending intent, those reserved after
\* the revocation included, except what both the revocation failed to reach and
\* the request that held it abandoned.
RevocationDrains ==
    \A r \in Runs :
        greenlight[r] = "revoked" ~>
            [](\A k \in Keys : Held(k) /\ binding[k].run = r =>
                   k \in abandoned \cap overlooked)

\* Keys and threads left out, the authority is an EffectOnce: the status of the
\* one row bound to an effect is its outcome, the publish requests its calls.
EffectOutcome ==
    [e \in Effects |-> IF \E k \in Keys : binding[k] = e
                       THEN status[CHOOSE k \in Keys : binding[k] = e]
                       ELSE "none"]

Once == INSTANCE EffectOnce WITH outcome <- EffectOutcome, calls <- creates

ImplementsEffectOnce == Once!Spec

-------------------------------------------------------------------------------
(* What the runbook and the specification of the authority say, and the code *)
(* does not do.                                                              *)

\* docs/runbooks/social-publication-authority.md: failed is a rejection known
\* before success.  A 4xx answer to the lookup comes after the post.
FailedMeansNoPost ==
    \A k \in Keys : status[k] = "failed" => posts[binding[k]] = 0

\* The same runbook: revoked is a pending authority that was invalidated.  The
\* thread that holds it does not look again before it posts.
RevokedMeansUnused ==
    \A k \in Keys : status[k] = "revoked" => posts[binding[k]] = 0

\* The same runbook: unknown is an ambiguous answer after a possible creation,
\* and a malformed lookup.  A row nobody executes is not pending once its post
\* exists, when no request is lost.
PossiblePostsAreSettled ==
    \A k \in Keys : Held(k) /\ posts[binding[k]] > 0 =>
        \E p \in Procs : pc[p] \in Executing /\ key[p] = k

\* specs/020-social-publication-authority: a revocation of the Greenlight
\* invalidates the unused intents.  After it no intent of the run is pending.
RevocationInvalidatesIntents ==
    \A k \in Keys : status[k] = "pending" =>
        \/ greenlight[binding[k].run] = "active"
        \/ \E p \in Procs : /\ pc[p] = "revoke_unused"
                            /\ target[p].run = binding[k].run
================================================================================
