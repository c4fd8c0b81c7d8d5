---------------------------- MODULE AccessControl ----------------------------
(***************************************************************************)
(* How a request is let in: the limit of failed authentications, the API   *)
(* key or the browser session, the quota of authenticated requests, the    *)
(* CSRF token of a mutation and the permission of the role.                *)
(*                                                                         *)
(* The clients are the tabs of one browser; each has one request at a time *)
(* and keeps the CSRF token it was last given, and all share the session   *)
(* cookie.  Every method of the store is one transaction, made under the   *)
(* service's lock, and so one step; between the transactions of a request  *)
(* those of the others take place.  The clock counts ticks: a transaction  *)
(* ends in the tick in which it read the clock.                            *)
(***************************************************************************)
EXTENDS Naturals, FiniteSets

CONSTANTS
    Clients,          \* tabs of the browser
    Keys,             \* API keys that are presented, valid or not
    Sessions,         \* identifiers of browser sessions
    Configurations,   \* identity configurations: key -> role, "none" if absent
    Workloads,        \* sets of requests the clients may send: kind and API key
    None,             \* absence of a value
    Window,           \* length of the windows of the limits
    Ttl,              \* life of a session
    CredentialLimit,  \* failures per credential
    SourceLimit,      \* failures per source
    PrincipalLimit,   \* requests per principal
    TenantLimit,      \* requests per tenant
    MaxClock,         \* bound on the clock
    MaxTokens,        \* bound on the CSRF tokens issued
    MaxRestarts       \* bound on the restarts of the service

Kinds == {"login", "bearer", "resume", "logout", "command"}

Roles == {"none", "viewer", "admin"}

\* What an authenticator is built from: an API key has one identity at most.
Identities == [Keys -> Roles]

ASSUME ConfigurationAssumption == Configurations \subseteq Identities
ASSUME WorkloadAssumption == Workloads \subseteq SUBSET (Kinds \X Keys)
ASSUME NoneAssumption == None \notin Sessions \cup Clients
ASSUME WindowAssumption == Window \in Nat \ {0} /\ Ttl \in Nat \ {0}
ASSUME LimitAssumption ==
    /\ {CredentialLimit, SourceLimit, PrincipalLimit, TenantLimit} \subseteq Nat \ {0}
    /\ CredentialLimit <= SourceLimit /\ PrincipalLimit <= TenantLimit
ASSUME BoundAssumption == {MaxClock, MaxTokens, MaxRestarts} \subseteq Nat

VARIABLES
    backend,   \* the store deployed: "sqlite" or "postgresql"
    entries,   \* the identity configuration loaded: key -> role
    workload,  \* the requests the clients send
    clock,     \* the time
    failures,  \* failure bucket -> tick -> failures stored under that tick
    quota,     \* request bucket -> start of its window and count, or NoWindow
    sessions,  \* session -> its row
    issued,    \* CSRF tokens issued so far: the last token
    audit,     \* the session and denial events of the audit ledger
    cookie,    \* the session whose token the browser sends, or None
    token,     \* client -> the CSRF token it holds, 0 when none
    pc,        \* client -> what its request does next
    request,   \* client -> its request
    restarts,  \* restarts so far
    recorded,  \* ghost: failure bucket -> tick -> failures recorded at it
    admitted,  \* ghost: request bucket -> tick -> requests admitted at it
    ended,     \* ghost: clients whose request came with an ended session
    holder     \* ghost: session -> client given its latest token, or None

limits == <<failures, recorded, quota, admitted>>
browser == <<cookie, token>>
deployed == <<backend, workload>>
vars == <<deployed, entries, clock, limits, sessions, issued, audit, browser, pc,
          request, restarts, ended, holder>>

Ticks == 0..MaxClock

\* How many a history, which says how many at each tick, has at the ticks T.
Total(h, T) == Cardinality(UNION {{t} \X (1..h[t]) : t \in T})

FailureBuckets == Keys \cup {"source"}
RequestBuckets == Keys \cup {"tenant"}

NoWindow == [start |-> 0, count |-> 0]

Absent == [status |-> "none", key |-> None, csrf |-> 0, expires |-> 0]

NoRequest == [kind |-> "none", key |-> None, session |-> None, csrf |-> 0]

Init ==
    /\ backend \in {"sqlite", "postgresql"}
    /\ entries \in Configurations
    /\ workload \in Workloads
    /\ clock = 0
    /\ failures = [b \in FailureBuckets |-> [t \in Ticks |-> 0]]
    /\ quota = [b \in RequestBuckets |-> NoWindow]
    /\ sessions = [s \in Sessions |-> Absent]
    /\ issued = 0
    /\ audit = {}
    /\ cookie = None
    /\ token = [c \in Clients |-> 0]
    /\ pc = [c \in Clients |-> "idle"]
    /\ request = [c \in Clients |-> NoRequest]
    /\ restarts = 0
    /\ recorded = failures
    /\ admitted = [b \in RequestBuckets |-> [t \in Ticks |-> 0]]
    /\ ended = {}
    /\ holder = [s \in Sessions |-> None]

-------------------------------------------------------------------------------
(* Requests. *)

Goto(c, next) == pc' = [pc EXCEPT ![c] = next]

\* The request is answered, or refused.
Finish(c) ==
    /\ Goto(c, "idle")
    /\ request' = [request EXCEPT ![c] = NoRequest]
    /\ ended' = ended \ {c}

\* What a step of a request leaves alone when it only moves on.
Proceed(c, next) ==
    /\ Goto(c, next)
    /\ UNCHANGED <<request, ended>>

Active(s) == sessions[s].status = "active" /\ sessions[s].expires > clock

\* A client sends its request: with an API key, or with the cookie.
Begin(c, kind, key) ==
    /\ pc[c] = "idle"
    /\ <<kind, key>> \in workload
    /\ kind \in {"login", "bearer"} \/ cookie # None
    /\ request' = [request EXCEPT ![c] =
         IF kind \in {"login", "bearer"}
         THEN [NoRequest EXCEPT !.kind = kind, !.key = key]
         ELSE [kind |-> kind, key |-> sessions[cookie].key,
               session |-> cookie, csrf |-> token[c]]]
    /\ IF kind \in {"login", "bearer"}
       THEN Goto(c, "enforce") /\ UNCHANGED ended
       ELSE /\ Goto(c, "session")
            /\ ended' = IF Active(cookie) /\ entries[sessions[cookie].key] # "none"
                        THEN ended
                        ELSE ended \cup {c}
    /\ UNCHANGED <<deployed, entries, clock, limits, sessions, issued, audit, browser,
                   restarts, holder>>

-------------------------------------------------------------------------------
(* The limit of failed authentications. *)

FailureLimit(b) == IF b = "source" THEN SourceLimit ELSE CredentialLimit

FailureBucketsOf(c) == {request[c].key, "source"}

\* SQLite keeps one row per failure and counts those not older than the
\* window; PostgreSQL keeps the start of a window, whose failures it counts
\* until the window has passed.
Counts(t) ==
    IF backend = "sqlite" THEN t + Window >= clock ELSE t + Window > clock

FailureCount(b) == Total(failures[b], {t \in Ticks : Counts(t)})

Limited(c) == \E b \in FailureBucketsOf(c) : FailureCount(b) >= FailureLimit(b)

\* The rows that are deleted on the way.
Purge(B) == [b \in FailureBuckets |-> [t \in Ticks |->
               IF b \in B /\ ~Counts(t) THEN 0 ELSE failures[b][t]]]

\* SQLite deletes what is old in every bucket, PostgreSQL in those it looks at.
PurgedBy(c) == IF backend = "sqlite" THEN FailureBuckets ELSE FailureBucketsOf(c)

\* Before the credentials are looked at.  A refusal rolls the deletions back.
Enforce(c) ==
    /\ pc[c] = "enforce"
    /\ IF Limited(c)
       THEN Finish(c) /\ UNCHANGED failures
       ELSE /\ failures' = Purge(PurgedBy(c))
            /\ Proceed(c, IF entries[request[c].key] = "none" THEN "record" ELSE "quota")
    /\ UNCHANGED <<deployed, entries, clock, recorded, quota, admitted, sessions, issued,
                   audit, browser, restarts, holder>>

\* The tick under which a failure of a bucket is stored.
StoredUnder(b) ==
    IF backend = "postgresql" /\ \E t \in Ticks : Counts(t) /\ failures[b][t] > 0
    THEN CHOOSE t \in Ticks : Counts(t) /\ failures[b][t] > 0
    ELSE clock

Count(h, B) == [b \in DOMAIN h |->
                  IF b \in B THEN [h[b] EXCEPT ![clock] = @ + 1] ELSE h[b]]

\* Slip: the limit is not checked again when the failure is recorded.
RecordUnchecked(c) ==
    /\ pc[c] = "record"
    /\ LET kept == Purge(PurgedBy(c)) IN
       failures' = [b \in FailureBuckets |->
         IF b \in FailureBucketsOf(c)
         THEN [kept[b] EXCEPT ![StoredUnder(b)] = @ + 1]
         ELSE kept[b]]
    /\ recorded' = Count(recorded, FailureBucketsOf(c))
    /\ Finish(c)
    /\ UNCHANGED <<deployed, entries, clock, quota, admitted, sessions, issued, audit,
                   browser, restarts, holder>>

\* The credentials are wrong: both buckets count the failure, or neither when
\* other failures have exhausted one of them since.
Record(c) ==
    /\ pc[c] = "record"
    /\ IF Limited(c)
       THEN UNCHANGED <<failures, recorded>>
       ELSE LET kept == Purge(PurgedBy(c)) IN
            /\ failures' = [b \in FailureBuckets |->
                 IF b \in FailureBucketsOf(c)
                 THEN [kept[b] EXCEPT ![StoredUnder(b)] = @ + 1]
                 ELSE kept[b]]
            /\ recorded' = Count(recorded, FailureBucketsOf(c))
    /\ Finish(c)
    /\ UNCHANGED <<deployed, entries, clock, quota, admitted, sessions, issued, audit,
                   browser, restarts, holder>>

-------------------------------------------------------------------------------
(* The quota of authenticated requests. *)

RequestLimit(b) == IF b = "tenant" THEN TenantLimit ELSE PrincipalLimit

RequestBucketsOf(c) == {request[c].key, "tenant"}

\* A window that has ended, at its boundary already, starts anew.
Over(b) == quota[b].count = 0 \/ quota[b].start + Window <= clock

Exhausted(b) == ~Over(b) /\ quota[b].count >= RequestLimit(b)

\* What the requests ask for needs the permissions of an administrator.
Permitted(c) == entries[request[c].key] = "admin"

\* _authorize: the handler is called, and its request has been let in.
Authorize(c) == IF Permitted(c) THEN Finish(c) ELSE Proceed(c, "deny")

\* What follows the quota, by the kind of the request.
AfterQuota(c) ==
    CASE request[c].kind = "login" -> Proceed(c, "create")
      [] request[c].kind = "resume" -> Proceed(c, "rotate")
      [] request[c].kind \in {"logout", "command"} -> Proceed(c, "csrf")
      [] OTHER -> Authorize(c)

\* The row of a bucket after one more request.
Taken(b) == IF Over(b)
            THEN [start |-> clock, count |-> 1]
            ELSE [quota[b] EXCEPT !.count = @ + 1]

\* The rows older than the window are deleted.
Kept(b) == IF quota[b].start + Window < clock THEN NoWindow ELSE quota[b]

\* Slip: the buckets are written one by one, and one that can count does.
ConsumeSeparately(c) ==
    /\ pc[c] = "quota"
    /\ quota' = [b \in RequestBuckets |->
         IF b \in RequestBucketsOf(c) /\ ~Exhausted(b) THEN Taken(b) ELSE Kept(b)]
    /\ IF \E b \in RequestBucketsOf(c) : Exhausted(b)
       THEN Finish(c) /\ UNCHANGED admitted
       ELSE /\ admitted' = Count(admitted, RequestBucketsOf(c))
            /\ AfterQuota(c)
    /\ UNCHANGED <<deployed, entries, clock, failures, recorded, sessions, issued, audit,
                   browser, restarts, holder>>

\* All buckets have room and count the request, or it is refused and none does.
Consume(c) ==
    /\ pc[c] = "quota"
    /\ IF \E b \in RequestBucketsOf(c) : Exhausted(b)
       THEN Finish(c) /\ UNCHANGED <<quota, admitted>>
       ELSE /\ quota' = [b \in RequestBuckets |->
                 IF b \in RequestBucketsOf(c) THEN Taken(b) ELSE Kept(b)]
            /\ admitted' = Count(admitted, RequestBucketsOf(c))
            /\ AfterQuota(c)
    /\ UNCHANGED <<deployed, entries, clock, failures, recorded, sessions, issued, audit,
                   browser, restarts, holder>>

-------------------------------------------------------------------------------
(* Browser sessions. *)

\* A new token is issued; the answer brings it to the client.
Issue(c, s) ==
    /\ issued < MaxTokens
    /\ issued' = issued + 1
    /\ holder' = [holder EXCEPT ![s] = c]
    /\ request' = [request EXCEPT ![c].session = s, ![c].csrf = issued']
    /\ Goto(c, "answer")
    /\ UNCHANGED ended

\* The user name of a login may not be the subject of its key: no failure is
\* recorded.
RefuseUsername(c) ==
    /\ pc[c] = "create"
    /\ Finish(c)
    /\ UNCHANGED <<deployed, entries, clock, limits, sessions, issued, audit, browser,
                   restarts, holder>>

Create(c) ==
    /\ pc[c] = "create"
    /\ \E s \in Sessions :
         /\ sessions[s].status = "none"
         /\ Issue(c, s)
         /\ sessions' = [sessions EXCEPT ![s] =
              [status |-> "active", key |-> request[c].key, csrf |-> issued',
               expires |-> clock + Ttl]]
         /\ audit' = audit \cup {<<"session.created", s>>}
    /\ UNCHANGED <<deployed, entries, clock, limits, browser, restarts>>

\* The session is active and its key is in the configuration, from which the
\* role is taken.
Authenticate(c) ==
    /\ pc[c] = "session"
    /\ IF Active(request[c].session) /\ entries[request[c].key] # "none"
       THEN Proceed(c, "quota")
       ELSE Finish(c)
    /\ UNCHANGED <<deployed, entries, clock, limits, sessions, issued, audit, browser,
                   restarts, holder>>

\* Slip: the token that is answered is not the one that is stored.
RotateUnsaved(c) ==
    /\ pc[c] = "rotate"
    /\ IF Active(request[c].session)
       THEN Issue(c, request[c].session)
       ELSE Finish(c) /\ UNCHANGED <<issued, holder>>
    /\ UNCHANGED <<deployed, entries, clock, limits, sessions, audit, browser, restarts>>

\* The end of a resume: the session has a new token, and the old one is void.
Rotate(c) ==
    /\ pc[c] = "rotate"
    /\ IF Active(request[c].session)
       THEN /\ Issue(c, request[c].session)
            /\ sessions' = [sessions EXCEPT ![request[c].session].csrf = issued']
       ELSE Finish(c) /\ UNCHANGED <<issued, sessions, holder>>
    /\ UNCHANGED <<deployed, entries, clock, limits, audit, browser, restarts>>

\* The answer of a login or a resume: the cookie, which only a login sets, and
\* the token.
Receive(c) ==
    /\ pc[c] = "answer"
    /\ cookie' = IF request[c].kind = "login" THEN request[c].session ELSE cookie
    /\ token' = [token EXCEPT ![c] = request[c].csrf]
    /\ Finish(c)
    /\ UNCHANGED <<deployed, entries, clock, limits, sessions, issued, audit, restarts,
                   holder>>

\* The session is still active and the token is its latest.
Trusted(c) ==
    /\ Active(request[c].session)
    /\ request[c].csrf = sessions[request[c].session].csrf

\* A mutation of a session.
Verify(c) ==
    /\ pc[c] = "csrf"
    /\ IF ~Trusted(c) THEN Proceed(c, "deny")
       ELSE IF request[c].kind = "logout" THEN Proceed(c, "revoke")
       ELSE Authorize(c)
    /\ UNCHANGED <<deployed, entries, clock, limits, sessions, issued, audit, browser,
                   restarts, holder>>

\* The row is revoked, with its event.
RevokeSession(s) ==
    /\ sessions' = [sessions EXCEPT ![s].status = "revoked"]
    /\ audit' = audit \cup {<<"session.revoked", s>>}

\* A logout; of two at a time, the second finds no active session.
Revoke(c) ==
    /\ pc[c] = "revoke"
    /\ IF sessions[request[c].session].status = "active"
       THEN RevokeSession(request[c].session) /\ cookie' = None
       ELSE UNCHANGED <<sessions, audit, cookie>>
    /\ Finish(c)
    /\ UNCHANGED <<deployed, entries, clock, limits, issued, token, restarts, holder>>

-------------------------------------------------------------------------------
(* Denials, and what happens around the requests. *)

\* The denial is in the ledger before it is answered.
Deny(c) ==
    /\ pc[c] = "deny"
    /\ audit' = audit \cup {<<"denied", request[c].key>>}
    /\ Finish(c)
    /\ UNCHANGED <<deployed, entries, clock, limits, sessions, issued, browser, restarts,
                   holder>>

Tick ==
    /\ clock < MaxClock
    /\ clock' = clock + 1
    /\ UNCHANGED <<deployed, entries, limits, sessions, issued, audit, browser, pc,
                   request, restarts, ended, holder>>

\* The service is stopped and started, perhaps with other identities.
Restart ==
    /\ restarts < MaxRestarts
    /\ restarts' = restarts + 1
    /\ entries' \in Configurations
    /\ pc' = [c \in Clients |-> "idle"]
    /\ request' = [c \in Clients |-> NoRequest]
    /\ ended' = {}
    /\ holder' = [s \in Sessions |->
         IF holder[s] # None /\ pc[holder[s]] = "answer" THEN None ELSE holder[s]]
    /\ UNCHANGED <<deployed, clock, limits, sessions, issued, audit, browser>>

Step(c) ==
    \/ \E kind \in Kinds, key \in Keys : Begin(c, kind, key)
    \/ Enforce(c)
    \/ Record(c)
    \/ Consume(c)
    \/ RefuseUsername(c)
    \/ Create(c)
    \/ Authenticate(c)
    \/ Rotate(c)
    \/ Receive(c)
    \/ Verify(c)
    \/ Revoke(c)
    \/ Deny(c)

Next == (\E c \in Clients : Step(c)) \/ Tick \/ Restart

Spec == Init /\ [][Next]_vars

-------------------------------------------------------------------------------
(* Properties. *)

\* How many in the last ticks, this one included: an interval is looked at when
\* it ends.
Recent(h, ticks) ==
    Total(h, {t \in Ticks : t <= clock /\ clock < t + ticks})

\* The requests counted by a window are those that were admitted since it
\* began: a request refused by one bucket is counted by none, and no admitted
\* request is forgotten while its window lasts.  So a principal or a tenant is
\* admitted at most 2 * limit - 1 times in any interval as long as the window,
\* however the windows lie: fixed windows promise no more, and no less.
QuotaIsKept ==
    \A b \in RequestBuckets :
        /\ ~Over(b) => quota[b].count = Recent(admitted[b], clock + 1 - quota[b].start)
        /\ Recent(admitted[b], Window) <= 2 * RequestLimit(b) - 1

\* However many requests pass the check together, the failures a bucket
\* records stay within its limit: in every window with SQLite, which slides
\* and includes both its ends; up to a second window's worth with PostgreSQL.
FailuresAreLimited ==
    \A b \in FailureBuckets :
        IF backend = "sqlite"
        THEN Recent(recorded[b], Window + 1) <= FailureLimit(b)
        ELSE Recent(recorded[b], Window) <= 2 * FailureLimit(b) - 1

\* A request that comes with a session that was revoked, has expired or whose
\* key has left the configuration gets no further than authenticate_session
\* and resolve_active_session: whatever other requests do, it consumes no
\* quota, rotates no token and reaches no handler.
EndedSessionsAreRefused == \A c \in ended : pc[c] \in {"session"}

\* Only another tab's resume or login voids the token of a tab: the one that
\* was last given a token for the browser's session, and has the answer, holds
\* the token that verify_session_csrf will accept.
LatestTabIsTrusted ==
    \A s \in Sessions \ {None} :
        (cookie = s /\ holder[s] # None /\ Active(s) /\ pc[holder[s]] # "answer") =>
            token[holder[s]] = sessions[s].csrf
=============================================================================
