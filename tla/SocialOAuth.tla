----------------------------- MODULE SocialOAuth -----------------------------
(***************************************************************************)
(* Connecting a tenant to X or Instagram.  A browser session starts an     *)
(* authorization and gets the address of the provider; the provider sends  *)
(* the browser back to the callback, which consumes the state that the     *)
(* start has stored, exchanges it for tokens and stores the connection.    *)
(* A browser may send the callback again, late, or from another session.   *)
(*                                                                         *)
(* An authorization is a number, in the order of the starts: the request   *)
(* token of X, the state value of Instagram.  Requests run in threads of   *)
(* one process or of several replicas; a step is a transaction, a          *)
(* statement of one, or a call to the provider, which may fail.            *)
(***************************************************************************)
EXTENDS Naturals, FiniteSets

CONSTANTS
    Sessions,        \* browser sessions
    Tenants,
    TenantOf,        \* session -> its tenant
    Channels,        \* "x", "instagram"
    Requests,        \* threads that serve requests
    Keyrings,        \* [keys, active]: the cipher of a process
    Bootstrapped,    \* sets of <<tenant, channel>> that the environment connects
    None,            \* absence of a value
    Ttl,             \* _STATE_TTL_SECONDS
    MaxClock,        \* bound on the clock
    MaxStarts,       \* bound on the authorizations started
    MaxDisconnects,  \* bound on the deletions of connections
    MaxRestarts      \* bound on the restarts

ASSUME SessionAssumption == TenantOf \in [Sessions -> Tenants]
ASSUME ChannelAssumption == Channels \subseteq {"x", "instagram"}
ASSUME BootstrapAssumption == \A B \in Bootstrapped : B \subseteq Tenants \X Channels
ASSUME BoundAssumption ==
    {Ttl, MaxClock, MaxStarts, MaxDisconnects, MaxRestarts} \subseteq Nat

\* The key rings with which a process starts; with another it does not.
Accepted == {ring \in Keyrings : ring.active \in ring.keys}

\* Rows of social_oauth_states and of social_connections.
StateRows == [session : Sessions, channel : Channels,
              key : {ring.active : ring \in Accepted}, expires : Nat,
              consumed : BOOLEAN]
ConnectionRows == [id : Nat, key : {ring.active : ring \in Accepted}]

ASSUME NoneAssumption == None \notin StateRows /\ None \notin ConnectionRows
ASSUME RequestAssumption == IsFiniteSet(Requests)

VARIABLES
    backend,      \* "sqlite" or "postgresql"
    environment,  \* the connections that the environment holds
    keyring,      \* keys of the running process
    now,
    last,         \* number of the authorization started last
    states,       \* social_oauth_states: authorization -> row, or None
    connections,  \* social_connections: <<tenant, channel>> -> row, or None
    issued,       \* authorizations whose address a browser has got
    pc,           \* thread -> what it does next
    job,          \* thread -> what it works on
    connected,    \* authorizations of the events social.connected
    bootstrapped, \* <<tenant, channel>> of the events social.bootstrapped
    disconnected, \* number of events social.disconnected
    deletions,    \* ghost: number of connections deleted
    stored,       \* ghost: authorizations whose connection was stored
    exchanges,    \* ghost: authorization -> times it was sent to the provider
    superseded,   \* ghost: authorizations older than a start that was answered
    consumers,    \* ghost: authorization -> session whose callback consumed it
    restarts

external == <<backend, environment>>
tables == <<last, states, connections>>
threads == <<pc, job>>
events == <<connected, bootstrapped, disconnected>>
ghosts == <<deletions, stored, exchanges, superseded, consumers>>
vars == <<external, keyring, now, tables, issued, threads, events, ghosts, restarts>>

Authorizations == 1..MaxStarts

Idle == [session |-> None, channel |-> None, id |-> 0, doomed |-> {}, clock |-> 0,
         older |-> {}]

Init ==
    /\ backend \in {"sqlite", "postgresql"}
    /\ environment \in Bootstrapped
    /\ keyring \in Accepted
    /\ now = 0
    /\ last = 0
    /\ states = [i \in Authorizations |-> None]
    /\ connections = [a \in Tenants \X Channels |-> None]
    /\ issued = {}
    /\ pc = [r \in Requests |-> "idle"]
    /\ job = [r \in Requests |-> Idle]
    /\ connected = {}
    /\ bootstrapped = {}
    /\ disconnected = 0
    /\ deletions = 0
    /\ stored = {}
    /\ exchanges = [i \in Authorizations |-> 0]
    /\ superseded = {}
    /\ consumers = [i \in Authorizations |-> None]
    /\ restarts = 0

-------------------------------------------------------------------------------
(* Requests. *)

Goto(r, next) == pc' = [pc EXCEPT ![r] = next]

Finish(r) ==
    /\ Goto(r, "idle")
    /\ job' = [job EXCEPT ![r] = Idle]

Account(r) == <<TenantOf[job[r].session], job[r].channel>>

Row(i) == states[i] # None

\* The rows of a session and a channel that are not consumed.
Pending(s, c) == {i \in Authorizations : /\ Row(i)
                                         /\ states[i].session = s
                                         /\ states[i].channel = c
                                         /\ ~states[i].consumed}

\* Rows that a transaction has deleted and not yet committed are locked.
Locked(i) == \E r \in Requests : i \in job[r].doomed

-------------------------------------------------------------------------------
(* Starting: POST .../oauth/start. *)

\* X is asked for a request token first; Instagram is not asked.
Start(r, s, c) ==
    /\ pc[r] = "idle"
    /\ last < MaxStarts
    /\ job' = [job EXCEPT ![r] =
         [Idle EXCEPT !.session = s, !.channel = c, !.older = Pending(s, c)]]
    /\ Goto(r, IF c = "x" THEN "request_token" ELSE "create")
    /\ UNCHANGED <<external, keyring, now, tables, issued, events, ghosts, restarts>>

RequestToken(r) ==
    /\ pc[r] = "request_token"
    /\ Goto(r, "create")
    /\ UNCHANGED <<external, keyring, now, tables, issued, job, events, ghosts, restarts>>

\* encrypt: the key under which a payload is stored.
EncryptedUnder(ring) == ring.active

NewState(r) == [session |-> job[r].session, channel |-> job[r].channel,
                   key |-> EncryptedUnder(keyring), expires |-> now + Ttl, consumed |-> FALSE]

\* Slip: what the session has started before is left.
OlderKept(r) == {}

\* What the session has started and not completed goes.
Older(r) == Pending(job[r].session, job[r].channel)

CreateSqlite(r) ==
    /\ backend = "sqlite"
    /\ pc[r] = "create"
    /\ last < MaxStarts
    /\ last' = last + 1
    /\ states' = [i \in Authorizations |->
         IF i = last' THEN NewState(r)
         ELSE IF i \in Older(r) THEN None
         ELSE states[i]]
    /\ job' = [job EXCEPT ![r].id = last', ![r].older = {}]
    /\ superseded' = superseded \cup job[r].older
    /\ Goto(r, "tell_start")
    /\ UNCHANGED <<external, keyring, now, connections, issued, events, deletions, stored,
                   exchanges, consumers, restarts>>

DeleteOlder(r) ==
    /\ backend = "postgresql"
    /\ pc[r] = "create"
    /\ \A i \in Older(r) : ~Locked(i)
    /\ last < MaxStarts
    /\ last' = last + 1
    /\ job' = [job EXCEPT ![r].id = last', ![r].doomed = Older(r)]
    /\ Goto(r, "insert")
    /\ UNCHANGED <<external, keyring, now, states, connections, issued, events, ghosts, restarts>>

InsertState(r) ==
    /\ pc[r] = "insert"
    /\ states' = [j \in Authorizations |->
         IF j = job[r].id THEN NewState(r)
         ELSE IF j \in job[r].doomed THEN None
         ELSE states[j]]
    /\ superseded' = superseded \cup job[r].older
    /\ job' = [job EXCEPT ![r].doomed = {}, ![r].older = {}]
    /\ Goto(r, "tell_start")
    /\ UNCHANGED <<external, keyring, now, last, connections, issued, events, deletions, stored,
                   exchanges, consumers, restarts>>

\* social.oauth_started is recorded and the address sent to the browser.
AnswerStart(r) ==
    /\ pc[r] = "tell_start"
    /\ issued' = issued \cup {job[r].id}
    /\ Finish(r)
    /\ UNCHANGED <<external, keyring, now, tables, events, ghosts, restarts>>

-------------------------------------------------------------------------------
(* The callback. *)

Callback(r, s, i) ==
    /\ pc[r] = "idle"
    /\ i \in issued
    /\ \E c \in Channels :
         job' = [job EXCEPT ![r] =
           [Idle EXCEPT !.session = s, !.channel = c, !.id = i, !.clock = now]]
    /\ Goto(r, "consume")
    /\ UNCHANGED <<external, keyring, now, tables, issued, events, ghosts, restarts>>

\* Slip: the session is not compared.
MatchesAnySession(r) ==
    LET row == states[job[r].id] IN
    /\ row # None
    /\ row.channel = job[r].channel
    /\ ~row.consumed
    /\ row.expires > job[r].clock

\* Slip: a consumed row matches again.
MatchesConsumed(r) ==
    LET row == states[job[r].id] IN
    /\ row # None
    /\ row.session = job[r].session
    /\ row.channel = job[r].channel
    /\ row.expires > job[r].clock

\* The clock was read when the request came, not when it got the row.
Matches(r) ==
    LET row == states[job[r].id] IN
    /\ row # None
    /\ row.session = job[r].session
    /\ row.channel = job[r].channel
    /\ ~row.consumed
    /\ row.expires > job[r].clock

Consume(r) ==
    /\ pc[r] = "consume"
    /\ ~Locked(job[r].id)
    /\ IF Matches(r)
       THEN /\ states' = [states EXCEPT ![job[r].id].consumed = TRUE]
            /\ consumers' = [consumers EXCEPT ![job[r].id] = job[r].session]
            /\ Goto(r, "decrypt")
            /\ job' = [job EXCEPT ![r].clock = 0]
       ELSE Finish(r) /\ UNCHANGED <<states, consumers>>
    /\ UNCHANGED <<external, keyring, now, last, connections, issued, events, deletions, stored,
                   exchanges, superseded, restarts>>

\* The key of the row may be gone since the start: the callback fails.
Decrypt(r) ==
    /\ pc[r] = "decrypt"
    /\ IF states[job[r].id].key \in keyring.keys
       THEN Goto(r, "exchange") /\ UNCHANGED job
       ELSE Finish(r)
    /\ UNCHANGED <<external, keyring, now, tables, issued, events, ghosts, restarts>>

\* The provider gets the request; the answer may be lost.
Exchange(r) ==
    /\ pc[r] = "exchange"
    /\ exchanges' = [exchanges EXCEPT ![job[r].id] = @ + 1]
    /\ Goto(r, IF job[r].channel = "x" THEN "upsert" ELSE "extend")
    /\ UNCHANGED <<external, keyring, now, tables, issued, job, events, deletions, stored,
                   superseded, consumers, restarts>>

\* Instagram's token is short-lived: it is exchanged for a long-lived one, or
\* kept when the provider does not support it; then the account is read.
Extend(r) ==
    /\ pc[r] = "extend"
    /\ Goto(r, "upsert")
    /\ UNCHANGED <<external, keyring, now, tables, issued, job, events, ghosts, restarts>>

NewConnection(i, ring) == [id |-> i, key |-> EncryptedUnder(ring)]

Upsert(r) ==
    /\ pc[r] = "upsert"
    /\ connections' = [connections EXCEPT ![Account(r)] = NewConnection(job[r].id, keyring)]
    /\ stored' = stored \cup {job[r].id}
    /\ Goto(r, "tell_connected")
    /\ UNCHANGED <<external, keyring, now, last, states, issued, job, events, deletions,
                   exchanges, superseded, consumers, restarts>>

AnswerCallback(r) ==
    /\ pc[r] = "tell_connected"
    /\ connected' = connected \cup {job[r].id}
    /\ Finish(r)
    /\ UNCHANGED <<external, keyring, now, tables, issued, bootstrapped, disconnected,
                   ghosts, restarts>>

\* The provider refuses, cannot be reached, or answers what is not valid.
ProviderFails(r) ==
    /\ pc[r] \in {"request_token", "exchange", "extend"}
    /\ exchanges' = IF pc[r] = "exchange"
                    THEN [exchanges EXCEPT ![job[r].id] = @ + 1] ELSE exchanges
    /\ Finish(r)
    /\ UNCHANGED <<external, keyring, now, tables, issued, events, deletions, stored,
                   superseded, consumers, restarts>>

-------------------------------------------------------------------------------
(* Disconnecting: DELETE .../connection. *)

\* The connection is read for the intents of its account, which are revoked.
Disconnect(r, s, c) ==
    /\ pc[r] = "idle"
    /\ deletions < MaxDisconnects
    /\ job' = [job EXCEPT ![r] = [Idle EXCEPT !.session = s, !.channel = c]]
    /\ Goto(r, "delete")
    /\ UNCHANGED <<external, keyring, now, tables, issued, events, ghosts, restarts>>

\* Slip: the event is recorded although there is nothing to delete.
TellsAnyway(r) == TRUE

\* disconnected: whether this request has deleted the row.
Tells(r) == connections[Account(r)] # None

Delete(r) ==
    /\ pc[r] = "delete"
    /\ connections' = [connections EXCEPT ![Account(r)] = None]
    /\ deletions' = deletions + (IF connections[Account(r)] # None THEN 1 ELSE 0)
    /\ IF Tells(r) THEN Goto(r, "tell_disconnected") /\ UNCHANGED job ELSE Finish(r)
    /\ UNCHANGED <<external, keyring, now, last, states, issued, events, stored, exchanges,
                   superseded, consumers, restarts>>

AnswerDisconnect(r) ==
    /\ pc[r] = "tell_disconnected"
    /\ disconnected' = disconnected + 1
    /\ Finish(r)
    /\ UNCHANGED <<external, keyring, now, tables, issued, connected, bootstrapped, ghosts,
                   restarts>>

-------------------------------------------------------------------------------
(* The process. *)

\* The connections that the environment holds are stored again.
Bootstrap(ring) ==
    connections' = [a \in Tenants \X Channels |->
        IF a \in environment THEN NewConnection(0, ring) ELSE connections[a]]

\* It dies, and starts with other keys; a bootstrapped connection is told once.
Restart ==
    /\ restarts < MaxRestarts
    /\ restarts' = restarts + 1
    /\ keyring' \in Accepted
    /\ pc' = [r \in Requests |-> "idle"]
    /\ job' = [r \in Requests |-> Idle]
    /\ Bootstrap(keyring')
    /\ bootstrapped' = bootstrapped \cup environment
    /\ UNCHANGED <<external, now, last, states, issued, connected, disconnected, ghosts>>

Tick ==
    /\ now < MaxClock
    /\ now' = now + 1
    /\ UNCHANGED <<external, keyring, tables, issued, threads, events, ghosts, restarts>>

Next ==
    \/ \E r \in Requests :
         \/ \E s \in Sessions : \E c \in Channels : Start(r, s, c) \/ Disconnect(r, s, c)
         \/ \E s \in Sessions : \E i \in Authorizations : Callback(r, s, i)
         \/ RequestToken(r)
         \/ CreateSqlite(r)
         \/ DeleteOlder(r)
         \/ InsertState(r)
         \/ AnswerStart(r)
         \/ Consume(r)
         \/ Decrypt(r)
         \/ Exchange(r)
         \/ Extend(r)
         \/ Upsert(r)
         \/ AnswerCallback(r)
         \/ ProviderFails(r)
         \/ Delete(r)
         \/ AnswerDisconnect(r)
    \/ Restart
    \/ Tick

Spec == Init /\ [][Next]_vars

-------------------------------------------------------------------------------
(* Properties. *)

\* An authorization is sent to the provider at most once, however often, late
\* or concurrently a browser repeats the callback, and whatever restarts.
ExchangesHappenOnce == \A i \in Authorizations : exchanges[i] <= 1

\* A callback connects only what the session that sends it has started: the
\* address of one session, opened in another, does not connect an account to
\* the tenant of either.
ConnectionsAreOfTheirSession ==
    \A a \in Tenants \X Channels :
        LET row == connections[a] IN
        (row # None /\ row.id > 0) =>
            /\ states[row.id] # None
            /\ states[row.id].session = consumers[row.id]
            /\ a = <<TenantOf[states[row.id].session], states[row.id].channel>>

\* When a start was answered, what its session had started before it began is not
\* consumed any more: a callback under way, which has consumed its authorization
\* already, may still complete.
SupersededAreRefused ==
    [][\A i \in Authorizations :
           (consumers[i] = None /\ consumers'[i] # None) => i \notin superseded]_vars

\* The events tell what has happened: a connection is stored before it is
\* told, and of several disconnects only one that has deleted tells it.
EventsAreTrue ==
    /\ connected \subseteq stored
    /\ disconnected <= deletions
=============================================================================
