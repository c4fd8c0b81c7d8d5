-------------------------- MODULE AccessControlProofs --------------------------
(***************************************************************************)
(* Proofs about AccessControl, for every number of tabs, keys, sessions,   *)
(* tokens and restarts, and whatever the limits are.                       *)
(*                                                                         *)
(* IInv is the inductive invariant of the sessions: what the request of a  *)
(* tab has come to know by its place (Fits), that a session which has      *)
(* ended for a request stays so (EndedInv), that the session of a login    *)
(* under way is nobody else's yet (LoginInv), and where the latest token   *)
(* of the browser's session is (LatestInv).                                *)
(*                                                                         *)
(* LimitInv is that of the limits: each bucket of requests is a window     *)
(* that has counted all since it began, or is closed (Metered), and so is  *)
(* each bucket of failures of PostgreSQL (Windowed), while those of SQLite *)
(* hold what was recorded (Slides). Totals are cardinalities, so the       *)
(* lemmas about them follow from those about finite sets, without          *)
(* induction.                                                              *)
(***************************************************************************)
EXTENDS AccessControl, FiniteSetTheorems, TLAPS

Pcs == {"idle", "enforce", "record", "quota", "create", "session", "rotate",
        "answer", "csrf", "revoke", "deny"}

WithSession == {"resume", "logout", "command"}

Rows == [status : {"none", "active", "revoked"}, key : Keys \cup {None},
         csrf : Nat, expires : Nat]

Requests == [kind : Kinds \cup {"none"}, key : Keys \cup {None},
             session : Sessions \cup {None}, csrf : Nat]

Types ==
    /\ clock \in Nat
    /\ issued \in Nat
    /\ sessions \in [Sessions -> Rows]
    /\ cookie \in Sessions \cup {None}
    /\ token \in [Clients -> Nat]
    /\ pc \in [Clients -> Pcs]
    /\ request \in [Clients -> Requests]
    /\ ended \subseteq Clients
    /\ holder \in [Sessions -> Clients \cup {None}]
    /\ cookie # None => sessions[cookie].status # "none"

\* What the place n of a tab says of its request r.
Fits(n, r) ==
    /\ n \in {"session", "rotate", "csrf", "revoke"} => r.kind \in WithSession
    /\ n = "create" => r.kind = "login"
    /\ n = "rotate" => r.kind = "resume"
    /\ n = "answer" => r.kind \in {"login", "resume"} /\ r.session # None
    /\ r.kind \in WithSession => /\ r.session # None
                                 /\ r.key = sessions[r.session].key
    /\ r.kind \notin WithSession /\ n # "answer" => r.session = None
    /\ r.session # None => sessions[r.session].status # "none"

ClientInv == \A c \in Clients : Fits(pc[c], request[c])

\* The session s does not authenticate a request.
Dead(s) == ~(Active(s) /\ entries[sessions[s].key] # "none")

EndedInv == \A c \in ended : pc[c] = "session" /\ Dead(request[c].session)

\* The answer to a login brings the token of a session that no other tab knows.
LoginHolds(c, n, r) ==
    n = "answer" /\ r.kind = "login" =>
        /\ cookie # r.session
        /\ holder[r.session] = c
        /\ r.csrf = sessions[r.session].csrf

Alone(c, n, r, d) ==
    n = "answer" /\ r.kind = "login" /\ d # c => request[d].session # r.session

LoginInv ==
    \A c \in Clients : /\ LoginHolds(c, pc[c], request[c])
                       /\ \A d \in Clients : Alone(c, pc[c], request[c], d)

\* The tab h, at n with the request r, has the latest token of the browser's
\* session, or is being answered with it.
HasLatest(h, n, r) ==
    \/ n = "answer" /\ r.session = cookie /\ r.csrf = sessions[cookie].csrf
    \/ /\ token[h] = sessions[cookie].csrf
       /\ n = "answer" => r.kind = "login"
       /\ r.kind # "login" => r.session \in {None, cookie}

LatestInv ==
    cookie # None /\ holder[cookie] # None =>
        HasLatest(holder[cookie], pc[holder[cookie]], request[holder[cookie]])

IInv == Types /\ ClientInv /\ EndedInv /\ LoginInv /\ LatestInv

-------------------------------------------------------------------------------
(* The tabs. *)

\* Take writes the place and the request of one tab.
Take(c, n, r) ==
    /\ pc' = [pc EXCEPT ![c] = n]
    /\ request' = [request EXCEPT ![c] = r]

LEMMA TakeWrites ==
  ASSUME Types, NEW c \in Clients, NEW n \in Pcs, NEW r \in Requests, Take(c, n, r)
  PROVE  /\ pc' \in [Clients -> Pcs] /\ request' \in [Clients -> Requests]
         /\ pc'[c] = n /\ request'[c] = r
         /\ \A d \in Clients \ {c} : pc'[d] = pc[d] /\ request'[d] = request[d]
  BY DEF Types, Take

LEMMA NothingRequested ==
  /\ NoRequest \in Requests /\ NoRequest.kind = "none" /\ NoRequest.session = None
  /\ Fits("idle", NoRequest) /\ Fits("idle", NoRequest)'
  BY DEF NoRequest, Requests, Fits, WithSession

LEMMA FinishTakes ==
  ASSUME NEW c \in Clients, Finish(c)
  PROVE  Take(c, "idle", NoRequest) /\ ended' = ended \ {c}
  BY DEF Finish, Take, Goto

LEMMA ProceedTakes ==
  ASSUME Types, NEW c \in Clients, NEW n, Proceed(c, n)
  PROVE  Take(c, n, request[c]) /\ ended' = ended
  BY DEF Proceed, Take, Goto, Types

LEMMA ClientFacts ==
  ASSUME IInv, NEW c \in Clients
  PROVE  request[c] \in Requests /\ pc[c] \in Pcs /\ Fits(pc[c], request[c])
  BY DEF IInv, Types, ClientInv

\* No step brings a session back: its row keeps its key and its end.
Ages ==
    /\ clock' \in Nat /\ clock <= clock'
    /\ \A s \in Sessions : sessions[s].status # "none" =>
          /\ sessions'[s].status # "none"
          /\ sessions'[s].status = "active" => sessions[s].status = "active"
          /\ sessions'[s].key = sessions[s].key
          /\ sessions'[s].expires = sessions[s].expires

LEMMA DeadStays ==
  ASSUME Types, Ages, UNCHANGED entries, NEW s \in Sessions, sessions[s].status # "none",
         Dead(s)
  PROVE  Dead(s)'
<1>1. sessions[s].expires \in Nat /\ clock \in Nat
  BY DEF Types, Rows
<1>2. QED BY <1>1 DEF Ages, Dead, Active

\* The places and the ended sessions after a step of the tab c.
LEMMA ClientsKeep ==
  ASSUME IInv, Ages, UNCHANGED entries,
         NEW c \in Clients, NEW n \in Pcs, NEW r \in Requests, Take(c, n, r),
         Fits(n, r)',
         ended' \subseteq ended \cup {c},
         c \in ended' => n = "session" /\ Dead(r.session)'
  PROVE  ClientInv' /\ EndedInv'
<1>1. ClientInv'
  <2>1. ASSUME NEW d \in Clients PROVE Fits(pc[d], request[d])'
    <3>1. CASE d = c
      BY <3>1, TakeWrites DEF IInv, Fits
    <3>2. CASE d # c
      <4>1. /\ Fits(pc[d], request[d]) /\ request[d] \in Requests
            /\ pc'[d] = pc[d] /\ request'[d] = request[d]
        BY <3>2, ClientFacts, TakeWrites DEF IInv
      <4>2. request[d].session # None => request[d].session \in Sessions
        BY <4>1 DEF Requests
      <4>3. QED BY <4>1, <4>2 DEF Fits, Ages
    <3>3. QED BY <3>1, <3>2
  <2>2. QED BY <2>1 DEF ClientInv
<1>2. EndedInv'
  <2>1. ASSUME NEW d \in ended'
        PROVE  pc'[d] = "session" /\ Dead(request[d].session)'
    <3>1. CASE d = c
      BY <2>1, <3>1, TakeWrites DEF IInv, Dead, Active
    <3>2. CASE d # c
      <4>1. /\ d \in Clients /\ pc[d] = "session" /\ Dead(request[d].session)
            /\ pc'[d] = pc[d] /\ request'[d] = request[d]
        BY <2>1, <3>2, TakeWrites DEF IInv, EndedInv, Types
      <4>2. request[d].session \in Sessions /\ sessions[request[d].session].status # "none"
        BY <4>1, ClientFacts DEF Fits, Requests, WithSession
      <4>s. PICK s : s = request[d].session
        OBVIOUS
      <4>3. Dead(s)'
        BY <4>1, <4>2, <4>s, DeadStays DEF IInv
      <4>4. QED BY <4>1, <4>3, <4>s DEF Dead, Active
    <3>3. QED BY <3>1, <3>2
  <2>2. QED BY <2>1 DEF EndedInv
<1>3. QED BY <1>1, <1>2

-------------------------------------------------------------------------------
(* Steps that change the place of a tab, and neither sessions nor tokens. *)

store == <<entries, clock, issued, sessions, cookie, token, holder>>

Moves(c, n, r) ==
    /\ Take(c, n, r)
    /\ n \in Pcs /\ r \in Requests
    /\ Fits(n, r)
    /\ n # "answer" /\ pc[c] # "answer"
    /\ r = request[c] \/ r.session \in {None, cookie}
    /\ ended' \subseteq ended \cup {c}
    /\ c \in ended' => n = "session" /\ Dead(r.session)

LEMMA MoveKeeps ==
  ASSUME IInv, NEW c \in Clients, NEW n, NEW r, Moves(c, n, r), UNCHANGED store
  PROVE  IInv'
<1>1. UNCHANGED <<entries, clock, issued, sessions, cookie, token, holder>>
  BY DEF store
<1>2. /\ pc' \in [Clients -> Pcs] /\ request' \in [Clients -> Requests]
      /\ pc'[c] = n /\ request'[c] = r
      /\ \A d \in Clients \ {c} : pc'[d] = pc[d] /\ request'[d] = request[d]
  BY TakeWrites DEF Moves, IInv
<1>3. Types'
  BY <1>1, <1>2 DEF IInv, Types, Moves
<1>4. ClientInv' /\ EndedInv'
  <2>1. Ages
    BY <1>1 DEF Ages, IInv, Types
  <2>2. Fits(n, r)' /\ (Dead(r.session) => Dead(r.session)')
    BY <1>1 DEF Moves, Fits, Dead, Active
  <2>3. QED BY <1>1, <2>1, <2>2, ClientsKeep DEF Moves
<1>5. LoginInv'
  <2>1. ASSUME NEW b \in Clients, pc'[b] = "answer", request'[b].kind = "login"
        PROVE  /\ LoginHolds(b, pc[b], request[b])'
               /\ \A d \in Clients : Alone(b, pc[b], request[b], d)'
    <3>1. /\ b # c /\ pc[b] = "answer" /\ request[b].kind = "login"
          /\ request'[b] = request[b]
      BY <1>2, <2>1 DEF Moves
    <3>2. /\ LoginHolds(b, pc[b], request[b])
          /\ \A d \in Clients : Alone(b, pc[b], request[b], d)
      BY DEF IInv, LoginInv
    <3>3. LoginHolds(b, pc[b], request[b])'
      BY <1>1, <1>2, <3>1, <3>2 DEF LoginHolds
    <3>4. request[b].session # None /\ request[b].session # cookie
          /\ request[c].session # request[b].session
      BY <3>1, <3>2, ClientFacts DEF LoginHolds, Alone, Fits
    <3>5. \A d \in Clients : d # b => request'[d].session # request[b].session
      BY <1>2, <3>1, <3>2, <3>4 DEF Alone, Moves
    <3>6. QED BY <3>1, <3>3, <3>5 DEF Alone
  <2>2. QED BY <2>1 DEF LoginInv, LoginHolds, Alone
<1>6. LatestInv'
  <2> SUFFICES ASSUME cookie # None, holder[cookie] # None
               PROVE  HasLatest(holder[cookie], pc[holder[cookie]], request[holder[cookie]])'
    BY <1>1 DEF LatestInv
  <2>h. PICK h \in Clients : h = holder[cookie]
    BY DEF IInv, Types
  <2>1. HasLatest(h, pc[h], request[h])
    BY <2>h DEF IInv, LatestInv
  <2>2. CASE h # c
    BY <1>1, <1>2, <2>1, <2>2, <2>h DEF HasLatest
  <2>3. CASE h = c
    BY <1>1, <1>2, <2>1, <2>3, <2>h DEF HasLatest, Moves
  <2>4. QED BY <2>2, <2>3
<1>7. QED BY <1>3, <1>4, <1>5, <1>6 DEF IInv

LEMMA FinishKeeps ==
  ASSUME IInv, NEW c \in Clients, pc[c] # "answer", Finish(c), UNCHANGED store
  PROVE  IInv'
<1>1. Moves(c, "idle", NoRequest)
  BY FinishTakes, NothingRequested DEF Moves, Pcs
<1>2. QED BY <1>1, MoveKeeps

\* A request that goes on from n, which is not the place of ended sessions.
LEMMA ProceedKeeps ==
  ASSUME IInv, NEW c \in Clients, NEW n \in Pcs, Proceed(c, n), UNCHANGED store,
         pc[c] # "answer", n # "answer", Fits(n, request[c]), c \notin ended
  PROVE  IInv'
<1>1. Moves(c, n, request[c])
  BY ProceedTakes, ClientFacts DEF Moves, IInv
<1>2. QED BY <1>1, MoveKeeps

LEMMA AuthorizeKeeps ==
  ASSUME IInv, NEW c \in Clients, pc[c] \in {"quota", "csrf"}, Authorize(c),
         UNCHANGED store
  PROVE  IInv'
<1>1. CASE Finish(c)
  BY <1>1, FinishKeeps
<1>2. CASE Proceed(c, "deny")
  <2>1. Fits("deny", request[c]) /\ c \notin ended
    BY ClientFacts DEF Fits, IInv, EndedInv
  <2>2. QED BY <1>2, <2>1, ProceedKeeps DEF Pcs
<1>3. QED BY <1>1, <1>2 DEF Authorize

LEMMA BeginKeeps ==
  ASSUME IInv, NEW c \in Clients, NEW kind \in Kinds, NEW k \in Keys, Begin(c, kind, k)
  PROVE  IInv'
<1>1. UNCHANGED store /\ pc[c] = "idle" /\ c \notin ended
  BY DEF Begin, store, browser, IInv, EndedInv
<1>2. CASE kind \in {"login", "bearer"}
  <2>1. PICK r : r = [NoRequest EXCEPT !.kind = kind, !.key = k]
    OBVIOUS
  <2>2. r \in Requests /\ r.kind = kind /\ r.session = None
    BY <2>1 DEF NoRequest, Requests
  <2>3. Take(c, "enforce", r) /\ ended' = ended
    BY <1>2, <2>1 DEF Begin, Take, Goto
  <2>4. Fits("enforce", r)
    BY <1>2, <2>2 DEF Fits, WithSession
  <2>5. Moves(c, "enforce", r)
    BY <1>1, <2>2, <2>3, <2>4 DEF Moves, Pcs
  <2>6. QED BY <1>1, <2>5, MoveKeeps
<1>3. CASE kind \notin {"login", "bearer"}
  <2>1. PICK r : r = [kind |-> kind, key |-> sessions[cookie].key,
                      session |-> cookie, csrf |-> token[c]]
    OBVIOUS
  <2>2. cookie \in Sessions /\ cookie # None /\ kind \in WithSession
    BY <1>3, NoneAssumption DEF Begin, IInv, Types, Kinds, WithSession
  <2>3. /\ r \in Requests /\ r.kind = kind /\ r.session = cookie
        /\ r.key = sessions[cookie].key
    BY <2>1, <2>2 DEF Requests, IInv, Types, Rows
  <2>4. /\ Take(c, "session", r)
        /\ ended' = IF Active(cookie) /\ entries[sessions[cookie].key] # "none"
                    THEN ended ELSE ended \cup {c}
    BY <1>3, <2>1 DEF Begin, Take, Goto
  <2>5. Fits("session", r)
    BY <2>2, <2>3 DEF Fits, IInv, Types
  <2>6. c \in ended' => Dead(r.session)
    BY <1>1, <2>3, <2>4 DEF Dead
  <2>7. Moves(c, "session", r)
    BY <1>1, <2>3, <2>4, <2>5, <2>6 DEF Moves, Pcs
  <2>8. QED BY <1>1, <2>7, MoveKeeps
<1>4. QED BY <1>2, <1>3

LEMMA EnforceKeeps ==
  ASSUME IInv, NEW c \in Clients, Enforce(c)
  PROVE  IInv'
<1>1. UNCHANGED store /\ pc[c] = "enforce" /\ c \notin ended
  BY DEF Enforce, store, browser, IInv, EndedInv
<1>2. CASE Finish(c)
  BY <1>1, <1>2, FinishKeeps
<1>3. ASSUME NEW n \in {"record", "quota"}, Proceed(c, n)
      PROVE  IInv'
  <2>1. Fits(n, request[c])
    BY <1>1, <1>3, ClientFacts DEF Fits
  <2>2. QED BY <1>1, <1>3, <2>1, ProceedKeeps DEF Pcs
<1>4. QED BY <1>2, <1>3 DEF Enforce

LEMMA ConsumeKeeps ==
  ASSUME IInv, NEW c \in Clients, Consume(c)
  PROVE  IInv'
<1>1. UNCHANGED store /\ pc[c] = "quota" /\ c \notin ended
  BY DEF Consume, store, browser, IInv, EndedInv
<1>2. CASE Finish(c)
  BY <1>1, <1>2, FinishKeeps
<1>3. CASE AfterQuota(c)
  <2>f. Fits("quota", request[c])
    BY <1>1, ClientFacts
  <2>1. CASE request[c].kind = "login"
    <3>1. Proceed(c, "create") /\ Fits("create", request[c])
      BY <1>3, <2>1, <2>f DEF AfterQuota, Fits
    <3>2. QED BY <1>1, <3>1, ProceedKeeps DEF Pcs
  <2>2. CASE request[c].kind = "resume"
    <3>1. Proceed(c, "rotate") /\ Fits("rotate", request[c])
      BY <1>3, <2>2, <2>f DEF AfterQuota, Fits, WithSession
    <3>2. QED BY <1>1, <3>1, ProceedKeeps DEF Pcs
  <2>3. CASE request[c].kind \in {"logout", "command"}
    <3>1. Proceed(c, "csrf") /\ Fits("csrf", request[c])
      BY <1>3, <2>3, <2>f DEF AfterQuota, Fits, WithSession
    <3>2. QED BY <1>1, <3>1, ProceedKeeps DEF Pcs
  <2>4. CASE request[c].kind \notin {"login", "resume", "logout", "command"}
    <3>1. Authorize(c)
      BY <1>3, <2>4 DEF AfterQuota
    <3>2. QED BY <1>1, <3>1, AuthorizeKeeps
  <2>5. QED BY <2>1, <2>2, <2>3, <2>4
<1>4. QED BY <1>2, <1>3 DEF Consume

LEMMA AuthenticateKeeps ==
  ASSUME IInv, NEW c \in Clients, Authenticate(c)
  PROVE  IInv'
<1>1. UNCHANGED store /\ pc[c] = "session"
  BY DEF Authenticate, store, browser
<1>2. CASE Finish(c)
  BY <1>1, <1>2, FinishKeeps
<1>3. CASE /\ Active(request[c].session) /\ entries[request[c].key] # "none"
           /\ Proceed(c, "quota")
  <2>1. Fits("quota", request[c])
    BY <1>1, ClientFacts DEF Fits
  <2>2. c \notin ended
    BY <1>1, <1>3, ClientFacts DEF IInv, EndedInv, Dead, Fits
  <2>3. QED BY <1>1, <1>3, <2>1, <2>2, ProceedKeeps DEF Pcs
<1>4. QED BY <1>2, <1>3 DEF Authenticate

LEMMA VerifyKeeps ==
  ASSUME IInv, NEW c \in Clients, Verify(c)
  PROVE  IInv'
<1>1. UNCHANGED store /\ pc[c] = "csrf" /\ c \notin ended
  BY DEF Verify, store, browser, IInv, EndedInv
<1>2. CASE Authorize(c)
  BY <1>1, <1>2, AuthorizeKeeps
<1>3. ASSUME NEW n \in {"deny", "revoke"}, Proceed(c, n)
      PROVE  IInv'
  <2>1. Fits(n, request[c])
    BY <1>1, <1>3, ClientFacts DEF Fits
  <2>2. QED BY <1>1, <1>3, <2>1, ProceedKeeps DEF Pcs
<1>4. QED BY <1>2, <1>3 DEF Verify

LEMMA EndKeeps ==
  ASSUME IInv, NEW c \in Clients, Record(c) \/ RefuseUsername(c) \/ Deny(c)
  PROVE  IInv'
<1>1. UNCHANGED store /\ pc[c] # "answer" /\ Finish(c)
  BY DEF Record, RefuseUsername, Deny, store, browser
<1>2. QED BY <1>1, FinishKeeps

-------------------------------------------------------------------------------
(* Steps that change a session, or who holds its token. *)

LEMMA TokenFacts ==
  ASSUME IInv
  PROVE  /\ clock \in Nat /\ issued \in Nat /\ issued + 1 \in Nat
         /\ sessions \in [Sessions -> Rows] /\ cookie \in Sessions \cup {None}
         /\ token \in [Clients -> Nat] /\ holder \in [Sessions -> Clients \cup {None}]
         /\ None \notin Sessions /\ None \notin Clients
  BY NoneAssumption DEF IInv, Types

\* The tab c is issued the next token of the session s, of which no login by
\* another tab waits for an answer; the other rows stay as they are.
LEMMA IssueKeeps ==
  ASSUME IInv, Ages, NEW c \in Clients, NEW s \in Sessions, Issue(c, s),
         pc[c] # "answer", pc[c] # "session",
         UNCHANGED <<entries, clock, cookie, token>>,
         request[c].kind \in {"login", "resume"},
         sessions' \in [Sessions -> Rows], sessions'[s].csrf = issued',
         sessions'[s].status # "none",
         \A o \in Sessions \ {s} : sessions'[o] = sessions[o],
         request[c].kind = "resume" => request[c].session = s,
         request[c].kind = "login" => sessions[s].status = "none"
  PROVE  IInv'
<1>r. PICK r : r = [request[c] EXCEPT !.session = s, !.csrf = issued']
  OBVIOUS
<1>f. /\ request[c] \in Requests /\ Fits(pc[c], request[c]) /\ c \notin ended
      /\ issued' = issued + 1 /\ issued' \in Nat
  BY ClientFacts, TokenFacts DEF Issue, IInv, EndedInv
<1>1. /\ Take(c, "answer", r) /\ r \in Requests /\ r.kind = request[c].kind
      /\ r.key = request[c].key /\ r.session = s /\ r.csrf = issued'
      /\ holder' = [holder EXCEPT ![s] = c] /\ ended' = ended
  <2>1. request' = [request EXCEPT ![c].session = s, ![c].csrf = issued']
    BY DEF Issue
  <2>2. /\ r \in Requests /\ r.kind = request[c].kind /\ r.key = request[c].key
        /\ r.session = s /\ r.csrf = issued'
    BY <1>f, <1>r DEF Requests
  <2>3. request' = [request EXCEPT ![c] = r]
    BY <1>r, <2>1
  <2>4. QED BY <2>2, <2>3 DEF Issue, Take, Goto
<1>2. /\ pc' \in [Clients -> Pcs] /\ request' \in [Clients -> Requests]
      /\ pc'[c] = "answer" /\ request'[c] = r
      /\ \A d \in Clients \ {c} : pc'[d] = pc[d] /\ request'[d] = request[d]
  BY <1>1, TakeWrites DEF IInv, Pcs
<1>3. /\ holder' \in [Sessions -> Clients \cup {None}] /\ holder'[s] = c
      /\ \A o \in Sessions \ {s} : holder'[o] = holder[o]
  BY <1>1, TokenFacts
<1>4. Types'
  BY <1>f, <1>1, <1>2, <1>3 DEF IInv, Types, Ages
<1>5. ClientInv' /\ EndedInv'
  <2>1. Fits("answer", r)'
    BY <1>f, <1>1, NoneAssumption DEF Fits, WithSession, Ages
  <2>2. QED BY <1>f, <1>1, <2>1, ClientsKeep DEF Pcs
<1>6. \A d \in Clients \ {c} : pc[d] = "answer" /\ request[d].kind = "login" =>
          /\ request[d].session # s /\ request[d].session \in Sessions
  <2>1. ASSUME NEW d \in Clients \ {c}, pc[d] = "answer", request[d].kind = "login"
        PROVE  request[d].session # s /\ request[d].session \in Sessions
    <3>1. /\ request[d].session \in Sessions /\ request[d].session # request[c].session
          /\ sessions[request[d].session].status # "none"
      BY <2>1, ClientFacts DEF IInv, LoginInv, Alone, Fits, Requests
    <3>2. QED BY <3>1
  <2>2. QED BY <2>1
<1>7. LoginInv'
  <2>1. ASSUME NEW b \in Clients, pc'[b] = "answer", request'[b].kind = "login"
        PROVE  /\ LoginHolds(b, pc[b], request[b])'
               /\ \A d \in Clients : Alone(b, pc[b], request[b], d)'
    <3>1. CASE b = c
      <4>1. sessions[s].status = "none" /\ cookie # s
        BY <1>1, <1>2, <2>1, <3>1, TokenFacts DEF IInv, Types
      <4>2. \A d \in Clients \ {c} : request[d].session # s
        BY <4>1, ClientFacts, NoneAssumption DEF Fits
      <4>3. QED BY <1>1, <1>2, <1>3, <3>1, <4>1, <4>2 DEF LoginHolds, Alone
    <3>2. CASE b # c
      <4>1. /\ pc[b] = "answer" /\ request[b].kind = "login" /\ request'[b] = request[b]
            /\ request[b].session # s /\ request[b].session \in Sessions
        BY <1>2, <1>6, <2>1, <3>2
      <4>2. /\ LoginHolds(b, pc[b], request[b])
            /\ \A d \in Clients : Alone(b, pc[b], request[b], d)
        BY DEF IInv, LoginInv
      <4>3. LoginHolds(b, pc[b], request[b])'
        BY <1>3, <4>1, <4>2 DEF LoginHolds
      <4>4. \A d \in Clients : d # b => request'[d].session # request[b].session
        BY <1>1, <1>2, <4>1, <4>2 DEF Alone
      <4>5. QED BY <4>1, <4>3, <4>4 DEF Alone
    <3>3. QED BY <3>1, <3>2
  <2>2. QED BY <2>1 DEF LoginInv, LoginHolds, Alone
<1>8. LatestInv'
  <2> SUFFICES ASSUME cookie # None, holder'[cookie] # None
               PROVE  HasLatest(holder[cookie], pc[holder[cookie]], request[holder[cookie]])'
    BY DEF LatestInv
  <2>0. cookie \in Sessions
    BY TokenFacts
  <2>1. CASE cookie = s
    BY <1>1, <1>2, <1>3, <2>1 DEF HasLatest
  <2>2. CASE cookie # s
    <3>h. PICK h \in Clients : h = holder[cookie] /\ h = holder'[cookie]
      BY <1>3, <2>0, <2>2, TokenFacts
    <3>1. HasLatest(h, pc[h], request[h]) /\ sessions'[cookie] = sessions[cookie]
      BY <2>0, <2>2, <3>h, <1>3 DEF IInv, LatestInv
    <3>2. CASE h # c
      BY <1>2, <3>1, <3>2, <3>h DEF HasLatest
    <3>3. CASE h = c
      <4>1. token[h] = sessions[cookie].csrf /\ request[c].kind = "login"
        BY <3>1, <3>3, <2>2, TokenFacts DEF HasLatest
      <4>2. QED BY <1>1, <1>2, <3>1, <3>3, <3>h, <4>1 DEF HasLatest
    <3>4. QED BY <3>2, <3>3
  <2>3. QED BY <2>1, <2>2
<1>9. QED BY <1>4, <1>5, <1>7, <1>8 DEF IInv

LEMMA CreateKeeps ==
  ASSUME IInv, NEW c \in Clients, Create(c)
  PROVE  IInv'
<1>1. PICK s \in Sessions :
        /\ sessions[s].status = "none" /\ Issue(c, s)
        /\ sessions' = [sessions EXCEPT ![s] =
              [status |-> "active", key |-> request[c].key, csrf |-> issued',
               expires |-> clock + Ttl]]
  BY DEF Create
<1>2. /\ pc[c] = "create" /\ request[c].kind = "login" /\ request[c] \in Requests
      /\ UNCHANGED <<entries, clock, cookie, token>>
  BY ClientFacts DEF Create, Fits, browser
<1>3. [status |-> "active", key |-> request[c].key, csrf |-> issued',
       expires |-> clock + Ttl] \in Rows
  <2>1. issued' = issued + 1 /\ clock + Ttl \in Nat
    BY <1>1, TokenFacts, WindowAssumption DEF Issue, WindowAssumption
  <2>2. QED BY <1>2, <2>1, TokenFacts DEF Rows, Requests
<1>4. /\ sessions' \in [Sessions -> Rows] /\ sessions'[s].csrf = issued'
      /\ sessions'[s].status = "active"
      /\ \A o \in Sessions \ {s} : sessions'[o] = sessions[o]
  BY <1>1, <1>3, TokenFacts
<1>5. Ages
  BY <1>1, <1>2, <1>4, TokenFacts DEF Ages
<1>6. QED BY <1>1, <1>2, <1>4, <1>5, IssueKeeps

LEMMA RotateKeeps ==
  ASSUME IInv, NEW c \in Clients, Rotate(c)
  PROVE  IInv'
<1>1. pc[c] = "rotate" /\ UNCHANGED <<entries, clock, cookie, token>>
  BY DEF Rotate, browser
<1>2. CASE Finish(c) /\ UNCHANGED <<issued, sessions, holder>>
  BY <1>1, <1>2, FinishKeeps DEF store
<1>3. CASE Active(request[c].session)
  <2>s. PICK s : s = request[c].session
    OBVIOUS
  <2>1. /\ s \in Sessions /\ sessions[s].status # "none"
        /\ request[c].kind \in WithSession /\ request[c] \in Requests
    BY <1>1, <2>s, ClientFacts DEF Fits, Requests
  <2>2. Issue(c, s) /\ sessions' = [sessions EXCEPT ![s].csrf = issued']
    BY <1>3, <2>s DEF Rotate
  <2>3. issued' \in Nat /\ sessions[s] \in Rows
    BY <2>1, <2>2, TokenFacts DEF Issue
  <2>4. [sessions[s] EXCEPT !.csrf = issued'] \in Rows
    BY <2>3 DEF Rows
  <2>5. /\ sessions' \in [Sessions -> Rows]
        /\ sessions'[s] = [sessions[s] EXCEPT !.csrf = issued']
        /\ \A o \in Sessions \ {s} : sessions'[o] = sessions[o]
    BY <2>1, <2>2, <2>4, TokenFacts
  <2>6. /\ sessions'[s].csrf = issued' /\ sessions'[s].status = sessions[s].status
        /\ sessions'[s].key = sessions[s].key /\ sessions'[s].expires = sessions[s].expires
    BY <2>3, <2>5 DEF Rows
  <2>7. Ages
    <3>1. ASSUME NEW o \in Sessions
          PROVE  /\ sessions'[o].status = sessions[o].status
                 /\ sessions'[o].key = sessions[o].key
                 /\ sessions'[o].expires = sessions[o].expires
      BY <2>5, <2>6
    <3>2. clock' \in Nat /\ clock <= clock'
      BY <1>1, TokenFacts
    <3>3. QED BY <3>1, <3>2 DEF Ages
  <2>8. request[c].kind = "resume"
    BY <1>1, <2>1, ClientFacts DEF Fits
  <2>9. QED BY <1>1, <2>1, <2>2, <2>5, <2>6, <2>7, <2>8, <2>s, IssueKeeps
<1>4. QED BY <1>2, <1>3 DEF Rotate

\* An answer arrives: its tab has the token, and a login changes the cookie.
LEMMA ReceiveKeeps ==
  ASSUME IInv, NEW c \in Clients, Receive(c)
  PROVE  IInv'
<1>1. /\ pc[c] = "answer" /\ Finish(c) /\ c \notin ended
      /\ UNCHANGED <<entries, clock, sessions, issued, holder>>
      /\ cookie' = IF request[c].kind = "login" THEN request[c].session ELSE cookie
      /\ token' = [token EXCEPT ![c] = request[c].csrf]
  BY DEF Receive, IInv, EndedInv
<1>2. /\ request[c] \in Requests /\ request[c].session \in Sessions
      /\ request[c].kind \in {"login", "resume"}
      /\ sessions[request[c].session].status # "none"
  BY <1>1, ClientFacts DEF Fits, Requests
<1>3. /\ pc' \in [Clients -> Pcs] /\ request' \in [Clients -> Requests]
      /\ pc'[c] = "idle" /\ request'[c] = NoRequest
      /\ \A d \in Clients \ {c} : pc'[d] = pc[d] /\ request'[d] = request[d]
      /\ ended' = ended \ {c}
  BY <1>1, FinishTakes, TakeWrites, NothingRequested DEF IInv, Pcs
<1>4. /\ token' \in [Clients -> Nat] /\ token'[c] = request[c].csrf
      /\ \A d \in Clients \ {c} : token'[d] = token[d]
  BY <1>1, <1>2, TokenFacts DEF Requests
<1>5. Types'
  BY <1>1, <1>2, <1>3, <1>4 DEF IInv, Types
<1>6. ClientInv' /\ EndedInv'
  <2>1. Ages
    BY <1>1, TokenFacts DEF Ages
  <2>2. QED BY <1>1, <2>1, FinishTakes, NothingRequested, ClientsKeep DEF Pcs
<1>7. LoginInv'
  <2>1. ASSUME NEW b \in Clients, pc'[b] = "answer", request'[b].kind = "login"
        PROVE  /\ LoginHolds(b, pc[b], request[b])'
               /\ \A d \in Clients : Alone(b, pc[b], request[b], d)'
    <3>1. /\ b # c /\ pc[b] = "answer" /\ request[b].kind = "login"
          /\ request'[b] = request[b]
      BY <1>3, <2>1
    <3>2. /\ LoginHolds(b, pc[b], request[b])
          /\ \A d \in Clients : Alone(b, pc[b], request[b], d)
      BY DEF IInv, LoginInv
    <3>3. request[c].session # request[b].session /\ request[b].session # None
      BY <3>1, <3>2, ClientFacts DEF Alone, Fits
    <3>4. LoginHolds(b, pc[b], request[b])'
      BY <1>1, <3>1, <3>2, <3>3 DEF LoginHolds
    <3>5. \A d \in Clients : d # b => request'[d].session # request[b].session
      BY <1>3, <3>1, <3>2, <3>3, NothingRequested DEF Alone
    <3>6. QED BY <3>1, <3>4, <3>5 DEF Alone
  <2>2. QED BY <2>1 DEF LoginInv, LoginHolds, Alone
<1>8. LatestInv'
  <2> SUFFICES ASSUME cookie' # None, holder'[cookie'] # None
               PROVE  HasLatest(holder[cookie], pc[holder[cookie]], request[holder[cookie]])'
    BY DEF LatestInv
  <2>1. CASE request[c].kind = "login"
    <3>1. /\ cookie' = request[c].session /\ holder'[cookie'] = c
          /\ token'[c] = sessions'[cookie'].csrf
      BY <1>1, <1>4, <2>1 DEF IInv, LoginInv, LoginHolds
    <3>2. QED BY <1>3, <3>1, NothingRequested DEF HasLatest
  <2>2. CASE request[c].kind # "login"
    <3>h. PICK h \in Clients : h = holder[cookie] /\ h = holder'[cookie']
      BY <1>1, <2>2, TokenFacts
    <3>1. HasLatest(h, pc[h], request[h]) /\ cookie' = cookie /\ UNCHANGED sessions
      BY <1>1, <2>2, <3>h DEF IInv, LatestInv
    <3>2. CASE h # c
      BY <1>3, <1>4, <3>1, <3>2, <3>h DEF HasLatest
    <3>3. CASE h = c
      BY <1>1, <1>3, <1>4, <2>2, <3>1, <3>3, <3>h, NothingRequested DEF HasLatest
    <3>4. QED BY <3>2, <3>3
  <2>3. QED BY <2>1, <2>2
<1>9. QED BY <1>5, <1>6, <1>7, <1>8 DEF IInv

\* A logout revokes the row, and takes the cookie away.
LEMMA RevokeKeeps ==
  ASSUME IInv, NEW c \in Clients, Revoke(c)
  PROVE  IInv'
<1>1. /\ pc[c] = "revoke" /\ Finish(c) /\ c \notin ended
      /\ UNCHANGED <<entries, clock, issued, token, holder>>
  BY DEF Revoke, IInv, EndedInv
<1>2. CASE UNCHANGED <<sessions, cookie>>
  BY <1>1, <1>2, FinishKeeps DEF store
<1>3. CASE /\ sessions' = [sessions EXCEPT ![request[c].session].status = "revoked"]
           /\ sessions[request[c].session].status = "active"
           /\ cookie' = None
  <2>s. PICK s : s = request[c].session
    OBVIOUS
  <2>1. s \in Sessions /\ sessions[s] \in Rows
    BY <1>1, <2>s, ClientFacts, TokenFacts DEF Fits, Requests
  <2>2. [sessions[s] EXCEPT !.status = "revoked"] \in Rows
    BY <2>1 DEF Rows
  <2>3. /\ sessions' \in [Sessions -> Rows]
        /\ sessions'[s] = [sessions[s] EXCEPT !.status = "revoked"]
        /\ \A o \in Sessions \ {s} : sessions'[o] = sessions[o]
    BY <1>3, <2>1, <2>2, <2>s, TokenFacts
  <2>4. ASSUME NEW o \in Sessions
        PROVE  /\ sessions'[o].key = sessions[o].key
               /\ sessions'[o].csrf = sessions[o].csrf
               /\ sessions'[o].expires = sessions[o].expires
               /\ \/ sessions'[o].status = sessions[o].status
                  \/ /\ sessions[o].status = "active"
                     /\ sessions'[o].status = "revoked"
    <3>1. CASE o = s
      <4>1. /\ sessions'[s].key = sessions[s].key
            /\ sessions'[s].csrf = sessions[s].csrf
            /\ sessions'[s].expires = sessions[s].expires
            /\ sessions'[s].status = "revoked"
        BY <2>1, <2>3 DEF Rows
      <4>2. QED BY <1>3, <2>s, <3>1, <4>1
    <3>2. CASE o # s
      BY <2>3, <3>2
    <3>3. QED BY <3>1, <3>2
  <2>5. /\ pc' \in [Clients -> Pcs] /\ request' \in [Clients -> Requests]
        /\ pc'[c] = "idle" /\ request'[c] = NoRequest
        /\ \A d \in Clients \ {c} : pc'[d] = pc[d] /\ request'[d] = request[d]
        /\ ended' = ended \ {c}
    BY <1>1, FinishTakes, TakeWrites, NothingRequested DEF IInv, Pcs
  <2>6. Types'
    BY <1>1, <1>3, <2>3, <2>5 DEF IInv, Types
  <2>7. ClientInv' /\ EndedInv'
    <3>1. Ages
      BY <1>1, <2>4, TokenFacts DEF Ages
    <3>2. QED BY <1>1, <3>1, FinishTakes, NothingRequested, ClientsKeep DEF Pcs
  <2>8. LoginInv'
    <3>1. ASSUME NEW b \in Clients, pc'[b] = "answer", request'[b].kind = "login"
          PROVE  /\ LoginHolds(b, pc[b], request[b])'
                 /\ \A d \in Clients : Alone(b, pc[b], request[b], d)'
      <4>1. /\ b # c /\ pc[b] = "answer" /\ request[b].kind = "login"
            /\ request'[b] = request[b]
        BY <2>5, <3>1
      <4>2. /\ LoginHolds(b, pc[b], request[b])
            /\ \A d \in Clients : Alone(b, pc[b], request[b], d)
        BY DEF IInv, LoginInv
      <4>3. request[b].session \in Sessions
        BY <4>1, ClientFacts DEF Fits, Requests
      <4>4. LoginHolds(b, pc[b], request[b])'
        BY <1>1, <1>3, <2>4, <4>1, <4>2, <4>3, TokenFacts DEF LoginHolds
      <4>5. \A d \in Clients : d # b => request'[d].session # request[b].session
        BY <2>5, <4>1, <4>2, <4>3, NothingRequested, TokenFacts DEF Alone
      <4>6. QED BY <4>1, <4>4, <4>5 DEF Alone
    <3>2. QED BY <3>1 DEF LoginInv, LoginHolds, Alone
  <2>9. LatestInv'
    BY <1>3 DEF LatestInv
  <2>10. QED BY <2>6, <2>7, <2>8, <2>9 DEF IInv
<1>4. QED BY <1>2, <1>3 DEF Revoke, RevokeSession

-------------------------------------------------------------------------------
(* Steps of no tab. *)

LEMMA TickKeeps ==
  ASSUME IInv, Tick
  PROVE  IInv'
<1>1. /\ clock' = clock + 1
      /\ UNCHANGED <<entries, issued, sessions, cookie, token, pc, request, ended, holder>>
  BY DEF Tick, browser
<1>2. Types'
  BY <1>1 DEF IInv, Types
<1>3. ClientInv' /\ LoginInv' /\ LatestInv'
  BY <1>1 DEF IInv, ClientInv, Fits, LoginInv, LoginHolds, Alone, LatestInv, HasLatest
<1>4. EndedInv'
  <2>1. ASSUME NEW c \in ended
        PROVE  pc[c] = "session" /\ Dead(request[c].session)'
    <3>s. PICK s : s = request[c].session
      OBVIOUS
    <3>1. /\ c \in Clients /\ pc[c] = "session" /\ Dead(s)
      BY <3>s DEF IInv, EndedInv, Types
    <3>2. s \in Sessions /\ sessions[s].status # "none"
      BY <3>1, <3>s, ClientFacts DEF Fits, Requests, WithSession
    <3>3. Ages
      BY <1>1, TokenFacts DEF Ages
    <3>4. Dead(s)'
      BY <1>1, <3>1, <3>2, <3>3, DeadStays DEF IInv
    <3>5. QED BY <1>1, <3>1, <3>4, <3>s DEF Dead, Active
  <2>2. QED BY <1>1, <2>1 DEF EndedInv
<1>5. QED BY <1>2, <1>3, <1>4 DEF IInv

LEMMA RestartKeeps ==
  ASSUME IInv, Restart
  PROVE  IInv'
<1>1. /\ UNCHANGED <<clock, issued, sessions, cookie, token>>
      /\ pc' = [c \in Clients |-> "idle"]
      /\ request' = [c \in Clients |-> NoRequest]
      /\ ended' = {}
      /\ holder' = [s \in Sessions |->
           IF holder[s] # None /\ pc[holder[s]] = "answer" THEN None ELSE holder[s]]
  BY DEF Restart, browser
<1>2. holder' \in [Sessions -> Clients \cup {None}]
  BY <1>1, TokenFacts
<1>3. Types'
  BY <1>1, <1>2, NothingRequested DEF IInv, Types, Pcs
<1>4. ClientInv' /\ EndedInv' /\ LoginInv'
  BY <1>1, NothingRequested DEF ClientInv, Fits, WithSession, EndedInv, LoginInv, LoginHolds, Alone
<1>5. LatestInv'
  <2> SUFFICES ASSUME cookie # None, holder'[cookie] # None
               PROVE  HasLatest(holder[cookie], pc[holder[cookie]], request[holder[cookie]])'
    BY <1>1 DEF LatestInv
  <2>h. PICK h \in Clients : h = holder[cookie] /\ h = holder'[cookie] /\ pc[h] # "answer"
    BY <1>1, TokenFacts
  <2>1. HasLatest(h, pc[h], request[h])
    BY <2>h DEF IInv, LatestInv
  <2>2. QED BY <1>1, <2>1, <2>h, NothingRequested DEF HasLatest
<1>6. QED BY <1>3, <1>4, <1>5 DEF IInv

-------------------------------------------------------------------------------
(* The invariant. *)

LEMMA InitEstablishes == Init => IInv
<1> SUFFICES ASSUME Init PROVE IInv
  OBVIOUS
<1>1. Absent \in Rows /\ Absent.status = "none"
  BY DEF Absent, Rows
<1>2. Types
  BY <1>1, NothingRequested DEF Init, Types, Pcs
<1>3. ClientInv /\ EndedInv /\ LoginInv /\ LatestInv
  BY NothingRequested DEF Init, ClientInv, EndedInv, LoginInv, LoginHolds, Alone, LatestInv
<1>4. QED BY <1>2, <1>3 DEF IInv

LEMMA NextKeeps == IInv /\ [Next]_vars => IInv'
<1> SUFFICES ASSUME IInv, [Next]_vars PROVE IInv'
  OBVIOUS
<1>1. CASE UNCHANGED vars
  BY <1>1 DEF vars, browser, IInv, Types, ClientInv, Fits, EndedInv, Dead, Active,
              LoginInv, LoginHolds, Alone, LatestInv, HasLatest
<1>2. CASE \E c \in Clients : Step(c)
  BY <1>2, BeginKeeps, EnforceKeeps, ConsumeKeeps, EndKeeps, CreateKeeps,
     AuthenticateKeeps, RotateKeeps, ReceiveKeeps, VerifyKeeps, RevokeKeeps DEF Step
<1>3. QED BY <1>1, <1>2, TickKeeps, RestartKeeps DEF Next

\* Whatever the tabs do, a session that has ended for a request stays so, a new
\* session is known to nobody before its login is answered, and the tab that was
\* given the latest token of the browser's session has it or is getting it.
THEOREM Invariant == Spec => []IInv
  BY InitEstablishes, NextKeeps, PTL DEF Spec

\* A request that comes with a revoked or expired session, or one whose key is
\* gone, is refused where sessions are authenticated, before quota and handlers.
THEOREM EndedRefused == Spec => []EndedSessionsAreRefused
<1>1. IInv => EndedSessionsAreRefused
  BY DEF IInv, EndedInv, EndedSessionsAreRefused
<1>2. QED BY <1>1, Invariant, PTL

\* The tab that was last given a token for the browser's session, and has its
\* answer, holds the token that the CSRF check compares with, however the
\* resumes and logins of the other tabs interleave.
THEOREM LatestTrusted == Spec => []LatestTabIsTrusted
<1>1. IInv => LatestTabIsTrusted
  BY DEF IInv, LatestInv, HasLatest, LatestTabIsTrusted
<1>2. QED BY <1>1, Invariant, PTL

-------------------------------------------------------------------------------
(* Totals of histories. *)

Histories == [Ticks -> Nat]

\* What Total counts.
Items(h, T) == UNION {{t} \X (1..h[t]) : t \in T}

LEMMA ItemsOf ==
  ASSUME NEW h \in Histories, NEW T \in SUBSET Ticks
  PROVE  /\ Items(h, T) = {x \in Ticks \X Nat : x[1] \in T /\ x[2] \in 1..h[x[1]]}
         /\ IsFiniteSet(Items(h, T))
         /\ Total(h, T) = Cardinality(Items(h, T)) /\ Total(h, T) \in Nat
<1>1. Items(h, T) = {x \in Ticks \X Nat : x[1] \in T /\ x[2] \in 1..h[x[1]]}
  <2>1. \A t \in T : {t} \X (1..h[t]) \subseteq Ticks \X Nat
    BY DEF Histories
  <2>2. QED BY <2>1 DEF Items, Histories
<1>2. IsFiniteSet(Items(h, T))
  <2> DEFINE parts == {{t} \X (1..h[t]) : t \in T}
             whole == T \X (SUBSET (T \X Nat))
             f == [t \in T |-> {t} \X (1..h[t])]
  <2>1. IsFiniteSet(T)
    <3>1. IsFiniteSet(Ticks)
      BY FS_Interval, BoundAssumption DEF Ticks
    <3>2. QED BY <3>1, FS_Subset
  <2>2. IsFiniteSet(parts)
    <3>1. f \in Surjection(T, parts)
      BY DEF Surjection
    <3>2. QED BY <2>1, <3>1, FS_Surjection
  <2>3. ASSUME NEW t \in T PROVE IsFiniteSet({t} \X (1..h[t]))
    <3>1. IsFiniteSet(1..h[t])
      BY FS_Interval DEF Histories
    <3>2. IsFiniteSet({t})
      BY FS_Singleton
    <3>3. QED BY <3>1, <3>2, FS_Product
  <2>4. \A P \in parts : IsFiniteSet(P)
    BY <2>3
  <2>5. QED BY <2>2, <2>4, FS_UNION DEF Items
<1>3. Total(h, T) = Cardinality(Items(h, T))
  BY DEF Total, Items
<1>4. QED BY <1>1, <1>2, <1>3, FS_CardinalityType

LEMMA TotalOfNone ==
  ASSUME NEW h \in Histories
  PROVE  Total(h, {}) = 0
<1>1. Items(h, {}) = {}
  BY DEF Items
<1>2. QED BY <1>1, ItemsOf, FS_EmptySet

LEMMA TotalOfOne ==
  ASSUME NEW h \in Histories, NEW t \in Ticks
  PROVE  Total(h, {t}) = h[t]
<1>1. Items(h, {t}) = {t} \X (1..h[t])
  BY DEF Items
<1>2. h[t] \in Nat
  BY DEF Histories
<1>3. IsFiniteSet(1..h[t]) /\ Cardinality(1..h[t]) = h[t]
  BY <1>2, FS_Interval
<1>4. IsFiniteSet({t}) /\ Cardinality({t}) = 1
  BY FS_Singleton
<1>5. Cardinality({t} \X (1..h[t])) = 1 * h[t]
  BY <1>3, <1>4, FS_Product
<1>6. {t} \in SUBSET Ticks
  OBVIOUS
<1>7. Total(h, {t}) = Cardinality(Items(h, {t}))
  BY <1>6, ItemsOf
<1>8. 1 * h[t] = h[t]
  BY <1>2
<1>9. QED BY <1>1, <1>5, <1>7, <1>8

LEMMA TotalOfUnion ==
  ASSUME NEW h \in Histories, NEW T \in SUBSET Ticks, NEW U \in SUBSET Ticks,
         T \cap U = {}
  PROVE  Total(h, T \cup U) = Total(h, T) + Total(h, U)
<1>1. Items(h, T \cup U) = Items(h, T) \cup Items(h, U)
  BY DEF Items
<1>2. Items(h, T) \cap Items(h, U) = {}
  BY ItemsOf
<1>3. Cardinality({}) = 0
  BY FS_EmptySet
<1>4. Cardinality(Items(h, T) \cup Items(h, U)) =
         Cardinality(Items(h, T)) + Cardinality(Items(h, U))
  <2>1. Cardinality(Items(h, T)) \in Nat /\ Cardinality(Items(h, U)) \in Nat
    BY ItemsOf
  <2>2. ASSUME NEW A, NEW B, IsFiniteSet(A), IsFiniteSet(B), A \cap B = {},
               Cardinality(A) \in Nat, Cardinality(B) \in Nat
        PROVE  Cardinality(A \cup B) = Cardinality(A) + Cardinality(B)
    <3>1. Cardinality(A \cup B) =
             Cardinality(A) + Cardinality(B) - Cardinality(A \cap B)
      BY <2>2, FS_Union
    <3>2. Cardinality(A \cap B) = 0
      BY <1>3, <2>2
    <3>3. QED BY <2>2, <3>1, <3>2
  <2>3. IsFiniteSet(Items(h, T)) /\ IsFiniteSet(Items(h, U))
    BY ItemsOf
  <2>4. QED BY <1>2, <2>1, <2>2, <2>3
<1>5. T \cup U \in SUBSET Ticks
  OBVIOUS
<1>6. Total(h, T \cup U) = Cardinality(Items(h, T \cup U))
  BY <1>5, ItemsOf
<1>7. QED BY <1>1, <1>4, <1>6, ItemsOf

LEMMA TotalOfPart ==
  ASSUME NEW h \in Histories, NEW T \in SUBSET Ticks, NEW U \in SUBSET T
  PROVE  Total(h, U) <= Total(h, T)
<1>1. Items(h, U) \subseteq Items(h, T)
  BY DEF Items
<1>2. U \in SUBSET Ticks
  OBVIOUS
<1>3. QED BY <1>1, <1>2, ItemsOf, FS_Subset

LEMMA TotalOfSame ==
  ASSUME NEW h \in Histories, NEW k \in Histories, NEW T \in SUBSET Ticks,
         \A t \in T : h[t] = k[t]
  PROVE  Total(h, T) = Total(k, T)
<1>1. Items(h, T) = Items(k, T)
  BY DEF Items
<1>2. QED BY <1>1, ItemsOf

LEMMA TotalOfZeros ==
  ASSUME NEW h \in Histories, NEW T \in SUBSET Ticks, NEW U \in SUBSET Ticks,
         \A t \in Ticks : t \in T /\ t \notin U => h[t] = 0
  PROVE  Total(h, T) <= Total(h, U)
<1>1. ASSUME NEW x \in Ticks \X Nat, x[1] \in T, x[2] \in 1..h[x[1]]
      PROVE  x[1] \in U
  BY <1>1
<1>2. Items(h, T) \subseteq Items(h, U)
  BY <1>1, ItemsOf
<1>3. QED BY <1>2, ItemsOf, FS_Subset

LEMMA TotalCounted ==
  ASSUME NEW h \in Histories, NEW g \in Histories, NEW k \in Ticks, g[k] = h[k] + 1,
         \A t \in Ticks \ {k} : g[t] = h[t], NEW T \in SUBSET Ticks
  PROVE  Total(g, T) = IF k \in T THEN Total(h, T) + 1 ELSE Total(h, T)
<1>1. CASE k \notin T
  BY <1>1, TotalOfSame
<1>2. CASE k \in T
  <2>1. T = (T \ {k}) \cup {k} /\ T \ {k} \in SUBSET Ticks /\ {k} \in SUBSET Ticks
    BY <1>2
  <2>2. /\ Total(g, T) = Total(g, T \ {k}) + Total(g, {k})
        /\ Total(h, T) = Total(h, T \ {k}) + Total(h, {k})
    BY <2>1, TotalOfUnion
  <2>3. Total(g, T \ {k}) = Total(h, T \ {k})
    BY <2>1, TotalOfSame
  <2>4. Total(g, {k}) = g[k] /\ Total(h, {k}) = h[k]
    BY TotalOfOne
  <2>5. Total(h, T \ {k}) \in Nat /\ h[k] \in Nat
    BY <2>1, ItemsOf DEF Histories
  <2>6. QED BY <1>2, <2>2, <2>3, <2>4, <2>5
<1>3. QED BY <1>1, <1>2

-------------------------------------------------------------------------------
(* Windows. *)

\* The ticks of the interval as long as a window that ends at k, and those of them
\* before s.
Lately(k) == {t \in Ticks : t <= k /\ k < t + Window}

Before(s, k) == {t \in Lately(k) : t < s}

\* Nothing has happened after k.
Past(h, k) == \A t \in Ticks : t > k => h[t] = 0

\* At k the window that began at s, with something, holds n, which is all since;
\* before it there is room for one at least.
Opened(h, k, s, n, limit) ==
    /\ s \in Ticks /\ s <= k /\ k < s + Window
    /\ n = Total(h, s..k) /\ n <= limit
    /\ h[s] > 0
    /\ Total(h, Before(s, k)) <= limit - 1

\* At k no window is open.
Closed(h, k, limit) == h[k] = 0 /\ Total(h, Lately(k)) <= limit - 1

LEMMA WindowSets ==
  ASSUME NEW k \in Ticks, NEW s \in Ticks, s <= k, k < s + Window
  PROVE  /\ Lately(k) \in SUBSET Ticks /\ Before(s, k) \in SUBSET Ticks
         /\ s..k \in SUBSET Ticks /\ (s + 1)..k \in SUBSET Ticks
         /\ Lately(k) = Before(s, k) \cup (s..k) /\ Before(s, k) \cap (s..k) = {}
         /\ s..k = {s} \cup ((s + 1)..k) /\ {s} \cap ((s + 1)..k) = {}
         /\ {s} \in SUBSET Ticks
  BY WindowAssumption, BoundAssumption DEF Lately, Before, Ticks

LEMMA OpenBound ==
  ASSUME NEW h \in Histories, NEW k \in Ticks, NEW s, NEW n, NEW limit \in Nat,
         Opened(h, k, s, n, limit)
  PROVE  Total(h, Lately(k)) <= 2 * limit - 1
<1>1. s \in Ticks /\ s <= k /\ k < s + Window
  BY DEF Opened
<1>2. /\ Before(s, k) \in SUBSET Ticks /\ s..k \in SUBSET Ticks
      /\ Lately(k) = Before(s, k) \cup (s..k) /\ Before(s, k) \cap (s..k) = {}
  BY <1>1, WindowSets
<1>3. Total(h, Lately(k)) = Total(h, Before(s, k)) + Total(h, s..k)
  BY <1>2, TotalOfUnion
<1>4. Total(h, Before(s, k)) \in Nat /\ Total(h, s..k) \in Nat
  BY <1>2, ItemsOf
<1>5. QED BY <1>3, <1>4 DEF Opened

LEMMA OpenTick ==
  ASSUME NEW h \in Histories, NEW k \in Ticks, k + 1 \in Ticks, Past(h, k),
         NEW s, NEW n, NEW limit \in Nat, Opened(h, k, s, n, limit)
  PROVE  IF k + 1 < s + Window THEN Opened(h, k + 1, s, n, limit)
                               ELSE Closed(h, k + 1, limit)
<1>1. s \in Ticks /\ s <= k /\ k < s + Window /\ k \in Nat /\ s \in Nat /\ Window \in Nat
  BY WindowAssumption, BoundAssumption DEF Opened, Ticks
<1>2. h[k + 1] = 0
  BY <1>1 DEF Past
<1>3. CASE k + 1 < s + Window
  <2>1. /\ s..k \in SUBSET Ticks /\ {k + 1} \in SUBSET Ticks
        /\ s..(k + 1) = (s..k) \cup {k + 1} /\ (s..k) \cap {k + 1} = {}
    BY <1>1, BoundAssumption DEF Ticks
  <2>2. Total(h, s..(k + 1)) = Total(h, s..k) + Total(h, {k + 1})
    <3> DEFINE T == s..k
               U == {k + 1}
    <3>1. T \in SUBSET Ticks /\ U \in SUBSET Ticks /\ T \cap U = {}
      BY <2>1
    <3> HIDE DEF T, U
    <3>2. Total(h, T \cup U) = Total(h, T) + Total(h, U)
      BY <3>1, TotalOfUnion
    <3>3. QED BY <2>1, <3>2 DEF T, U
  <2>3. Total(h, {k + 1}) = 0 /\ Total(h, s..k) \in Nat
    BY <1>2, <2>1, TotalOfOne, ItemsOf
  <2>4. Before(s, k + 1) \in SUBSET Before(s, k) /\ Before(s, k) \in SUBSET Ticks
    BY <1>1 DEF Before, Lately, Ticks
  <2>5. Total(h, Before(s, k + 1)) <= Total(h, Before(s, k))
    BY <2>4, TotalOfPart
  <2>6. Before(s, k + 1) \in SUBSET Ticks
    BY <2>4
  <2>7. Total(h, Before(s, k + 1)) \in Nat /\ Total(h, Before(s, k)) \in Nat
    BY <2>4, <2>6, ItemsOf
  <2>8. Total(h, Before(s, k + 1)) <= limit - 1
    BY <2>5, <2>7 DEF Opened
  <2>9. n = Total(h, s..(k + 1))
    BY <2>2, <2>3 DEF Opened
  <2>10. s <= k + 1
    BY <1>1
  <2>11. QED BY <1>3, <2>8, <2>9, <2>10 DEF Opened
<1>4. CASE ~(k + 1 < s + Window)
  <2>1. /\ Lately(k + 1) \in SUBSET Ticks /\ (s + 1)..k \in SUBSET Ticks
        /\ \A t \in Ticks : t \in Lately(k + 1) /\ t \notin (s + 1)..k => t = k + 1
    BY <1>1, <1>4, BoundAssumption DEF Lately, Ticks
  <2>2. Total(h, Lately(k + 1)) <= Total(h, (s + 1)..k)
    BY <1>2, <2>1, TotalOfZeros
  <2>3. Total(h, s..k) = Total(h, {s}) + Total(h, (s + 1)..k)
    BY <1>1, WindowSets, TotalOfUnion
  <2>4. Total(h, {s}) = h[s] /\ h[s] \in Nat
    BY <1>1, TotalOfOne DEF Histories
  <2>5. Total(h, (s + 1)..k) \in Nat /\ Total(h, Lately(k + 1)) \in Nat
    BY <2>1, ItemsOf
  <2>6. h[s] > 0 /\ Total(h, s..k) <= limit
    BY DEF Opened
  <2>7. QED BY <1>2, <1>4, <2>2, <2>3, <2>4, <2>5, <2>6 DEF Closed
<1>5. QED BY <1>3, <1>4

LEMMA ClosedTick ==
  ASSUME NEW h \in Histories, NEW k \in Ticks, k + 1 \in Ticks, Past(h, k),
         NEW limit \in Nat, Closed(h, k, limit)
  PROVE  Closed(h, k + 1, limit)
<1>1. k \in Nat /\ Window \in Nat
  BY WindowAssumption, BoundAssumption DEF Ticks
<1>2. h[k + 1] = 0
  BY <1>1 DEF Past
<1>3. /\ Lately(k + 1) \in SUBSET Ticks /\ Lately(k) \in SUBSET Ticks
      /\ \A t \in Ticks : t \in Lately(k + 1) /\ t \notin Lately(k) => t = k + 1
  BY <1>1 DEF Lately, Ticks
<1>4. Total(h, Lately(k + 1)) <= Total(h, Lately(k))
  BY <1>2, <1>3, TotalOfZeros
<1>5. Total(h, Lately(k + 1)) \in Nat /\ Total(h, Lately(k)) \in Nat
  BY <1>3, ItemsOf
<1>6. QED BY <1>2, <1>4, <1>5 DEF Closed

\* One more at k.
More(g, h, k) == g[k] = h[k] + 1 /\ \A t \in Ticks \ {k} : g[t] = h[t]

LEMMA OpenMore ==
  ASSUME NEW h \in Histories, NEW g \in Histories, NEW k \in Ticks, More(g, h, k),
         NEW s, NEW n, NEW limit \in Nat, Opened(h, k, s, n, limit), n < limit
  PROVE  Opened(g, k, s, n + 1, limit)
<1>1. s \in Ticks /\ s <= k /\ k < s + Window
  BY DEF Opened
<1>2. /\ Before(s, k) \in SUBSET Ticks /\ s..k \in SUBSET Ticks
      /\ k \notin Before(s, k) /\ k \in s..k
  BY <1>1, WindowSets DEF Ticks
<1>m. g[k] = h[k] + 1 /\ \A t \in Ticks \ {k} : g[t] = h[t]
  BY DEF More
<1>3. /\ Total(g, s..k) = Total(h, s..k) + 1
      /\ Total(g, Before(s, k)) = Total(h, Before(s, k))
  <2>1. \A T \in SUBSET Ticks :
           Total(g, T) = IF k \in T THEN Total(h, T) + 1 ELSE Total(h, T)
    BY <1>m, TotalCounted
  <2>2. QED BY <1>2, <2>1
<1>4. Total(h, s..k) \in Nat
  BY <1>2, ItemsOf
<1>5. g[s] > 0
  BY <1>1 DEF Opened, More, Histories
<1>6. QED BY <1>3, <1>4, <1>5 DEF Opened

LEMMA ClosedMore ==
  ASSUME NEW h \in Histories, NEW g \in Histories, NEW k \in Ticks, More(g, h, k),
         NEW limit \in Nat \ {0}, Closed(h, k, limit)
  PROVE  Opened(g, k, k, 1, limit)
<1>1. k <= k /\ k < k + Window /\ k..k = {k} /\ k \in Nat
  BY WindowAssumption, BoundAssumption DEF Ticks
<1>2. /\ Before(k, k) \in SUBSET Ticks /\ Lately(k) \in SUBSET Ticks
      /\ Before(k, k) \in SUBSET Lately(k) /\ k \notin Before(k, k)
  BY <1>1 DEF Before, Lately
<1>3. Total(g, k..k) = 1 /\ g[k] > 0
  BY <1>1, TotalOfOne DEF More, Closed
<1>4. Total(g, Before(k, k)) = Total(h, Before(k, k))
  BY <1>2, TotalCounted DEF More
<1>5. Total(h, Before(k, k)) <= Total(h, Lately(k))
  BY <1>2, TotalOfPart
<1>6. Total(h, Before(k, k)) \in Nat /\ Total(h, Lately(k)) \in Nat
  BY <1>2, ItemsOf
<1>7. QED BY <1>1, <1>3, <1>4, <1>5, <1>6 DEF Opened, Closed

-------------------------------------------------------------------------------
(* The limits. *)

LimitTypes ==
    /\ backend \in {"sqlite", "postgresql"}
    /\ clock \in Ticks
    /\ quota \in [RequestBuckets -> [start : Nat, count : Nat]]
    /\ admitted \in [RequestBuckets -> Histories]
    /\ failures \in [FailureBuckets -> Histories]
    /\ recorded \in [FailureBuckets -> Histories]

\* A bucket of requests is a window that has counted what it should, or none.
Metered(b) ==
    /\ Past(admitted[b], clock)
    /\ IF Over(b)
       THEN Closed(admitted[b], clock, RequestLimit(b))
       ELSE Opened(admitted[b], clock, quota[b].start, quota[b].count, RequestLimit(b))

\* The failures of a bucket that count are stored under t.
Stored(b, t) == Counts(t) /\ failures[b][t] > 0

\* SQLite has a row for each failure that counts.
Slides(b) ==
    /\ \A t \in Ticks : Counts(t) => failures[b][t] = recorded[b][t]
    /\ Total(recorded[b], {t \in Ticks : Counts(t)}) <= FailureLimit(b)

\* PostgreSQL has a row for the window, if there is one.
Windowed(b) ==
    /\ \A t, u \in Ticks : Stored(b, t) /\ Stored(b, u) => t = u
    /\ \A t \in Ticks : Stored(b, t) =>
          Opened(recorded[b], clock, t, failures[b][t], FailureLimit(b))
    /\ (\A t \in Ticks : ~Stored(b, t)) => Closed(recorded[b], clock, FailureLimit(b))

Counted(b) ==
    /\ Past(recorded[b], clock) /\ Past(failures[b], clock)
    /\ IF backend = "sqlite" THEN Slides(b) ELSE Windowed(b)

LimitInv ==
    /\ LimitTypes
    /\ \A b \in RequestBuckets : Metered(b)
    /\ \A b \in FailureBuckets : Counted(b)

LEMMA LimitFacts ==
  /\ \A b : RequestLimit(b) \in Nat \ {0} /\ FailureLimit(b) \in Nat \ {0}
  /\ Window \in Nat \ {0} /\ \A t \in Ticks : t \in Nat
  BY LimitAssumption, WindowAssumption, BoundAssumption
     DEF RequestLimit, FailureLimit, Ticks

LEMMA LimitInvKept ==
  ASSUME LimitInv, UNCHANGED <<backend, clock, quota, admitted, failures, recorded>>
  PROVE  LimitInv'
  BY DEF LimitInv, LimitTypes, Metered, Over, Counted, Slides, Windowed, Stored, Counts

LEMMA LimitInit ==
  ASSUME Init
  PROVE  LimitInv
<1> DEFINE Zero == [t \in Ticks |-> 0]
<1>1. /\ backend \in {"sqlite", "postgresql"} /\ clock = 0
      /\ failures = [b \in FailureBuckets |-> Zero] /\ recorded = failures
      /\ admitted = [b \in RequestBuckets |-> Zero]
      /\ quota = [b \in RequestBuckets |-> NoWindow]
  BY DEF Init
<1>2. 0 \in Ticks /\ Zero \in Histories /\ \A t \in Ticks : Zero[t] = 0
  BY BoundAssumption DEF Ticks, Histories
<1> HIDE DEF Zero
<1>3. ASSUME NEW T \in SUBSET Ticks PROVE Total(Zero, T) = 0
  <2>1. Total(Zero, T) <= Total(Zero, {})
    BY <1>2, TotalOfZeros
  <2>2. Total(Zero, {}) = 0 /\ Total(Zero, T) \in Nat
    BY <1>2, TotalOfNone, ItemsOf
  <2>3. QED BY <2>1, <2>2
<1>4. LimitTypes
  BY <1>1, <1>2 DEF LimitTypes, NoWindow
<1>5. Past(Zero, 0) /\ \A n \in Nat \ {0} : Closed(Zero, 0, n)
  <2>1. Lately(0) \in SUBSET Ticks
    BY DEF Lately
  <2>2. Total(Zero, Lately(0)) = 0
    BY <1>3, <2>1
  <2>3. QED BY <1>2, <2>2 DEF Past, Closed
<1>6. ASSUME NEW b \in RequestBuckets PROVE Metered(b)
  BY <1>1, <1>5, LimitFacts DEF Metered, Over, NoWindow
<1>7. ASSUME NEW b \in FailureBuckets PROVE Counted(b)
  <2>1. \A t \in Ticks : ~Stored(b, t)
    BY <1>1, <1>2 DEF Stored
  <2>2. {t \in Ticks : Counts(t)} \in SUBSET Ticks
    OBVIOUS
  <2>3. Total(Zero, {t \in Ticks : Counts(t)}) = 0
    BY <1>3, <2>2
  <2>4. Total(recorded[b], {t \in Ticks : Counts(t)}) <= FailureLimit(b)
    BY <1>1, <2>3, LimitFacts
  <2>5. Slides(b)
    BY <1>1, <2>4 DEF Slides
  <2>6. Windowed(b)
    BY <1>1, <1>5, <2>1, LimitFacts DEF Windowed
  <2>7. QED BY <1>1, <1>5, <2>5, <2>6 DEF Counted
<1>8. QED BY <1>4, <1>6, <1>7 DEF LimitInv

LEMMA LimitTick ==
  ASSUME LimitInv, Tick
  PROVE  LimitInv'
<1>1. /\ clock' = clock + 1 /\ clock \in Ticks /\ clock + 1 \in Ticks
      /\ UNCHANGED <<backend, quota, admitted, failures, recorded>>
  BY BoundAssumption DEF LimitInv, LimitTypes, Tick, deployed, limits, Ticks
<1>2. LimitTypes'
  BY <1>1 DEF LimitInv, LimitTypes
<1>3. \A h \in Histories : Past(h, clock) => Past(h, clock + 1)
  BY <1>1, LimitFacts DEF Past
<1>4. ASSUME NEW b \in RequestBuckets PROVE Metered(b)'
  <2>1. /\ admitted[b] \in Histories /\ Metered(b) /\ RequestLimit(b) \in Nat
        /\ quota[b].start \in Nat /\ quota[b].count \in Nat
        /\ clock \in Nat /\ Window \in Nat
    BY <1>1, LimitFacts DEF LimitInv, LimitTypes
  <2>2. CASE Over(b)
    <3>1. Over(b)'
      BY <1>1, <2>1, <2>2 DEF Over
    <3>2. Closed(admitted[b], clock + 1, RequestLimit(b))
      BY <1>1, <2>1, <2>2, ClosedTick DEF Metered
    <3>3. QED BY <1>1, <1>3, <2>1, <3>1, <3>2 DEF Metered, RequestLimit
  <2>3. CASE ~Over(b)
    <3>1. Over(b)' <=> ~(clock + 1 < quota[b].start + Window)
      BY <1>1, <2>1, <2>3 DEF Over
    <3>2. IF clock + 1 < quota[b].start + Window
          THEN Opened(admitted[b], clock + 1, quota[b].start, quota[b].count,
                      RequestLimit(b))
          ELSE Closed(admitted[b], clock + 1, RequestLimit(b))
      BY <1>1, <2>1, <2>3, OpenTick DEF Metered
    <3>3. QED BY <1>1, <1>3, <2>1, <3>1, <3>2 DEF Metered, RequestLimit
  <2>4. QED BY <2>2, <2>3
<1>5. ASSUME NEW b \in FailureBuckets PROVE Counted(b)'
  <2>1. /\ recorded[b] \in Histories /\ failures[b] \in Histories /\ Counted(b)
        /\ FailureLimit(b) \in Nat /\ clock \in Nat /\ Window \in Nat
    BY <1>1, LimitFacts DEF LimitInv, LimitTypes
  <2>2. \A t \in Ticks : Counts(t)' => Counts(t)
    BY <1>1, <2>1, LimitFacts DEF Counts
  <2>3. CASE backend = "sqlite"
    <3> DEFINE T == {t \in Ticks : Counts(t)}
               U == {t \in Ticks : Counts(t)'}
    <3>1. T \in SUBSET Ticks /\ U \in SUBSET T /\ U \in SUBSET Ticks
      BY <2>2
    <3>2. Slides(b)
      BY <2>1, <2>3 DEF Counted
    <3>3. Total(recorded[b], T) <= FailureLimit(b)
      BY <3>2 DEF Slides
    <3> HIDE DEF T, U
    <3>4. Total(recorded[b], U) <= Total(recorded[b], T)
      BY <2>1, <3>1, TotalOfPart
    <3>5. Total(recorded[b], U) \in Nat /\ Total(recorded[b], T) \in Nat
      BY <2>1, <3>1, ItemsOf
    <3>6. Total(recorded[b], U) <= FailureLimit(b)
      BY <2>1, <3>3, <3>4, <3>5
    <3>7. Slides(b)'
      BY <1>1, <2>2, <3>2, <3>6 DEF Slides, FailureLimit, U
    <3>8. QED BY <1>1, <1>3, <2>1, <2>3, <3>7 DEF Counted
  <2>4. CASE backend # "sqlite"
    <3>1. Windowed(b) /\ \A t \in Ticks : Stored(b, t)' => Stored(b, t)
      BY <1>1, <2>1, <2>2, <2>4 DEF Counted, Stored
    <3>2. ASSUME NEW t \in Ticks, Stored(b, t)
          PROVE  IF Stored(b, t)'
                 THEN Opened(recorded[b], clock + 1, t, failures[b][t], FailureLimit(b))
                 ELSE Closed(recorded[b], clock + 1, FailureLimit(b))
      <4>1. Stored(b, t)' <=> clock + 1 < t + Window
        BY <1>1, <2>1, <2>4, <3>2, LimitFacts DEF Stored, Counts
      <4>2. Opened(recorded[b], clock, t, failures[b][t], FailureLimit(b))
        BY <3>1, <3>2 DEF Windowed
      <4>3. Past(recorded[b], clock)
        BY <2>1 DEF Counted
      <4>4. QED BY <1>1, <2>1, <4>1, <4>2, <4>3, OpenTick
    <3>3. ASSUME \A t \in Ticks : ~Stored(b, t)
          PROVE  Closed(recorded[b], clock + 1, FailureLimit(b))
      BY <1>1, <2>1, <3>1, <3>3, ClosedTick DEF Windowed, Counted
    <3>4. (\A t \in Ticks : ~Stored(b, t)') =>
             Closed(recorded[b], clock + 1, FailureLimit(b))
      BY <3>2, <3>3
    <3>5. /\ \A t \in Ticks : Stored(b, t)' =>
                Opened(recorded[b], clock + 1, t, failures[b][t], FailureLimit(b))
          /\ \A t, u \in Ticks : Stored(b, t)' /\ Stored(b, u)' => t = u
      BY <3>1, <3>2 DEF Windowed
    <3>6. Windowed(b)'
      BY <1>1, <3>4, <3>5 DEF Windowed, FailureLimit
    <3>7. QED BY <1>1, <1>3, <2>1, <2>4, <3>6 DEF Counted
  <2>5. QED BY <2>3, <2>4
<1>6. QED BY <1>2, <1>4, <1>5 DEF LimitInv

\* What is deleted counts no more.
LEMMA PurgeKeeps ==
  ASSUME LimitInv, NEW B, NEW b \in FailureBuckets
  PROVE  /\ Purge(B) \in [FailureBuckets -> Histories]
         /\ \A t \in Ticks : Counts(t) => Purge(B)[b][t] = failures[b][t]
         /\ Past(Purge(B)[b], clock)
<1>1. failures \in [FailureBuckets -> Histories] /\ Past(failures[b], clock)
  BY DEF LimitInv, LimitTypes, Counted
<1>2. QED BY <1>1 DEF Purge, Histories, Past

LEMMA LimitEnforce ==
  ASSUME LimitInv, NEW c \in Clients, Enforce(c)
  PROVE  LimitInv'
<1>1. CASE UNCHANGED failures
  BY <1>1, LimitInvKept DEF Enforce, deployed
<1>2. CASE failures' = Purge(PurgedBy(c))
  <2>1. UNCHANGED <<backend, clock, quota, admitted, recorded>>
    BY DEF Enforce, deployed
  <2>2. LimitTypes'
    <3>1. "source" \in FailureBuckets
      BY DEF FailureBuckets
    <3>2. failures' \in [FailureBuckets -> Histories]
      BY <1>2, <3>1, PurgeKeeps
    <3>3. QED BY <2>1, <3>2 DEF LimitInv, LimitTypes
  <2>3. ASSUME NEW b \in RequestBuckets PROVE Metered(b)'
    BY <2>1 DEF LimitInv, Metered, Over, RequestLimit
  <2>4. ASSUME NEW b \in FailureBuckets PROVE Counted(b)'
    <3>1. Counted(b) /\ \A t \in Ticks : Counts(t)' <=> Counts(t)
      BY <2>1 DEF LimitInv, Counts
    <3>2. /\ \A t \in Ticks : Counts(t) => failures'[b][t] = failures[b][t]
          /\ Past(failures'[b], clock)
      BY <1>2, PurgeKeeps
    <3>3. \A t \in Ticks : Stored(b, t)' <=> Stored(b, t)
      BY <3>1, <3>2 DEF Stored
    <3>4. CASE backend = "sqlite"
      <4>1. {t \in Ticks : Counts(t)}' = {t \in Ticks : Counts(t)}
        BY <3>1
      <4>2. Slides(b)'
        BY <2>1, <3>1, <3>2, <3>4, <4>1 DEF Counted, Slides, FailureLimit
      <4>3. QED BY <2>1, <3>1, <3>2, <3>4, <4>2 DEF Counted
    <3>5. CASE backend # "sqlite"
      <4>1. Windowed(b)
        BY <3>1, <3>5 DEF Counted
      <4>2. \A t \in Ticks : Stored(b, t) => failures'[b][t] = failures[b][t]
        BY <3>2 DEF Stored
      <4>3. Windowed(b)'
        BY <2>1, <3>3, <4>1, <4>2 DEF Windowed, FailureLimit
      <4>4. QED BY <2>1, <3>1, <3>2, <3>5, <4>3 DEF Counted
    <3>6. QED BY <3>4, <3>5
  <2>5. QED BY <2>2, <2>3, <2>4 DEF LimitInv
<1>3. QED BY <1>1, <1>2 DEF Enforce

\* A bucket counts at most once more at the clock.
LEMMA CountWrites ==
  ASSUME LimitInv, NEW B,
         NEW D, NEW h \in [D -> Histories], NEW b \in D
  PROVE  /\ Count(h, B) \in [D -> Histories]
         /\ b \in B => More(Count(h, B)[b], h[b], clock)
         /\ b \notin B => Count(h, B)[b] = h[b]
         /\ Past(h[b], clock) => Past(Count(h, B)[b], clock)
<1>1. clock \in Ticks /\ clock \in Nat
  BY LimitFacts DEF LimitInv, LimitTypes
<1>2. QED BY <1>1 DEF Count, More, Past, Histories

LEMMA LimitConsume ==
  ASSUME LimitInv, NEW c \in Clients, Consume(c)
  PROVE  LimitInv'
<1>1. UNCHANGED <<backend, clock, failures, recorded>>
  BY DEF Consume, deployed
<1>2. CASE \E b \in RequestBucketsOf(c) : Exhausted(b)
  BY <1>1, <1>2, LimitInvKept DEF Consume
<1>3. CASE ~(\E b \in RequestBucketsOf(c) : Exhausted(b))
  <2> DEFINE B == RequestBucketsOf(c)
  <2>1. /\ quota' = [b \in RequestBuckets |-> IF b \in B THEN Taken(b) ELSE Kept(b)]
        /\ admitted' = Count(admitted, B)
        /\ \A b \in B : ~Exhausted(b)
    BY <1>3 DEF Consume
  <2> HIDE DEF B
  <2>2. /\ quota \in [RequestBuckets -> [start : Nat, count : Nat]]
        /\ clock \in Nat /\ clock \in Ticks /\ Window \in Nat \ {0}
        /\ admitted \in [RequestBuckets -> Histories]
    BY LimitFacts DEF LimitInv, LimitTypes
  <2>3. ASSUME NEW b \in RequestBuckets
        PROVE  /\ Taken(b) \in [start : Nat, count : Nat]
               /\ Taken(b) = IF Over(b) THEN [start |-> clock, count |-> 1]
                             ELSE [start |-> quota[b].start, count |-> quota[b].count + 1]
               /\ Kept(b) \in [start : Nat, count : Nat]
               /\ Kept(b) = quota[b] \/ (Kept(b) = NoWindow /\ Over(b))
    <3>1. /\ quota[b] \in [start : Nat, count : Nat]
          /\ quota[b].start \in Nat /\ quota[b].count \in Nat
          /\ NoWindow \in [start : Nat, count : Nat]
      BY <2>2 DEF NoWindow
    <3>2. /\ Taken(b) = IF Over(b) THEN [start |-> clock, count |-> 1]
                        ELSE [start |-> quota[b].start, count |-> quota[b].count + 1]
          /\ Taken(b) \in [start : Nat, count : Nat]
      BY <2>2, <3>1 DEF Taken
    <3>3. Kept(b) = quota[b] \/ (Kept(b) = NoWindow /\ Over(b))
      <4>1. clock \in Nat /\ Window \in Nat
        BY <2>2
      <4>2. quota[b].start + Window < clock => quota[b].start + Window <= clock
        BY <3>1, <4>1
      <4>3. QED BY <4>2 DEF Kept, Over
    <3>4. QED BY <3>1, <3>2, <3>3
  <2>4. quota' \in [RequestBuckets -> [start : Nat, count : Nat]]
    BY <2>1, <2>3
  <2>5. admitted' \in [RequestBuckets -> Histories]
    <3>1. CASE RequestBuckets = {}
      BY <2>1, <2>2, <3>1 DEF Count
    <3>2. CASE RequestBuckets # {}
      BY <2>1, <2>2, <3>2, CountWrites
    <3>3. QED BY <3>1, <3>2
  <2>6. LimitTypes'
    BY <1>1, <2>4, <2>5 DEF LimitInv, LimitTypes
  <2>7. ASSUME NEW b \in RequestBuckets PROVE Metered(b)'
    <3>1. /\ Metered(b) /\ RequestLimit(b) \in Nat \ {0}
          /\ admitted[b] \in Histories /\ admitted'[b] \in Histories
          /\ Past(admitted'[b], clock)
      BY <2>1, <2>2, <2>5, LimitFacts, CountWrites DEF LimitInv, Metered
    <3>2. CASE b \in B
      <4>1. More(admitted'[b], admitted[b], clock) /\ ~Exhausted(b)
        BY <2>1, <2>2, <3>2, CountWrites
      <4>2. quota'[b] = Taken(b)
        BY <2>1, <3>2
      <4>3. CASE Over(b)
        <5>1. quota'[b].start = clock /\ quota'[b].count = 1
          BY <2>3, <4>2, <4>3
        <5>2. Opened(admitted'[b], clock, clock, 1, RequestLimit(b))
          BY <2>2, <3>1, <4>1, <4>3, ClosedMore DEF Metered
        <5>3. ~Over(b)'
          BY <1>1, <2>2, <5>1 DEF Over
        <5>4. QED BY <1>1, <3>1, <5>1, <5>2, <5>3 DEF Metered, RequestLimit
      <4>4. CASE ~Over(b)
        <5>1. quota'[b].start = quota[b].start /\ quota'[b].count = quota[b].count + 1
          BY <2>3, <4>2, <4>4
        <5>2. quota[b].count < RequestLimit(b)
          BY <2>2, <3>1, <4>1, <4>4 DEF Exhausted
        <5>3. Opened(admitted'[b], clock, quota[b].start, quota[b].count + 1,
                     RequestLimit(b))
          BY <2>2, <3>1, <4>1, <4>4, <5>2, OpenMore DEF Metered
        <5>4. ~Over(b)'
          BY <1>1, <2>2, <4>4, <5>1 DEF Over
        <5>5. QED BY <1>1, <3>1, <5>1, <5>3, <5>4 DEF Metered, RequestLimit
      <4>5. QED BY <4>3, <4>4
    <3>3. CASE b \notin B
      <4>1. admitted'[b] = admitted[b] /\ quota'[b] = Kept(b)
        BY <2>1, <2>2, <3>3, CountWrites
      <4>2. Over(b)' <=> Over(b)
        BY <1>1, <2>2, <2>3, <4>1 DEF Over, NoWindow
      <4>3. ~Over(b) => quota'[b] = quota[b]
        BY <2>3, <4>1
      <4>4. QED BY <1>1, <3>1, <4>1, <4>2, <4>3 DEF Metered, RequestLimit
    <3>4. QED BY <3>2, <3>3
  <2>8. ASSUME NEW b \in FailureBuckets PROVE Counted(b)'
    BY <1>1 DEF LimitInv, Counted, Slides, Windowed, Stored, Counts, FailureLimit
  <2>9. QED BY <2>6, <2>7, <2>8 DEF LimitInv
<1>4. QED BY <1>2, <1>3

\* A failure recorded in a bucket that SQLite keeps.
LEMMA SlidesMore ==
  ASSUME LimitInv, backend = "sqlite", NEW b \in FailureBuckets,
         FailureCount(b) < FailureLimit(b), UNCHANGED <<backend, clock>>,
         NEW kept \in Histories, \A t \in Ticks : Counts(t) => kept[t] = failures[b][t],
         Past(kept, clock), failures'[b] = [kept EXCEPT ![clock] = @ + 1],
         recorded'[b] \in Histories, More(recorded'[b], recorded[b], clock),
         Past(recorded'[b], clock)
  PROVE  Counted(b)'
<1> DEFINE T == {t \in Ticks : Counts(t)}
<1>1. /\ clock \in Ticks /\ clock \in Nat /\ Window \in Nat /\ FailureLimit(b) \in Nat
      /\ failures[b] \in Histories /\ recorded[b] \in Histories /\ Slides(b)
  BY LimitFacts DEF LimitInv, LimitTypes, Counted
<1>2. T \in SUBSET Ticks /\ clock \in T
  BY <1>1 DEF Counts
<1>3. Total(recorded[b], T) = Total(failures[b], T)
  BY <1>1, <1>2, TotalOfSame DEF Slides
<1>4. Total(failures[b], T) < FailureLimit(b)
  BY DEF FailureCount
<1>5. Total(recorded'[b], T) = Total(recorded[b], T) + 1
  BY <1>1, <1>2, TotalCounted DEF More
<1>6. \A t \in Ticks : Counts(t)' <=> Counts(t)
  BY DEF Counts
<1>7. {t \in Ticks : Counts(t)}' = T
  BY <1>6
<1>8. Total(recorded[b], T) \in Nat
  BY <1>1, <1>2, ItemsOf
<1> HIDE DEF T
<1>9. Total(recorded'[b], T) <= FailureLimit(b)
  BY <1>1, <1>3, <1>4, <1>5, <1>8
<1>10. \A t \in Ticks : Counts(t) => failures'[b][t] = recorded'[b][t]
  BY <1>1 DEF Slides, More, Histories
<1>11. Slides(b)'
  BY <1>6, <1>7, <1>9, <1>10 DEF Slides, FailureLimit
<1>12. Past(failures'[b], clock)
  BY <1>1 DEF Past, Histories
<1>13. QED BY <1>11, <1>12 DEF Counted

\* A failure recorded in a bucket that PostgreSQL keeps.
LEMMA WindowedMore ==
  ASSUME LimitInv, backend # "sqlite", NEW b \in FailureBuckets,
         FailureCount(b) < FailureLimit(b), UNCHANGED <<backend, clock>>,
         NEW kept \in Histories, \A t \in Ticks : Counts(t) => kept[t] = failures[b][t],
         Past(kept, clock), failures'[b] = [kept EXCEPT ![StoredUnder(b)] = @ + 1],
         recorded'[b] \in Histories, More(recorded'[b], recorded[b], clock),
         Past(recorded'[b], clock)
  PROVE  Counted(b)'
<1>1. /\ clock \in Ticks /\ clock \in Nat /\ Window \in Nat \ {0}
      /\ FailureLimit(b) \in Nat \ {0} /\ backend = "postgresql"
      /\ failures[b] \in Histories /\ recorded[b] \in Histories /\ Windowed(b)
  BY LimitFacts DEF LimitInv, LimitTypes, Counted
<1>2. \A t \in Ticks : Counts(t)' <=> Counts(t)
  BY DEF Counts
<1>3. CASE \E t \in Ticks : Stored(b, t)
  <2>1. PICK s \in Ticks : Stored(b, s)
    BY <1>3
  <2>2. \A t \in Ticks : Stored(b, t) => t = s
    BY <1>1, <2>1 DEF Windowed
  <2>3. StoredUnder(b) = s
    BY <1>1, <2>1, <2>2 DEF StoredUnder, Stored
  <2>4. failures[b][s] < FailureLimit(b)
    <3> DEFINE T == {t \in Ticks : Counts(t)}
    <3>1. {s} \in SUBSET T /\ T \in SUBSET Ticks
      BY <2>1 DEF Stored
    <3> HIDE DEF T
    <3>2. Total(failures[b], {s}) <= Total(failures[b], T)
      BY <1>1, <3>1, TotalOfPart
    <3>3. Total(failures[b], {s}) = failures[b][s] /\ failures[b][s] \in Nat
      BY <1>1, <2>1, TotalOfOne DEF Histories
    <3>4. Total(failures[b], T) \in Nat
      BY <1>1, <3>1, ItemsOf
    <3>5. Total(failures[b], T) < FailureLimit(b)
      BY DEF FailureCount, T
    <3>6. QED BY <1>1, <3>2, <3>3, <3>4, <3>5
  <2>5. Opened(recorded[b], clock, s, failures[b][s], FailureLimit(b))
    BY <1>1, <2>1 DEF Windowed
  <2>6. Opened(recorded'[b], clock, s, failures[b][s] + 1, FailureLimit(b))
    BY <1>1, <2>4, <2>5, OpenMore
  <2>7. /\ failures'[b][s] = failures[b][s] + 1
        /\ \A t \in Ticks \ {s} : failures'[b][t] = kept[t]
    BY <2>1, <2>3 DEF Stored, Histories
  <2>8. \A t \in Ticks : Stored(b, t)' => t = s
    BY <1>2, <2>2, <2>7 DEF Stored
  <2>9. Stored(b, s)'
    BY <1>1, <2>1, <2>7 DEF Stored, Histories, Counts
  <2>10. Windowed(b)'
    BY <2>6, <2>7, <2>8, <2>9 DEF Windowed, FailureLimit
  <2>11. Past(failures'[b], clock)
    <3>1. s <= clock /\ s \in Nat
      BY <2>5, LimitFacts DEF Opened
    <3>2. QED BY <1>1, <2>7, <3>1, LimitFacts DEF Past
  <2>12. QED BY <1>1, <2>10, <2>11 DEF Counted
<1>4. CASE \A t \in Ticks : ~Stored(b, t)
  <2>1. StoredUnder(b) = clock
    BY <1>1, <1>4 DEF StoredUnder, Stored
  <2>2. Counts(clock)
    BY <1>1 DEF Counts
  <2>3. failures[b][clock] = 0 /\ kept[clock] = 0
    BY <1>1, <1>4, <2>2 DEF Stored, Histories
  <2>4. /\ failures'[b][clock] = 1
        /\ \A t \in Ticks \ {clock} : failures'[b][t] = kept[t]
    BY <1>1, <2>1, <2>3 DEF Histories
  <2>5. Closed(recorded[b], clock, FailureLimit(b))
    BY <1>1, <1>4 DEF Windowed
  <2>6. Opened(recorded'[b], clock, clock, 1, FailureLimit(b))
    BY <1>1, <2>5, ClosedMore
  <2>7. \A t \in Ticks : Stored(b, t)' => t = clock
    BY <1>2, <1>4, <2>4 DEF Stored
  <2>8. Stored(b, clock)'
    BY <2>2, <2>4 DEF Stored, Counts
  <2>9. Windowed(b)'
    BY <1>1, <2>4, <2>6, <2>7, <2>8 DEF Windowed, FailureLimit
  <2>10. Past(failures'[b], clock)
    BY <1>1, <2>4, LimitFacts DEF Past
  <2>11. QED BY <1>1, <2>9, <2>10 DEF Counted
<1>5. QED BY <1>3, <1>4

LEMMA LimitRecord ==
  ASSUME LimitInv, NEW c \in Clients, Record(c)
  PROVE  LimitInv'
<1>1. UNCHANGED <<backend, clock, quota, admitted>>
  BY DEF Record, deployed
<1>2. CASE Limited(c)
  BY <1>1, <1>2, LimitInvKept DEF Record
<1>3. CASE ~Limited(c)
  <2> DEFINE B == FailureBucketsOf(c)
             kept == Purge(PurgedBy(c))
  <2>1. /\ failures' = [b \in FailureBuckets |->
               IF b \in B THEN [kept[b] EXCEPT ![StoredUnder(b)] = @ + 1] ELSE kept[b]]
        /\ recorded' = Count(recorded, B)
    BY <1>3 DEF Record
  <2>2. \A b \in B : ~(FailureCount(b) >= FailureLimit(b))
    BY <1>3 DEF Limited
  <2>3. ASSUME NEW b \in FailureBuckets
        PROVE  /\ kept[b] \in Histories /\ Past(kept[b], clock)
               /\ \A t \in Ticks : Counts(t) => kept[b][t] = failures[b][t]
    BY PurgeKeeps
  <2>4. recorded \in [FailureBuckets -> Histories] /\ clock \in Ticks
    BY DEF LimitInv, LimitTypes
  <2> HIDE DEF B, kept
  <2>5. ASSUME NEW b \in FailureBuckets
        PROVE  /\ recorded'[b] \in Histories /\ Past(recorded'[b], clock)
               /\ recorded' \in [FailureBuckets -> Histories]
               /\ b \in B => More(recorded'[b], recorded[b], clock)
               /\ b \notin B => recorded'[b] = recorded[b]
    BY <2>1, <2>4, CountWrites DEF LimitInv, Counted
  <2>6. ASSUME NEW b \in FailureBuckets PROVE failures'[b] \in Histories
    <3>1. PICK K \in Histories : K = kept[b]
      BY <2>3
    <3>2. failures'[b] = [K EXCEPT ![StoredUnder(b)] = @ + 1] \/ failures'[b] = K
      BY <2>1, <3>1
    <3>3. QED BY <3>1, <3>2 DEF Histories
  <2>7. LimitTypes'
    <3>1. failures' \in [FailureBuckets -> Histories]
      BY <2>1, <2>6
    <3>2. recorded' \in [FailureBuckets -> Histories]
      BY <2>1, <2>4, <2>5 DEF Count
    <3>3. QED BY <1>1, <3>1, <3>2 DEF LimitInv, LimitTypes
  <2>8. ASSUME NEW b \in RequestBuckets PROVE Metered(b)'
    BY <1>1 DEF LimitInv, Metered, Over, RequestLimit
  <2>9. ASSUME NEW b \in FailureBuckets PROVE Counted(b)'
    <3>k. PICK K \in Histories : K = kept[b]
      BY <2>3
    <3>1. CASE b \in B
      <4>1. FailureCount(b) < FailureLimit(b)
        <5>1. {t \in Ticks : Counts(t)} \in SUBSET Ticks /\ failures[b] \in Histories
          BY DEF LimitInv, LimitTypes
        <5>2. FailureCount(b) \in Nat /\ FailureLimit(b) \in Nat
          BY <5>1, ItemsOf, LimitFacts DEF FailureCount
        <5>3. QED BY <2>2, <3>1, <5>2
      <4>2. failures'[b] = [K EXCEPT ![StoredUnder(b)] = @ + 1]
        BY <2>1, <3>1, <3>k
      <4>3. /\ Past(K, clock) /\ \A t \in Ticks : Counts(t) => K[t] = failures[b][t]
            /\ recorded'[b] \in Histories /\ Past(recorded'[b], clock)
            /\ More(recorded'[b], recorded[b], clock) /\ UNCHANGED <<backend, clock>>
        BY <1>1, <2>3, <2>5, <3>1, <3>k
      <4>4. CASE backend = "sqlite"
        <5>1. StoredUnder(b) = clock
          BY <4>4 DEF StoredUnder
        <5>2. QED BY <4>1, <4>2, <4>3, <4>4, <5>1, SlidesMore
      <4>5. CASE backend # "sqlite"
        BY <4>1, <4>2, <4>3, <4>5, WindowedMore
      <4>6. QED BY <4>4, <4>5
    <3>2. CASE b \notin B
      <4>1. failures'[b] = K /\ recorded'[b] = recorded[b]
        BY <2>1, <2>5, <3>2, <3>k
      <4>2. \A t \in Ticks : Counts(t) => failures'[b][t] = failures[b][t]
        BY <2>3, <3>k, <4>1
      <4>3. Counted(b) /\ \A t \in Ticks : Counts(t)' <=> Counts(t)
        BY <1>1 DEF LimitInv, Counts
      <4>4. \A t \in Ticks : Stored(b, t)' <=> Stored(b, t)
        BY <4>2, <4>3 DEF Stored
      <4>5. CASE backend = "sqlite"
        <5>1. {t \in Ticks : Counts(t)}' = {t \in Ticks : Counts(t)}
          BY <4>3
        <5>2. Slides(b)'
          BY <1>1, <4>1, <4>2, <4>3, <4>5, <5>1 DEF Counted, Slides, FailureLimit
        <5>3. QED BY <1>1, <2>3, <2>5, <3>k, <4>1, <4>5, <5>2 DEF Counted
      <4>6. CASE backend # "sqlite"
        <5>1. Windowed(b)
          BY <4>3, <4>6 DEF Counted
        <5>2. \A t \in Ticks : Stored(b, t) => failures'[b][t] = failures[b][t]
          BY <4>2 DEF Stored
        <5>3. Windowed(b)'
          BY <1>1, <4>1, <4>4, <5>1, <5>2 DEF Windowed, FailureLimit
        <5>4. QED BY <1>1, <2>3, <2>5, <3>k, <4>1, <4>6, <5>3 DEF Counted
      <4>7. QED BY <4>5, <4>6
    <3>3. QED BY <3>1, <3>2
  <2>10. QED BY <2>7, <2>8, <2>9 DEF LimitInv
<1>4. QED BY <1>2, <1>3

LEMMA LimitNext == LimitInv /\ [Next]_vars => LimitInv'
<1> SUFFICES ASSUME LimitInv, [Next]_vars PROVE LimitInv'
  OBVIOUS
<1>1. CASE UNCHANGED vars
  BY <1>1, LimitInvKept DEF vars, deployed, limits
<1>2. ASSUME NEW c \in Clients, Step(c) PROVE LimitInv'
  <2>1. CASE \E kind \in Kinds, key \in Keys : Begin(c, kind, key)
    BY <2>1, LimitInvKept DEF Begin, deployed, limits
  <2>2. CASE RefuseUsername(c) \/ Create(c) \/ Authenticate(c) \/ Rotate(c)
    BY <2>2, LimitInvKept DEF RefuseUsername, Create, Authenticate, Rotate, deployed, limits
  <2>3. CASE Receive(c) \/ Verify(c) \/ Revoke(c) \/ Deny(c)
    BY <2>3, LimitInvKept DEF Receive, Verify, Revoke, Deny, deployed, limits
  <2>4. QED BY <1>2, <2>1, <2>2, <2>3, LimitEnforce, LimitRecord, LimitConsume DEF Step
<1>3. CASE Restart
  BY <1>3, LimitInvKept DEF Restart, deployed, limits
<1>4. QED BY <1>1, <1>2, <1>3, LimitTick DEF Next

\* The buckets of the limits count what they should, window by window.
THEOREM LimitInvariant == Spec => []LimitInv
<1>1. Init => LimitInv
  BY LimitInit
<1>2. QED BY <1>1, LimitNext, PTL DEF Spec

\* An open window of a quota has counted all that was admitted since it began,
\* and no interval as long as a window admits twice the limit.
THEOREM QuotaKept == Spec => []QuotaIsKept
<1>1. ASSUME LimitInv, NEW b \in RequestBuckets
      PROVE  /\ ~Over(b) => quota[b].count = Recent(admitted[b], clock + 1 - quota[b].start)
             /\ Recent(admitted[b], Window) <= 2 * RequestLimit(b) - 1
  <2>1. /\ clock \in Ticks /\ clock \in Nat /\ admitted[b] \in Histories /\ Metered(b)
        /\ quota[b].start \in Nat /\ RequestLimit(b) \in Nat \ {0} /\ MaxClock \in Nat
    <3>1. clock \in Ticks /\ admitted[b] \in Histories /\ quota[b].start \in Nat
      BY <1>1 DEF LimitInv, LimitTypes
    <3>m. Metered(b)
      BY <1>1 DEF LimitInv
    <3>2. QED BY <3>1, <3>m, LimitFacts, BoundAssumption
  <2>2. Recent(admitted[b], Window) = Total(admitted[b], Lately(clock))
    BY DEF Recent, Lately
  <2>3. CASE Over(b)
    <3>1. Total(admitted[b], Lately(clock)) <= RequestLimit(b) - 1
      BY <2>1, <2>3 DEF Metered, Closed
    <3>2. Lately(clock) \in SUBSET Ticks
      BY DEF Lately
    <3>3. Total(admitted[b], Lately(clock)) \in Nat
      BY <2>1, <3>2, ItemsOf
    <3>4. QED BY <2>1, <2>2, <2>3, <3>1, <3>3
  <2>4. CASE ~Over(b)
    <3>1. Opened(admitted[b], clock, quota[b].start, quota[b].count, RequestLimit(b))
      BY <2>1, <2>4 DEF Metered
    <3>2. Total(admitted[b], Lately(clock)) <= 2 * RequestLimit(b) - 1
      BY <2>1, <3>1, OpenBound
    <3>3. {t \in Ticks : t <= clock /\ clock < t + (clock + 1 - quota[b].start)}
            = quota[b].start..clock
      BY <2>1, <3>1 DEF Opened, Ticks
    <3>4. quota[b].count = Recent(admitted[b], clock + 1 - quota[b].start)
      BY <3>1, <3>3 DEF Opened, Recent
    <3>5. QED BY <2>2, <3>2, <3>4
  <2>5. QED BY <2>3, <2>4
<1>2. LimitInv => QuotaIsKept
  BY <1>1 DEF QuotaIsKept
<1>3. QED BY <1>2, LimitInvariant, PTL

\* However many failures are under way together, a bucket never records more
\* than its limit in a window of SQLite, nor twice the limit in one of
\* PostgreSQL.
THEOREM FailuresLimited == Spec => []FailuresAreLimited
<1>1. ASSUME LimitInv, NEW b \in FailureBuckets
      PROVE  IF backend = "sqlite"
             THEN Recent(recorded[b], Window + 1) <= FailureLimit(b)
             ELSE Recent(recorded[b], Window) <= 2 * FailureLimit(b) - 1
  <2>1. /\ clock \in Ticks /\ clock \in Nat /\ recorded[b] \in Histories /\ Counted(b)
        /\ FailureLimit(b) \in Nat \ {0} /\ Window \in Nat /\ Lately(clock) \in SUBSET Ticks
    <3>1. clock \in Ticks /\ recorded[b] \in Histories /\ Counted(b)
      BY <1>1 DEF LimitInv, LimitTypes
    <3>2. Lately(clock) \in SUBSET Ticks
      BY DEF Lately
    <3>3. QED BY <3>1, <3>2, LimitFacts
  <2>2. CASE backend = "sqlite"
    <3> DEFINE T == {t \in Ticks : Counts(t)}
               U == {t \in Ticks : t <= clock /\ clock < t + (Window + 1)}
    <3>1. U \in SUBSET T /\ T \in SUBSET Ticks /\ U \in SUBSET Ticks
      <4>1. ASSUME NEW t \in Ticks, t <= clock, clock < t + (Window + 1)
            PROVE  t + Window >= clock
        BY <2>1, <4>1, LimitFacts
      <4>2. QED BY <2>2, <4>1 DEF Counts
    <3>2. Total(recorded[b], T) <= FailureLimit(b)
      BY <2>1, <2>2 DEF Counted, Slides
    <3>3. Recent(recorded[b], Window + 1) = Total(recorded[b], U)
      BY DEF Recent
    <3> HIDE DEF T, U
    <3>4. Total(recorded[b], U) <= Total(recorded[b], T)
      BY <2>1, <3>1, TotalOfPart
    <3>5. Total(recorded[b], U) \in Nat /\ Total(recorded[b], T) \in Nat
      BY <2>1, <3>1, ItemsOf
    <3>6. QED BY <2>1, <2>2, <3>2, <3>3, <3>4, <3>5
  <2>3. CASE backend # "sqlite"
    <3>1. Recent(recorded[b], Window) = Total(recorded[b], Lately(clock))
      BY DEF Recent, Lately
    <3>2. Windowed(b)
      BY <2>1, <2>3 DEF Counted
    <3>3. CASE \E t \in Ticks : Stored(b, t)
      BY <2>1, <2>3, <3>1, <3>2, <3>3, OpenBound DEF Windowed
    <3>4. CASE \A t \in Ticks : ~Stored(b, t)
      <4>1. Total(recorded[b], Lately(clock)) <= FailureLimit(b) - 1
        BY <3>2, <3>4 DEF Windowed, Closed
      <4>2. Total(recorded[b], Lately(clock)) \in Nat
        BY <2>1, ItemsOf
      <4>3. QED BY <2>1, <2>3, <3>1, <4>1, <4>2
    <3>5. QED BY <3>3, <3>4
  <2>4. QED BY <2>2, <2>3
<1>2. LimitInv => FailuresAreLimited
  BY <1>1 DEF FailuresAreLimited
<1>3. QED BY <1>2, LimitInvariant, PTL

===============================================================================
