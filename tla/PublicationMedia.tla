-------------------------- MODULE PublicationMedia --------------------------
(***************************************************************************)
(* The image that a run publishes on Instagram.  An operator attaches it   *)
(* before the Greenlight: its bytes are reserved in the media store, in a  *)
(* transaction of their own, and the run is then saved with an artifact    *)
(* that carries the signed address from which the provider fetches them.   *)
(* When the save fails, the reservation is revoked; when the process dies  *)
(* between the two, a retry finds the reservation again.                   *)
(*                                                                         *)
(* A binding stands for what a command binds: the run, the image, its alt  *)
(* text and who attests the rights.  Tenant and channel are fixed; a media *)
(* object is identified by its binding.  A replica serves one command at a *)
(* time under the lock of its service; PostgreSQL has several replicas.    *)
(* The other commands that save a run awaiting its Greenlight are there    *)
(* too: the decision, and the attachment of a model effect's output.       *)
(***************************************************************************)
EXTENDS Naturals, FiniteSets

CONSTANTS
    Replicas,
    Primary,      \* the replica of a SQLite installation
    Runs,         \* runs whose brief has Instagram among its platforms
    Bindings,
    RunOf,        \* binding -> its run
    ImageOf,      \* binding -> the bytes of its image
    Keys,         \* idempotency keys
    Rings,        \* [keys, active]: the signing keys of a process
    None,         \* absence of a value
    Ttl,          \* public_media_ttl_seconds
    MaxClock,     \* bound on the clock
    MaxCrashes    \* bound on the crashes

ASSUME ReplicaAssumption == Primary \in Replicas
ASSUME BindingAssumption == RunOf \in [Bindings -> Runs]
ASSUME BoundAssumption == {MaxClock, MaxCrashes} \subseteq Nat /\ Ttl \in Nat \ {0}

\* The rings with which a process starts; with another it does not.
Accepted == {ring \in Rings : ring.active \in ring.keys}

\* Rows of publication_media_objects.
MediaRows == [media : Bindings, key : Keys, signer : {ring.active : ring \in Accepted},
              expires : Nat, revoked : BOOLEAN]

ASSUME NoneAssumption == None \notin MediaRows

VARIABLES
    backend,    \* "sqlite" or "postgresql"
    rings,      \* replica -> its signing keys
    now,
    runs,       \* run -> [status, artifacts, approved]
    media,      \* publication_media_objects: binding -> row, or None
    receipts,   \* key -> binding of the attachment recorded under it, or None
    pc,         \* replica -> what it does next
    job,        \* replica -> the command it serves
    unanswered, \* ghost: bindings saved by a commit whose answer was lost
    overwritten, \* ghost: runs whose images the save of an output has changed
    crashes

history == <<unanswered, overwritten>>
commands == <<pc, job>>
vars == <<backend, rings, now, runs, media, receipts, commands, history, crashes>>

Idle == [key |-> None, run |-> None, binding |-> None, artifacts |-> {}, row |-> None,
         created |-> FALSE]

Init ==
    /\ backend \in {"sqlite", "postgresql"}
    /\ rings \in [Replicas -> Accepted]
    /\ now = 0
    /\ runs = [r \in Runs |-> [status |-> "awaiting", artifacts |-> {}, approved |-> {}]]
    /\ media = [b \in Bindings |-> None]
    /\ receipts = [k \in Keys |-> None]
    /\ pc = [p \in Replicas |-> "idle"]
    /\ job = [p \in Replicas |-> Idle]
    /\ unanswered = {}
    /\ overwritten = {}
    /\ crashes = 0

Goto(p, next) == pc' = [pc EXCEPT ![p] = next]

Finish(p) ==
    /\ Goto(p, "idle")
    /\ job' = [job EXCEPT ![p] = Idle]

Serves(p) ==
    /\ pc[p] = "idle"
    /\ backend = "sqlite" => p = Primary

\* What is signed: whoever has the address can fetch the bytes.
Token(row) == <<row.signer, row.media, row.expires>>

Live(row) == ~row.revoked /\ row.expires > now

\* GET .../public/{token}: whether the address is answered with the bytes.
Resolves(token) ==
    \E b \in Bindings : /\ media[b] # None
                        /\ Token(media[b]) = token
                        /\ Live(media[b])

-------------------------------------------------------------------------------
(* Attaching: POST .../publication-media/{channel}. *)

\* Slip: the lock of the run and channel is not taken.
FreeForKey(p, k, b) ==
    \A q \in Replicas : pc[q] \in {"replay", "read", "reserve", "sign", "save", "compensate"} =>
        job[q].key # k

\* The lock of the command and the lock of the run and channel are free.
Free(p, k, b) ==
    \A q \in Replicas : pc[q] \in {"replay", "read", "reserve", "sign", "save", "compensate"} =>
        job[q].key # k /\ RunOf[job[q].binding] # RunOf[b]

\* What the command says; its binding digest is that of the run, the image
\* and the text.
Command(k, b) == [Idle EXCEPT !.key = k, !.run = RunOf[b], !.binding = b]

Attach(p, k, b) ==
    /\ Serves(p)
    /\ Free(p, k, b)
    /\ job' = [job EXCEPT ![p] = Command(k, b)]
    /\ Goto(p, "replay")
    /\ UNCHANGED <<backend, rings, now, runs, media, receipts, history, crashes>>

\* A command with a receipt is answered from it, or refused when it differs.
Replay(p) ==
    /\ pc[p] = "replay"
    /\ IF receipts[job[p].key] = None
       THEN Goto(p, "read") /\ UNCHANGED job
       ELSE Finish(p)
    /\ UNCHANGED <<backend, rings, now, runs, media, receipts, history, crashes>>

Proposed(p) ==
    [media |-> job[p].binding, key |-> job[p].key, signer |-> rings[p].active,
     expires |-> now + Ttl, revoked |-> FALSE]

\* The run awaits its Greenlight and carries no other image.
Read(p) ==
    /\ pc[p] = "read"
    /\ LET run == runs[job[p].run] IN
       IF /\ run.status = "awaiting"
          /\ \A a \in run.artifacts : a.media = job[p].binding
       THEN /\ job' = [job EXCEPT ![p].artifacts = run.artifacts, ![p].row = Proposed(p)]
            /\ Goto(p, "reserve")
       ELSE Finish(p)
    /\ UNCHANGED <<backend, rings, now, runs, media, receipts, history, crashes>>

\* Rows of the same media object or reserved under the same key.
Found(p) ==
    LET ofKey == {b \in Bindings : media[b] # None /\ media[b].key = job[p].key}
        same == {b \in {job[p].binding} : media[b] # None}
    IN  IF backend = "postgresql" /\ ofKey # {} THEN ofKey ELSE ofKey \cup same

\* What identifies the bytes of an image that was validated.
Digest(b) == ImageOf[b]

\* A run has one row of an image.
Conflicts(p) ==
    \E b \in Bindings : /\ media[b] # None
                        /\ RunOf[b] = job[p].run
                        /\ Digest(b) = Digest(job[p].binding)

Insert(p) ==
    /\ pc[p] = "reserve"
    /\ Found(p) = {}
    /\ IF Conflicts(p)
       THEN Finish(p) /\ UNCHANGED media
       ELSE /\ media' = [media EXCEPT ![job[p].binding] = job[p].row]
            /\ job' = [job EXCEPT ![p].created = TRUE]
            /\ Goto(p, "sign")
    /\ UNCHANGED <<backend, rings, now, runs, receipts, history, crashes>>

\* The row is taken as it is: revoked or expired too.
Reuse(p) ==
    /\ pc[p] = "reserve"
    /\ \E b \in Found(p) :
         IF b = job[p].binding
         THEN /\ job' = [job EXCEPT ![p].row = media[b]]
              /\ Goto(p, "sign")
         ELSE Finish(p)
    /\ UNCHANGED <<backend, rings, now, runs, media, receipts, history, crashes>>

\* Slip: signed as the request proposed it, not as the row has it.
ArtifactProposed(p) ==
    [media |-> job[p].binding, signer |-> rings[p].active, expires |-> job[p].row.expires]

\* The address is signed again with the key and the expiry of the row.
NewArtifact(p) ==
    [media |-> job[p].binding, signer |-> job[p].row.signer, expires |-> job[p].row.expires]

\* The key of the row may be gone, or the run carry the image at another address.
Sign(p) ==
    /\ pc[p] = "sign"
    /\ IF /\ NewArtifact(p).signer \in rings[p].keys
          /\ job[p].artifacts \subseteq {NewArtifact(p)}
       THEN /\ job' = [job EXCEPT ![p].artifacts = {NewArtifact(p)}]
            /\ Goto(p, "save")
       ELSE Finish(p)
    /\ UNCHANGED <<backend, rings, now, runs, media, receipts, history, crashes>>

\* expected_status
Awaiting(p) == runs[job[p].run].status = "awaiting"

\* The event of the attachment is its receipt.
Receipt(p) ==
    /\ receipts[job[p].key] = None
    /\ receipts' = [receipts EXCEPT ![job[p].key] = job[p].binding]

\* The whole document of the run is replaced, and the receipt recorded with it.
Store(p) ==
    /\ pc[p] = "save"
    /\ Awaiting(p)
    /\ Receipt(p)
    /\ runs' = [runs EXCEPT ![job[p].run].artifacts = job[p].artifacts]

Save(p) ==
    /\ Store(p)
    /\ Finish(p)
    /\ UNCHANGED <<backend, rings, now, media, history, crashes>>

\* Slip: what another command has reserved is compensated too.
OwnsAll(p) == TRUE

\* Only the command that has created the reservation takes it back.
Owns(p) == job[p].created

Compensated(p) == IF Owns(p) THEN Goto(p, "compensate") /\ UNCHANGED job ELSE Finish(p)

\* The run was decided meanwhile, or the database fails.
SaveFails(p) ==
    /\ pc[p] = "save"
    /\ Compensated(p)
    /\ UNCHANGED <<backend, rings, now, runs, media, receipts, history, crashes>>

\* PostgreSQL has committed, and the connection fails before it says so.
SaveUnanswered(p) ==
    /\ backend = "postgresql"
    /\ Store(p)
    /\ Compensated(p)
    /\ unanswered' = unanswered \cup {job[p].binding}
    /\ UNCHANGED <<backend, rings, now, media, overwritten, crashes>>

Compensate(p) ==
    /\ pc[p] = "compensate"
    /\ media' = [media EXCEPT ![job[p].binding].revoked = TRUE]
    /\ Finish(p)
    /\ UNCHANGED <<backend, rings, now, runs, receipts, history, crashes>>

\* A failure of the compensation is logged; the row stays.
CompensationFails(p) ==
    /\ pc[p] = "compensate"
    /\ Finish(p)
    /\ UNCHANGED <<backend, rings, now, runs, media, receipts, history, crashes>>

-------------------------------------------------------------------------------
(* The Greenlight. *)

Decide(p, r) ==
    /\ Serves(p)
    /\ runs[r].status = "awaiting"
    /\ job' = [job EXCEPT ![p] = [Idle EXCEPT !.run = r, !.artifacts = runs[r].artifacts]]
    /\ Goto(p, "decide")
    /\ UNCHANGED <<backend, rings, now, runs, media, receipts, history, crashes>>

\* Slip: the decision is written into the run as it is now.
DecidedLatest(p) ==
    [status |-> "decided", artifacts |-> runs[job[p].run].artifacts,
     approved |-> job[p].artifacts]

\* The decision lists the artifacts that it has read, and saves them with it.
Decided(p) ==
    [status |-> "decided", artifacts |-> job[p].artifacts, approved |-> job[p].artifacts]

SaveDecision(p) ==
    /\ pc[p] = "decide"
    /\ runs' = IF Awaiting(p) THEN [runs EXCEPT ![job[p].run] = Decided(p)] ELSE runs
    /\ Finish(p)
    /\ UNCHANGED <<backend, rings, now, media, receipts, history, crashes>>

-------------------------------------------------------------------------------
(* The output of a model effect, which becomes an artifact of the run too. *)

\* attach_model_effect_result reads the run under a lock of the effect, which
\* stops neither an attachment nor a decision in another replica.
AttachOutput(p, r) ==
    /\ Serves(p)
    /\ runs[r].status = "awaiting"
    /\ job' = [job EXCEPT ![p] = [Idle EXCEPT !.run = r, !.artifacts = runs[r].artifacts]]
    /\ Goto(p, "attach_output")
    /\ UNCHANGED <<backend, rings, now, runs, media, receipts, history, crashes>>

\* It saves the document that it has read, with the output, under the status
\* alone; or it changes nothing: the output is there already, the run was
\* decided meanwhile, or the database fails.
SaveOutput(p) ==
    /\ pc[p] = "attach_output"
    /\ \/ /\ Awaiting(p)
          /\ runs' = [runs EXCEPT ![job[p].run].artifacts = job[p].artifacts]
          /\ overwritten' = IF job[p].artifacts = runs[job[p].run].artifacts
                            THEN overwritten ELSE overwritten \cup {job[p].run}
       \/ UNCHANGED <<runs, overwritten>>
    /\ Finish(p)
    /\ UNCHANGED <<backend, rings, now, media, receipts, unanswered, crashes>>

-------------------------------------------------------------------------------
(* The installation. *)

\* A replica dies, and starts again with other keys.
Crash(p) ==
    /\ crashes < MaxCrashes
    /\ crashes' = crashes + 1
    /\ rings' \in {[rings EXCEPT ![p] = ring] : ring \in Accepted}
    /\ Finish(p)
    /\ UNCHANGED <<backend, now, runs, media, receipts, history>>

Tick ==
    /\ now < MaxClock
    /\ now' = now + 1
    /\ UNCHANGED <<backend, rings, runs, media, receipts, commands, history, crashes>>

Next ==
    \/ \E p \in Replicas :
         \/ \E k \in Keys : \E b \in Bindings : Attach(p, k, b)
         \/ \E r \in Runs : Decide(p, r) \/ AttachOutput(p, r)
         \/ Replay(p)
         \/ Read(p)
         \/ Insert(p)
         \/ Reuse(p)
         \/ Sign(p)
         \/ Save(p)
         \/ SaveFails(p)
         \/ SaveUnanswered(p)
         \/ Compensate(p)
         \/ CompensationFails(p)
         \/ SaveDecision(p)
         \/ SaveOutput(p)
         \/ Crash(p)
    \/ Tick

Spec == Init /\ [][Next]_vars

-------------------------------------------------------------------------------
(* Properties. *)

\* The address that a run carries is the one of the durable row, and is
\* answered as long as the row lives: also when the row was reserved by an
\* earlier attempt, at another time and with another signing key.
AttachedAddressesResolve ==
    \A r \in Runs : \A a \in runs[r].artifacts :
        /\ media[a.media] # None
        /\ Live(media[a.media]) => Resolves(Token(a))

\* A decision lists exactly the images that its run carries, however an
\* attachment and the decision overlap in two replicas.
DecisionsCoverTheirArtifacts ==
    \A r \in Runs : runs[r].status = "decided" => runs[r].approved = runs[r].artifacts

\* An image that was attached is never dropped on SQLite, where one lock covers
\* every read and save.  On PostgreSQL each command saves the whole run as it was
\* when it read it, but the lock of the run keeps attachments from dropping each
\* other's: it takes a decision in another replica, or the output of a model
\* effect that was saved over images it had not read.  Nothing undoes a decision.
OnlyOverlapsDropAttachments ==
    [][\A r \in Runs :
         /\ runs[r].status = "decided" => runs'[r] = runs[r]
         /\ \/ runs[r].artifacts \subseteq runs'[r].artifacts
            \/ /\ backend = "postgresql"
               /\ runs'[r].status = "decided" \/ r \in overwritten']_vars

\* Compensating a failed attachment takes no image away from a run that
\* carries it, unless the save had succeeded without an answer.
CompensationSparesAttached ==
    [][\A r \in Runs : \A a \in runs[r].artifacts :
           (media'[a.media].revoked /\ ~media[a.media].revoked) => a.media \in unanswered]_vars
-------------------------------------------------------------------------------
(* What does not hold on PostgreSQL. *)

\* An image that was attached stays in its run until the decision.
AttachmentsLastUntilDecision ==
    [][\A r \in Runs : \/ runs[r].artifacts \subseteq runs'[r].artifacts
                       \/ runs'[r].status = "decided"]_vars
=============================================================================
