------------------------------ MODULE ModelEffect ------------------------------
(***************************************************************************)
(* The authority that calls a model provider at most once for a request,   *)
(* and what becomes of the output: the intent store it reserves from, the  *)
(* gateway, the endpoints that execute and reconcile an effect, the        *)
(* attachment of its output to the run, and the decision on the run that   *)
(* looks at the effects first.                                             *)
(*                                                                         *)
(* A request is what the binding digest identifies: a source artifact of   *)
(* the run, an instruction, a provider and its limits.  An intent is found *)
(* by the client's idempotency key, from which its effect ID is derived,   *)
(* so its columns are indexed by the keys.  A receipt stands for the       *)
(* output it certifies.  Nothing calls revoke_unused or mark_failed here,  *)
(* so the execution fence is 1 in every row and is left out.               *)
(***************************************************************************)
EXTENDS Naturals

CONSTANTS
    Procs,      \* request threads, over all replicas of the API
    Replicas,   \* processes that serve the API
    Home,       \* thread -> its replica
    Keys,       \* idempotency keys clients use
    Requests,   \* model requests about the artifacts of the run
    Evidence,   \* what an operator can hold about a lost answer
    None,       \* absence of a value
    MaxFaults   \* bound on crashes and database errors

ASSUME HomeAssumption == Home \in [Procs -> Replicas]
ASSUME NoneAssumption == None \notin Keys \cup Requests \cup Evidence \cup {"provider"}
ASSUME EvidenceAssumption == "provider" \notin Evidence
ASSUME FaultAssumption == MaxFaults \in Nat

VARIABLES
    status,    \* key -> status of its intent, "none" when there is none
    binding,   \* key -> the request its intent is bound to, or None
    receipt,   \* key -> the receipt of its output, or None
    calls,     \* request -> times the provider was sent it
    run,       \* the stored run: its status and the outputs attached to it
    audit,     \* the model effect events of the audit ledger
    locks,     \* the locks held, each with its holder
    pc,        \* thread -> what it does next
    key,       \* thread -> the key of the intent it is about, or None
    target,    \* thread -> the request, the evidence or the decision it is about
    document,  \* thread -> the run it has read
    listed,    \* thread -> the intents it has listed
    faults     \* faults so far

rows == <<status, binding, receipt>>
stored == <<run, audit>>
local == <<key, target, document, listed>>
vars == <<rows, calls, stored, locks, pc, local, faults>>

Receipts == {"provider"} \cup Evidence

RunStatuses == {"awaiting_greenlight", "completed", "rejected"}

Documents == [status : RunStatuses, outputs : SUBSET (Keys \X Receipts)]

NoDocument == [status |-> "awaiting_greenlight", outputs |-> {}]

Events == {"model.effect_succeeded", "model.effect_reconciled"} \X Keys

Pcs == {"idle", "reserve", "call", "complete", "mark_unknown", "reconcile",
        "attach_succeeded", "attach_reconciled", "save_succeeded",
        "save_reconciled", "list_effects", "save_decision"}

Init ==
    /\ status = [k \in Keys |-> "none"]
    /\ binding = [k \in Keys |-> None]
    /\ receipt = [k \in Keys |-> None]
    /\ calls = [q \in Requests |-> 0]
    /\ run = NoDocument
    /\ audit = {}
    /\ locks = {}
    /\ pc = [p \in Procs |-> "idle"]
    /\ key = [p \in Procs |-> None]
    /\ target = [p \in Procs |-> None]
    /\ document = [p \in Procs |-> NoDocument]
    /\ listed = [p \in Procs |-> {}]
    /\ faults = 0

-------------------------------------------------------------------------------
(* Threads and locks. *)

Goto(p, next) == pc' = [pc EXCEPT ![p] = next]

\* A request ends, with an answer or an exception: its locks are released.
Finish(p) ==
    /\ Goto(p, "idle")
    /\ key' = [key EXCEPT ![p] = None]
    /\ target' = [target EXCEPT ![p] = None]
    /\ document' = [document EXCEPT ![p] = NoDocument]
    /\ listed' = [listed EXCEPT ![p] = {}]
    /\ locks' = {l \in locks : l[2] # p}

Service(p) == <<"service", Home[p]>>

\* The command lock of an attachment is named after the effect.
Attachment(p) == <<"model-effect-attachment", key[p]>>

\* Slip: two attachments of a replica at a time.
AcquireUnlocked(ids, p) ==
    /\ UNCHANGED locks

Acquire(ids, p) ==
    /\ \A l \in locks : l[1] \notin ids
    /\ locks' = locks \cup (ids \X {p})

-------------------------------------------------------------------------------
(* The intent store. *)

Exists(k) == status[k] # "none"

\* The rows whose binding digest is that of a request.
BoundTo(q) == {j \in Keys : Exists(j) /\ binding[j] = q}

\* Slip: the request is not looked for under other keys.
MatchesKey(k, q) == {j \in Keys : Exists(j) /\ j = k}

\* Rows the reservation's SELECT may return: same key or same binding.
Matches(k, q) == {j \in Keys : Exists(j) /\ j = k} \cup BoundTo(q)

\* The row it does return: the ORDER BY prefers the client's own key.
Found(k, q) == IF Exists(k) THEN k ELSE CHOOSE j \in Matches(k, q) : TRUE

\* The WHERE clause of every transition.
Pending(k) == status[k] = "pending"

\* _transition: the outcome and the output are stored if the row is pending.
Transition(k, outcome, output) ==
    IF Pending(k)
    THEN /\ status' = [status EXCEPT ![k] = outcome]
         /\ receipt' = [receipt EXCEPT ![k] = output]
    ELSE UNCHANGED <<status, receipt>>

\* Slip: a reconciliation that also replaces a recorded outcome.
ReconcilableTwice(k) == status[k] \in {"unknown", "succeeded"}

\* The WHERE clause of reconcile_success.
Reconcilable(k) == status[k] = "unknown"

-------------------------------------------------------------------------------
(* Execution: the endpoint, the authority and the gateway. *)

\* prepare_model_effect reads the run without a lock; describe and
\* _build_intent derive the request.
PrepareModelEffect(p) ==
    /\ pc[p] = "idle"
    /\ run.status = "awaiting_greenlight"
    /\ \E k \in Keys, q \in Requests :
        /\ key' = [key EXCEPT ![p] = k]
        /\ target' = [target EXCEPT ![p] = q]
    /\ Goto(p, "reserve")
    /\ UNCHANGED <<rows, calls, stored, locks, document, listed, faults>>

Grant(p) ==
    /\ pc[p] = "reserve"
    /\ Matches(key[p], target[p]) = {}
    /\ status' = [status EXCEPT ![key[p]] = "pending"]
    /\ binding' = [binding EXCEPT ![key[p]] = target[p]]
    /\ Goto(p, "call")
    /\ UNCHANGED <<receipt, calls, stored, locks, local, faults>>

\* A success recorded under this key or another is attached again; a key of
\* another request and an effect that has not succeeded are refused.
Replay(p) ==
    /\ pc[p] = "reserve"
    /\ Matches(key[p], target[p]) # {}
    /\ LET k == Found(key[p], target[p])
       IN  IF binding[k] = target[p] /\ status[k] = "succeeded"
           THEN /\ key' = [key EXCEPT ![p] = k]
                /\ Goto(p, "attach_succeeded")
                /\ UNCHANGED <<locks, target, document, listed>>
           ELSE Finish(p)
    /\ UNCHANGED <<rows, calls, stored, faults>>

\* What _post_json may meet: a completion, a status other than 2xx, a response
\* that is too large, none in time or at all, and one that is not JSON.
Answers == {"completion", "error_status", "oversized", "lost", "invalid"}

\* _parse_response and the comparison of the receipt: only a completion with
\* the receipt of this very request counts; after any other answer, a 4xx too,
\* the outcome is unknown.
AfterAnswer(answer) ==
    IF answer = "completion" THEN {"complete", "mark_unknown"} ELSE {"mark_unknown"}

CallProvider(p) ==
    /\ pc[p] = "call"
    /\ calls' = [calls EXCEPT ![target[p]] = @ + 1]
    /\ \E answer \in Answers : \E next \in AfterAnswer(answer) : Goto(p, next)
    /\ UNCHANGED <<rows, stored, locks, local, faults>>

\* The output is stored if the row is still pending.  An error of the database
\* before the commit, after it, or the refusal of an output leave the outcome
\* uncertain.
Complete(p) ==
    /\ pc[p] = "complete"
    /\ \/ /\ Pending(key[p])
          /\ Transition(key[p], "succeeded", "provider")
          /\ Goto(p, "attach_succeeded")
          /\ UNCHANGED faults
       \/ /\ faults < MaxFaults
          /\ faults' = faults + 1
          /\ Transition(key[p], "succeeded", "provider")
          /\ Goto(p, "mark_unknown")
       \/ /\ UNCHANGED <<status, receipt, faults>>
          /\ Goto(p, "mark_unknown")
    /\ UNCHANGED <<binding, calls, stored, locks, local>>

\* _mark_unknown: that the row is not pending any more is ignored.
MarkUnknown(p) ==
    /\ pc[p] = "mark_unknown"
    /\ Transition(key[p], "unknown", None)
    /\ Finish(p)
    /\ UNCHANGED <<binding, calls, stored, faults>>

-------------------------------------------------------------------------------
(* Reconciliation by an operator. *)

\* The endpoint reads the row and derives the digest of the evidence.
BeginReconcile(p) ==
    /\ pc[p] = "idle"
    /\ \E k \in Keys, e \in Evidence :
        /\ Exists(k)
        /\ key' = [key EXCEPT ![p] = k]
        /\ target' = [target EXCEPT ![p] = e]
    /\ Goto(p, "reconcile")
    /\ UNCHANGED <<rows, calls, stored, locks, document, listed, faults>>

\* Only an unknown effect is reconciled; a repetition with the same evidence
\* goes on to the attachment.
Reconcile(p) ==
    /\ pc[p] = "reconcile"
    /\ LET k == key[p]
       IN  IF Reconcilable(k)
           THEN /\ status' = [status EXCEPT ![k] = "succeeded"]
                /\ receipt' = [receipt EXCEPT ![k] = target[p]]
                /\ Goto(p, "attach_reconciled")
                /\ UNCHANGED <<locks, local>>
           ELSE /\ UNCHANGED <<status, receipt>>
                /\ IF status[k] = "succeeded" /\ receipt[k] = target[p]
                   THEN Goto(p, "attach_reconciled") /\ UNCHANGED <<locks, local>>
                   ELSE Finish(p)
    /\ UNCHANGED <<binding, calls, stored, faults>>

-------------------------------------------------------------------------------
(* attach_model_effect_result. *)

Attaching == {"attach_succeeded", "attach_reconciled"}

Saving == {"save_succeeded", "save_reconciled"}

\* Action of the audit event: the same for the two steps of an attachment.
Event(p) ==
    <<IF pc[p] \in {"attach_succeeded", "save_succeeded"}
      THEN "model.effect_succeeded" ELSE "model.effect_reconciled", key[p]>>

Output(p) == <<key[p], receipt[key[p]]>>

\* Under both locks the run is read: a decided one is left alone, and so is one
\* that has another output for this effect.
BeginAttach(p) ==
    /\ pc[p] \in Attaching
    /\ Acquire({Service(p), Attachment(p)}, p)
    /\ run.status = "awaiting_greenlight"
    /\ \A o \in run.outputs : o[1] = key[p] => o = Output(p)
    /\ document' = [document EXCEPT ![p] = run]
    /\ Goto(p, IF pc[p] = "attach_succeeded" THEN "save_succeeded"
               ELSE "save_reconciled")
    /\ UNCHANGED <<rows, calls, stored, key, target, listed, faults>>

RefuseAttach(p) ==
    /\ pc[p] \in Attaching
    /\ \A l \in locks : l[1] \notin {Service(p), Attachment(p)}
    /\ \/ run.status # "awaiting_greenlight"
       \/ \E o \in run.outputs : o[1] = key[p] /\ o # Output(p)
    /\ Finish(p)
    /\ UNCHANGED <<rows, calls, stored, faults>>

\* The output and its event are saved together, if the run is still awaiting
\* its Greenlight and the event is new; for an output the run has already, a
\* missing event is appended.
SaveAttachment(p) ==
    /\ pc[p] \in Saving
    /\ IF Output(p) \in document[p].outputs
       THEN /\ audit' = audit \cup {Event(p)}
            /\ UNCHANGED run
       ELSE IF run.status = "awaiting_greenlight" /\ Event(p) \notin audit
            THEN /\ run' = [document[p] EXCEPT !.outputs = @ \cup {Output(p)}]
                 /\ audit' = audit \cup {Event(p)}
            ELSE UNCHANGED stored
    /\ Finish(p)
    /\ UNCHANGED <<rows, calls, faults>>

-------------------------------------------------------------------------------
(* The decision on the run. *)

Decisions == {"approved", "rejected"}

\* _decide reads the run under the service lock; the command locks of two
\* decisions differ with their keys.  An approval lists the effects first.
BeginDecision(p) ==
    /\ pc[p] = "idle"
    /\ Acquire({Service(p)}, p)
    /\ run.status = "awaiting_greenlight"
    /\ \E d \in Decisions :
        /\ target' = [target EXCEPT ![p] = d]
        /\ Goto(p, IF d = "approved" THEN "list_effects" ELSE "save_decision")
    /\ document' = [document EXCEPT ![p] = run]
    /\ UNCHANGED <<rows, calls, stored, key, listed, faults>>

\* Slip: an unknown outcome is no reason to wait.
UnresolvedPending(k) == status[k] = "pending"

Unresolved(k) == status[k] \in {"pending", "unknown"}

\* assert_model_effects_ready_for_approval
Ready(doc) ==
    \A k \in Keys :
        /\ ~Unresolved(k)
        /\ status[k] = "succeeded" => \E o \in doc.outputs : o[1] = k

ListEffects(p) ==
    /\ pc[p] = "list_effects"
    /\ IF Ready(document[p])
       THEN /\ listed' = [listed EXCEPT ![p] = {k \in Keys : Exists(k)}]
            /\ Goto(p, "save_decision")
            /\ UNCHANGED <<locks, key, target, document>>
       ELSE Finish(p)
    /\ UNCHANGED <<rows, calls, stored, faults>>

\* The run that was read is saved with the decision, if no other was stored.
SaveDecision(p) ==
    /\ pc[p] = "save_decision"
    /\ run' = IF run.status = "awaiting_greenlight"
              THEN [document[p] EXCEPT !.status =
                        IF target[p] = "approved" THEN "completed" ELSE "rejected"]
              ELSE run
    /\ Finish(p)
    /\ UNCHANGED <<rows, calls, audit, faults>>

-------------------------------------------------------------------------------

\* A request is lost between two steps: its process died, or an exception.
Crash(p) ==
    /\ pc[p] # "idle"
    /\ faults < MaxFaults
    /\ faults' = faults + 1
    /\ Finish(p)
    /\ UNCHANGED <<rows, calls, stored>>

Execute(p) == PrepareModelEffect(p) \/ Grant(p) \/ Replay(p) \/ CallProvider(p)
              \/ Complete(p) \/ MarkUnknown(p)

Attach(p) == BeginAttach(p) \/ RefuseAttach(p) \/ SaveAttachment(p)

Decide(p) == BeginDecision(p) \/ ListEffects(p) \/ SaveDecision(p)

Next ==
    \E p \in Procs :
        \/ Execute(p)
        \/ BeginReconcile(p) \/ Reconcile(p)
        \/ Attach(p)
        \/ Decide(p)
        \/ Crash(p)

Spec == Init /\ [][Next]_vars

-------------------------------------------------------------------------------
(* Properties. *)

\* Every variable holds a value of its type, and a row has the columns its
\* status calls for: a success has its output.
TypeOK ==
    /\ status \in [Keys -> {"none", "pending", "succeeded", "unknown"}]
    /\ binding \in [Keys -> Requests \cup {None}]
    /\ receipt \in [Keys -> Receipts \cup {None}]
    /\ \A k \in Keys : /\ status[k] = "none" <=> binding[k] = None
                       /\ status[k] = "succeeded" <=> receipt[k] # None
    /\ calls \in [Requests -> Nat]
    /\ run \in Documents
    /\ audit \subseteq Events
    /\ locks \subseteq (({"service"} \X Replicas)
                          \cup ({"model-effect-attachment"} \X Keys)) \X Procs
    /\ pc \in [Procs -> Pcs]
    /\ key \in [Procs -> Keys \cup {None}]
    /\ target \in [Procs -> Requests \cup Evidence \cup Decisions \cup {None}]
    /\ document \in [Procs -> Documents]
    /\ listed \in [Procs -> SUBSET Keys]
    /\ faults \in 0 .. MaxFaults

\* The row of a request, of which there is at most one.
RowOf(q) == CHOOSE k \in BoundTo(q) : TRUE

Outcome(q) == IF BoundTo(q) = {} THEN "none" ELSE status[RowOf(q)]

\* The authority implements an effect that is reserved once, sent once and
\* settled once, whatever key it is requested under, replayed or reconciled.
Abstract == INSTANCE EffectOnce WITH
    Effects <- Requests,
    outcome <- [q \in Requests |-> Outcome(q)],
    calls <- calls
ImplementsEffectOnce == Abstract!Spec

\* An output of the run is the durable output of its effect, and stays so: an
\* uncertain commit, a replay or a second reconciliation does not replace it.
OutputsAreDurable ==
    \A o \in run.outputs : status[o[1]] = "succeeded" /\ receipt[o[1]] = o[2]

\* An attachment can be repeated until it is done: an event in the ledger,
\* which would refuse a new attachment, means the output is in the run.
EventsHaveOutputs ==
    \A e \in audit : \E o \in run.outputs : o[1] = e[2]

\* An approval binds what it has checked: when it is stored, every effect it
\* listed is resolved, and every output among them is part of what is approved.
ApprovalCoversWhatItListed ==
    [][\A p \in Procs :
           (/\ pc[p] = "save_decision" /\ pc'[p] = "idle"
            /\ run'.status = "completed" /\ run.status # "completed") =>
               \A k \in listed[p] :
                   /\ status[k] \notin {"pending", "unknown"}
                   /\ status[k] = "succeeded" =>
                          \E o \in run'.outputs : o[1] = k]_vars
================================================================================
