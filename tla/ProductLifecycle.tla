-------------------------- MODULE ProductLifecycle --------------------------
(***************************************************************************)
(* One group-buying product: its row, the operations on it, the product as *)
(* the platform has it, and the platform's callbacks                       *)
(* (local_life/products.py, webhooks/handlers.py).                         *)
(*                                                                         *)
(* A request checks the row, stores the state it wants (desired_state) with*)
(* the next version, and queues an operation; a worker checks that the     *)
(* intent still stands, calls the platform and commits the result          *)
(* (remote_status).  Callbacks write remote_status on their own.  Every    *)
(* writer loads the row first and writes UPDATE ... WHERE id = ? for the   *)
(* columns whose value differs from the one it loaded.                     *)
(*                                                                         *)
(* The queue is abstracted as in InventorySync: one slot at a time runs an *)
(* operation, and again after a crash or a transient error.                *)
(***************************************************************************)
EXTENDS Naturals

CONSTANTS
    Client,           \* operators acting on the product at the same time
    Worker,           \* worker slots
    Origin,           \* where the product comes from: "pending_create" is just
                      \* created, "listed" is the product of the demo data
    OperationBudget,  \* bound: accepted requests after the creation
    EventBudget,      \* bound: status changes the platform makes or reports
    FaultBudget,      \* bound: failed calls and crashes
    RetryBudget       \* bound: manual retries

ASSUME ProductAssumption ==
    /\ Origin \subseteq {"pending_create", "listed"}
    /\ OperationBudget \in Nat
    /\ EventBudget \in Nat
    /\ FaultBudget \in Nat
    /\ RetryBudget \in Nat

\* The creation is operation 0.
Operation == 0..OperationBudget

VARIABLES
    remote, desired, version, created,  \* the row; created: it has its external id
    platform,       \* the status of the product on the platform
    accepted,       \* requests accepted so far
    op,             \* the operations
    edit,           \* what a client's request has loaded
    phase,          \* where a slot is in the handler
    job,            \* the operation it runs
    base,           \* the row as it loaded it
    answer,         \* the status the platform's answer reports
    event,          \* callbacks on their way, each with its status
    hook,           \* the callback being handled and the row it loaded
    reports, faults, retries \* what is used up of the three budgets

row     == <<remote, desired, version, created>>
slots   == <<phase, job, base, answer>>
hooks   == <<event, hook, reports>>
budgets == <<faults, retries>>
vars    == <<row, platform, accepted, op, edit, slots, hooks, budgets>>

Status == {"pending_create", "under_review", "draft", "approved", "listed",
           "delisted", "deleted"}

\* ACTION_COMMANDS and the two update commands.
Action == {"cancel_audit", "list", "delist", "delete"}
Kind   == Action \cup {"create", "update", "audit_free"}

\* _ACTION_TARGETS; an audit-free update keeps the status.
Target(kind, current) ==
    CASE kind = "cancel_audit" -> "draft"
      [] kind = "list"         -> "listed"
      [] kind = "delist"       -> "delisted"
      [] kind = "delete"       -> "deleted"
      [] kind = "update"       -> "under_review"
      [] kind = "audit_free"   -> current
      [] kind = "create"       -> "under_review"

\* _ACTION_ALLOWED_FROM and the two sets for updates.
AllowedFrom(kind) ==
    CASE kind = "cancel_audit" -> {"under_review"}
      [] kind = "list"         -> {"approved", "delisted"}
      [] kind = "delist"       -> {"listed"}
      [] kind = "delete"       -> {"draft", "approved", "delisted"}
      [] kind = "update"       -> {"draft", "approved", "delisted"}
      [] kind = "audit_free"   -> {"approved", "listed", "delisted"}
      [] kind = "create"       -> {"pending_create"}

OpStatus == {"absent", "queued", "running", "succeeded", "failed"}
Active   == {"queued", "running"}

Row    == [remote : Status, desired : Status, version : Nat]
Loaded == [remote |-> remote, desired |-> desired, version |-> version]
NoRow  == [remote |-> "pending_create", desired |-> "under_review", version |-> 0]
NoEdit == [open |-> FALSE, kind |-> "update", row |-> NoRow]
NoHook == [open |-> FALSE, status |-> "draft", row |-> NoRow]

Queued(kind, source, target, v) ==
    [status |-> "queued", kind |-> kind, source |-> source, target |-> target, version |-> v]

TypeOK ==
    /\ remote   \in Status
    /\ desired  \in Status
    /\ version  \in Nat
    /\ created  \in BOOLEAN
    /\ platform \in Status \cup {"absent"}
    /\ accepted \in 0..OperationBudget
    /\ op     \in [Operation -> [status : OpStatus, kind : Kind, source : Status,
                                 target : Status, version : Nat]]
    /\ edit   \in [Client -> [open : BOOLEAN, kind : Kind, row : Row]]
    /\ phase  \in [Worker -> {"idle", "calling", "called", "done"}]
    /\ job    \in [Worker -> Operation]
    /\ base   \in [Worker -> Row]
    /\ answer \in [Worker -> Status]
    /\ event  \subseteq [nr : 1..EventBudget, status : Status]
    /\ hook   \in [open : BOOLEAN, status : Status, row : Row]
    /\ reports \in 0..EventBudget
    /\ faults  \in 0..FaultBudget
    /\ retries \in 0..RetryBudget

\* create_product has committed the row and its operation, or seed has stored
\* a product that is listed.
Init ==
    /\ remote   \in Origin
    /\ desired  = IF remote = "listed" THEN "listed" ELSE "under_review"
    /\ version  = 1
    /\ created  = (remote = "listed")
    /\ platform = IF created THEN remote ELSE "absent"
    /\ accepted = 0
    /\ op     = [o \in Operation |->
                    [Queued("create", "pending_create", "under_review", 1)
                        EXCEPT !.status = IF o = 0 /\ ~created THEN "queued" ELSE "absent"]]
    /\ edit   = [c \in Client |-> NoEdit]
    /\ phase  = [w \in Worker |-> "idle"]
    /\ job    = [w \in Worker |-> 0]
    /\ base   = [w \in Worker |-> NoRow]
    /\ answer = [w \in Worker |-> "draft"]
    /\ event  = {}
    /\ hook   = NoHook
    /\ reports = 0
    /\ faults  = 0
    /\ retries = 0

-----------------------------------------------------------------------------
(* The API: update_product and enqueue_action *)

Pending == \E o \in Operation : op[o].status \in Active

\* Mutants of the checks: pending operations are not looked for, or the
\* desired state is not compared.
SettledOnly == remote = desired

NotPending == ~Pending

\* _require_no_pending_product_operation and _settled_product_status
MayStart == ~Pending /\ remote = desired

Check(c, kind) ==
    /\ ~edit[c].open
    /\ accepted < OperationBudget
    /\ created
    /\ MayStart
    /\ remote \in AllowedFrom(kind)
    /\ edit' = [edit EXCEPT ![c] = [open |-> TRUE, kind |-> kind, row |-> Loaded]]
    /\ UNCHANGED <<row, platform, accepted, op, slots, hooks, budgets>>

\* One commit writes the row and the operation.
Accept(c) ==
    LET e == edit[c]
        target == Target(e.kind, e.row.remote)
    IN
    /\ e.open
    /\ accepted < OperationBudget
    /\ accepted' = accepted + 1
    /\ version' = e.row.version + 1
    /\ desired' = IF target # e.row.desired THEN target ELSE desired
    /\ op' = [op EXCEPT ![accepted + 1] =
                 Queued(e.kind, e.row.remote, target, e.row.version + 1)]
    /\ edit' = [edit EXCEPT ![c] = NoEdit]
    /\ UNCHANGED <<remote, created, platform, slots, hooks, budgets>>

-----------------------------------------------------------------------------
(* The platform, as the gateway and the callbacks show it *)

\* What a call may make of the product: what was asked for, or nothing (an
\* update that needs no review).  Asking again for what has been done is
\* accepted or refused.
Effects(kind, current, target) ==
    IF kind = "create" THEN {IF current = "absent" THEN "under_review" ELSE current}
    ELSE IF kind = "audit_free" THEN {current}
    ELSE IF current \notin AllowedFrom(kind) \cup {target} THEN {}
    ELSE IF kind = "update" THEN {target, current}
    ELSE {target}

\* Mutant of the checks: a status the platform does not name is passed on.
Unmapped(kind, status) == {status, "unnamed"}

\* The status in the answer of a call: answers of the creation and of updates
\* may carry none, which the live gateway reads as "draft"; the other calls
\* report what was asked for.
Reported(kind, status) ==
    IF kind \in Action THEN {status} ELSE {status, "draft"}

\* A callback reports the status of the product.
Report(status) ==
    /\ reports < EventBudget
    /\ reports' = reports + 1
    /\ event' = event \cup {[nr |-> reports + 1, status |-> status]}

\* The review ends, or the platform takes a listed product down.
PlatformActs ==
    /\ \/ platform = "under_review" /\ \E s \in {"approved", "draft"} : platform' = s
       \/ platform = "listed" /\ platform' = "delisted"
    /\ Report(platform')
    /\ UNCHANGED <<row, accepted, op, edit, slots, hook, budgets>>

-----------------------------------------------------------------------------
(* The callback handler: process_webhook_event, in any order of events *)

LoadForEvent ==
    /\ ~hook.open
    /\ \E e \in event :
          /\ hook'  = [open |-> TRUE, status |-> e.status, row |-> Loaded]
          /\ event' = event \ {e}
    /\ UNCHANGED <<row, platform, accepted, op, edit, slots, reports, budgets>>

CommitEvent ==
    /\ hook.open
    /\ remote'  = IF hook.status # hook.row.remote THEN hook.status ELSE remote
    /\ version' = hook.row.version + 1
    /\ hook'    = NoHook
    /\ UNCHANGED <<desired, created, platform, accepted, op, edit, slots, event, reports,
                   budgets>>

\* An event with the platform's id finds no product before the creation has
\* committed that id (one with the merchant's own id does).
DropEvent ==
    /\ ~created
    /\ ~hook.open
    /\ \E e \in event : event' = event \ {e}
    /\ UNCHANGED <<row, platform, accepted, op, edit, slots, hook, reports, budgets>>

-----------------------------------------------------------------------------
(* The worker: the handlers create_product, apply_update and apply_action *)

\* Mutant of validate_intent: the version and the desired state are not
\* compared.
StatusOnly(o) == remote \in {op[o].source, op[o].target}

\* validate_intent
Valid(o) ==
    /\ version = op[o].version
    /\ desired = op[o].target
    /\ remote \in {op[o].source, op[o].target}

\* The handler finds nothing to call: the product has its external id, or the
\* row is where the operation leads.
Reached(o) ==
    \/ op[o].kind = "create" /\ created
    \/ op[o].kind \notin {"create", "audit_free"} /\ remote = op[o].target

Leave(w) ==
    /\ phase'  = [phase EXCEPT ![w] = "idle"]
    /\ job'    = [job EXCEPT ![w] = 0]
    /\ base'   = [base EXCEPT ![w] = NoRow]
    /\ answer' = [answer EXCEPT ![w] = "draft"]

\* A slot claims an operation and loads the product.
Start(w, o) ==
    /\ phase[w] = "idle"
    /\ op[o].status = "queued"
    /\ IF op[o].kind # "create" /\ ~Valid(o)
       THEN /\ op' = [op EXCEPT ![o].status = "failed"]
            /\ UNCHANGED slots
       ELSE /\ op'    = [op EXCEPT ![o].status = "running"]
            /\ job'   = [job EXCEPT ![w] = o]
            /\ base'  = [base EXCEPT ![w] = Loaded]
            /\ phase' = [phase EXCEPT ![w] = IF Reached(o) THEN "done" ELSE "calling"]
            /\ UNCHANGED answer
    /\ UNCHANGED <<row, platform, accepted, edit, hooks, budgets>>

\* The platform answers; a status other than the target's fails an update or
\* an action for good.  A delete of a product that is gone succeeds.
Call(w) ==
    LET o == job[w] IN
    /\ phase[w] = "calling"
    /\ \E s \in Effects(op[o].kind, platform, op[o].target) :
          /\ platform' = s
          /\ \E r \in Reported(op[o].kind, s) :
                IF op[o].kind = "create" \/ r = op[o].target
                THEN /\ answer' = [answer EXCEPT ![w] = r]
                     /\ phase'  = [phase EXCEPT ![w] = "called"]
                     /\ UNCHANGED <<op, job, base>>
                ELSE /\ op' = [op EXCEPT ![o].status = "failed"]
                     /\ Leave(w)
          /\ \/ s # platform /\ Report(s)
             \/ UNCHANGED <<event, reports>>
    /\ UNCHANGED <<row, accepted, edit, hook, budgets>>

\* The call raises: refused, or the answer is lost and the platform may have
\* done what was asked.
CallFails(w) ==
    LET o == job[w] IN
    /\ phase[w] = "calling"
    /\ faults < FaultBudget
    /\ faults' = faults + 1
    /\ \E s \in {platform} \cup Effects(op[o].kind, platform, op[o].target) : platform' = s
    /\ \E t \in {"queued", "failed"} : op' = [op EXCEPT ![o].status = t]
    /\ Leave(w)
    /\ UNCHANGED <<row, accepted, edit, hooks, retries>>

\* The platform refuses a call on a product that is elsewhere.
CallRefused(w) ==
    LET o == job[w] IN
    /\ phase[w] = "calling"
    /\ Effects(op[o].kind, platform, op[o].target) = {}
    /\ op' = [op EXCEPT ![o].status = "failed"]
    /\ Leave(w)
    /\ UNCHANGED <<row, platform, accepted, edit, hooks, budgets>>

\* The handler commits the answer: the creation its identifiers and status,
\* the others the status as both remote and desired.
Commit(w) ==
    LET o == job[w] IN
    /\ phase[w] = "called"
    /\ remote'  = IF answer[w] # base[w].remote THEN answer[w] ELSE remote
    /\ desired' = IF op[o].kind # "create" /\ answer[w] # base[w].desired
                  THEN answer[w] ELSE desired
    /\ created' = TRUE
    /\ phase'   = [phase EXCEPT ![w] = "done"]
    /\ UNCHANGED <<version, platform, accepted, op, edit, job, base, answer, hooks, budgets>>

MarkSucceeded(w) ==
    /\ phase[w] = "done"
    /\ op' = [op EXCEPT ![job[w]].status = "succeeded"]
    /\ Leave(w)
    /\ UNCHANGED <<row, platform, accepted, edit, hooks, budgets>>

Crash(w) ==
    /\ phase[w] # "idle"
    /\ faults < FaultBudget
    /\ faults' = faults + 1
    /\ op' = [op EXCEPT ![job[w]].status = "queued"]
    /\ Leave(w)
    /\ UNCHANGED <<row, platform, accepted, edit, hooks, retries>>

ManualRetry(o) ==
    /\ op[o].status = "failed"
    /\ retries < RetryBudget
    /\ retries' = retries + 1
    /\ op' = [op EXCEPT ![o].status = "queued"]
    /\ UNCHANGED <<row, platform, accepted, edit, slots, hooks, faults>>

-----------------------------------------------------------------------------
Next ==
    \/ \E c \in Client : Accept(c) \/ \E kind \in Kind \ {"create"} : Check(c, kind)
    \/ PlatformActs \/ LoadForEvent \/ CommitEvent \/ DropEvent
    \/ \E o \in Operation : ManualRetry(o) \/ \E w \in Worker : Start(w, o)
    \/ \E w \in Worker : \/ Call(w) \/ CallFails(w) \/ CallRefused(w) \/ Commit(w)
                         \/ MarkSucceeded(w) \/ Crash(w)

Spec == Init /\ [][Next]_vars

-----------------------------------------------------------------------------
(* What the lifecycle guarantees *)

\* Nothing is under way that could still change the row or the product.
Quiet == ~Pending /\ event = {} /\ ~hook.open

\* A product whose desired and remote status agree is on the platform what its
\* row says, also while an operation is under way: lost answers, crashes,
\* retries and refused calls leave it unsettled rather than wrong.  It needs one
\* client at a time, and is about products of which no callback has been sent.
SettledIsTrue ==
    reports = 0 /\ created /\ remote = desired => remote = platform

\* A call changes the product only to the state its row desires at that
\* moment, whatever callbacks and retries of slots come in between
\* (validate_intent and the check for pending operations keep an overtaken
\* operation from calling).  It needs one client at a time, and is about products
\* without manual retries: a callback writes the version it loaded plus one, so
\* a version may come twice, and a retried operation may then pass for the
\* current one.
IntentIsCurrent ==
    [][\A w \in Worker :
         retries = 0 /\ Call(w) /\ platform' # platform => platform' = desired]_vars

\* Once every operation has succeeded and every callback is handled, a product
\* the platform has approved can be acted on ("create a group-buying product,
\* observe asynchronous completion, update stock, and list it").
Operable ==
    /\ Quiet /\ created
    /\ remote = "approved" /\ platform = "approved"
    /\ \A o \in Operation : op[o].status # "failed"
    => MayStart
=============================================================================
