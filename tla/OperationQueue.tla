--------------------------- MODULE OperationQueue ---------------------------
(***************************************************************************)
(* The durable queue of integration operations and the worker slots that   *)
(* execute it (operations/service.py, operations/worker.py, worker.py).    *)
(*                                                                         *)
(* A row of integration_operations is one element of Operation.  API       *)
(* requests insert rows and reset them (manual retry); worker slots claim  *)
(* a row under a lease, run its handler, and record the outcome with an    *)
(* UPDATE that is guarded by status and worker_id.  Each action below is   *)
(* one database transaction or one step of a slot between two awaits.      *)
(*                                                                         *)
(* Time is abstracted to what the code compares: due[o] is                 *)
(* next_attempt_at <= now, and lease[o] is "held" or "expired" according   *)
(* to lease_expires_at > now.                                              *)
(***************************************************************************)
EXTENDS Naturals

CONSTANTS
    Operation,      \* the rows that may be enqueued, numbered by created_at
    Orphaned,       \* the rows whose command_type has no handler
    Worker,         \* worker slots; every process start gives new ones
    Admin,          \* concurrent manual retry requests
    NoWorker,       \* worker_id IS NULL
    NoOperation,    \* the slot has no operation
    MaxAttempts,    \* max_attempts of a row
    CrashBudget,    \* bound: slots that may end abnormally or be shut down
    StallBudget,    \* bound: leases a live slot may let expire
    RetryBudget     \* bound: manual retry requests

ASSUME QueueAssumption ==
    /\ Operation \subseteq Nat
    /\ Orphaned \subseteq Operation
    /\ NoWorker \notin Worker
    /\ NoOperation \notin Operation
    /\ MaxAttempts \in Nat \ {0}
    /\ CrashBudget \in Nat
    /\ StallBudget \in Nat
    /\ RetryBudget \in Nat

VARIABLES
    status,         \* row.status, "absent" before the insert
    due,            \* row.next_attempt_at <= now
    owner,          \* row.worker_id
    lease,          \* row.lease_expires_at against now
    attempts,       \* row.attempt_count
    failure,        \* the class of row.error_code
    audited,        \* the outcomes the audit log records for the row
    phase,          \* where the slot is in run_once
    job,            \* the operation object the slot holds
    seen,           \* attempt_count of that object, as loaded by the claim
    outcome,        \* how its handler ended
    beat,           \* the heartbeat task of the slot
    chosen,         \* rows a manual retry request has read as retryable
    crashes, stalls, retries   \* what is used up of the three budgets

rows    == <<status, due, owner, lease, attempts, failure>>
slots   == <<phase, job, seen, outcome, beat>>
budgets == <<crashes, stalls, retries>>
vars    == <<rows, audited, slots, chosen, budgets>>

Status   == {"absent", "queued", "running", "succeeded", "retry_wait", "failed"}
Settled  == {"succeeded", "failed"}
Failure  == {"none", "transient", "permanent", "no_handler", "shutdown"}
Outcome  == {"none", "ok", "transient", "permanent", "no_handler"}
Phase    == {"idle", "handling", "returned", "audit", "dead"}

TypeOK ==
    /\ status   \in [Operation -> Status]
    /\ due      \in [Operation -> BOOLEAN]
    /\ owner    \in [Operation -> Worker \cup {NoWorker}]
    /\ lease    \in [Operation -> {"none", "held", "expired"}]
    /\ attempts \in [Operation -> Nat]
    /\ failure  \in [Operation -> Failure]
    /\ audited  \in [Operation -> SUBSET Settled]
    /\ phase    \in [Worker -> Phase]
    /\ job      \in [Worker -> Operation \cup {NoOperation}]
    /\ seen     \in [Worker -> Nat]
    /\ outcome  \in [Worker -> Outcome]
    /\ beat     \in [Worker -> {"off", "on", "stopped", "failed"}]
    /\ chosen   \in [Admin -> SUBSET Operation]
    /\ crashes  \in 0..CrashBudget
    /\ stalls   \in 0..StallBudget
    /\ retries  \in 0..RetryBudget

Init ==
    /\ status   = [o \in Operation |-> "absent"]
    /\ due      = [o \in Operation |-> FALSE]
    /\ owner    = [o \in Operation |-> NoWorker]
    /\ lease    = [o \in Operation |-> "none"]
    /\ attempts = [o \in Operation |-> 0]
    /\ failure  = [o \in Operation |-> "none"]
    /\ audited  = [o \in Operation |-> {}]
    /\ phase    = [w \in Worker |-> "idle"]
    /\ job      = [w \in Worker |-> NoOperation]
    /\ seen     = [w \in Worker |-> 0]
    /\ outcome  = [w \in Worker |-> "none"]
    /\ beat     = [w \in Worker |-> "off"]
    /\ chosen   = [a \in Admin |-> {}]
    /\ crashes  = 0
    /\ stalls   = 0
    /\ retries  = 0

-----------------------------------------------------------------------------
(* The API process *)

\* OperationService.enqueue commits the new row; every request here has an
\* idempotency key of its own.
Enqueue(o) ==
    /\ status[o] = "absent"
    /\ status' = [status EXCEPT ![o] = "queued"]
    /\ due'    = [due EXCEPT ![o] = TRUE]
    /\ UNCHANGED <<owner, lease, attempts, failure, audited, slots, chosen, budgets>>

Retryable(o) == status[o] \in {"failed", "retry_wait"}

\* manual_retry and manual_retry_many SELECT the rows and check their status.
ManualRetryRead(a) ==
    /\ retries < RetryBudget
    /\ chosen[a] = {}
    /\ \E S \in SUBSET {o \in Operation : Retryable(o)} :
          /\ S # {}
          /\ chosen' = [chosen EXCEPT ![a] = S]
    /\ retries' = retries + 1
    /\ UNCHANGED <<rows, audited, slots, crashes, stalls>>

\* The commit that follows: the unit of work writes UPDATE ... WHERE id = ?,
\* with no condition on the status it read.  lease_expires_at is not part of
\* it: manual_retry never assigns it, and manual_retry_many assigns the NULL
\* it loaded.
ManualRetryWrite(a) ==
    LET S == chosen[a] IN
    /\ S # {}
    /\ status'   = [o \in Operation |-> IF o \in S THEN "queued" ELSE status[o]]
    /\ due'      = [o \in Operation |-> IF o \in S THEN TRUE ELSE due[o]]
    /\ owner'    = [o \in Operation |-> IF o \in S THEN NoWorker ELSE owner[o]]
    /\ attempts' = [o \in Operation |-> IF o \in S THEN 0 ELSE attempts[o]]
    /\ failure'  = [o \in Operation |-> IF o \in S THEN "none" ELSE failure[o]]
    /\ chosen'   = [chosen EXCEPT ![a] = {}]
    /\ UNCHANGED <<lease, audited, slots, budgets>>

-----------------------------------------------------------------------------
(* Time *)

\* The back-off of a row in retry_wait is over.
BecomeDue(o) ==
    /\ status[o] = "retry_wait"
    /\ ~due[o]
    /\ due' = [due EXCEPT ![o] = TRUE]
    /\ UNCHANGED <<status, owner, lease, attempts, failure, audited, slots, chosen, budgets>>

\* No heartbeat renews the lease of the running row o any more.
Abandoned(o) ==
    \E w \in Worker : owner[o] = w /\ (phase[w] = "dead" \/ beat[w] = "failed")

LoseLease(o) ==
    /\ status[o] = "running"
    /\ lease[o] = "held"
    /\ lease' = [lease EXCEPT ![o] = "expired"]
    /\ UNCHANGED <<status, due, owner, attempts, failure, audited, slots, chosen,
                   crashes, retries>>

LeaseExpires(o) == Abandoned(o) /\ LoseLease(o) /\ UNCHANGED stalls

\* A live owner stalls for longer than the lease (blocked loop, database
\* outage): the renewal, due every third of the lease, comes too late.
OwnerStalls(o) ==
    /\ status[o] = "running"
    /\ ~Abandoned(o)
    /\ stalls < StallBudget
    /\ stalls' = stalls + 1
    /\ LoseLease(o)

-----------------------------------------------------------------------------
(* A worker slot *)

\* Mutants of the claim condition: the lease is not looked at, or an
\* expired lease is never taken over.
AnyRunningClaimable(o) ==
    \/ status[o] \in {"queued", "retry_wait"} /\ due[o]
    \/ status[o] = "running"

NoRunningClaimable(o) == status[o] \in {"queued", "retry_wait"} /\ due[o]

Claimable(o) ==
    \/ status[o] \in {"queued", "retry_wait"} /\ due[o]
    \/ status[o] = "running" /\ lease[o] = "expired"

\* The claim query skips rows locked by another transaction; the rows a
\* manual retry is writing are.
Locked(o) == \E a \in Admin : o \in chosen[a]

\* attempt_count as the slot holds it: the claim re-reads the row it updated
\* (populate_existing).
Loaded(o) == attempts[o] + 1

\* claim takes the oldest claimable row, whatever its attempt_count.  A known
\* command starts its heartbeat and its handler; an unknown one is to be
\* marked failed at once.
Claim(w) ==
    /\ phase[w] = "idle"
    /\ \E o \in Operation :
          /\ Claimable(o)
          /\ \A p \in Operation : Claimable(p) /\ p < o => Locked(p)
          /\ status'   = [status EXCEPT ![o] = "running"]
          /\ owner'    = [owner EXCEPT ![o] = w]
          /\ lease'    = [lease EXCEPT ![o] = "held"]
          /\ attempts' = [attempts EXCEPT ![o] = @ + 1]
          /\ job'      = [job EXCEPT ![w] = o]
          /\ seen'     = [seen EXCEPT ![w] = Loaded(o)]
          /\ phase'    = [phase EXCEPT ![w] = IF o \in Orphaned THEN "returned" ELSE "handling"]
          /\ beat'     = [beat EXCEPT ![w] = IF o \in Orphaned THEN "off" ELSE "on"]
          /\ outcome'  = [outcome EXCEPT ![w] = IF o \in Orphaned THEN "no_handler" ELSE "none"]
    /\ UNCHANGED <<due, failure, audited, chosen, budgets>>

\* Mutants of the ownership guard: worker_id is not compared, status and
\* worker_id are not, or a live lease is asked for as well.
AnyOwner(w) ==
    /\ job[w] \in Operation
    /\ status[job[w]] = "running"

ByIdOnly(w) == job[w] \in Operation

WithLiveLease(w) ==
    /\ job[w] \in Operation
    /\ status[job[w]] = "running"
    /\ owner[job[w]] = w
    /\ lease[job[w]] = "held"

\* The WHERE clause of mark_succeeded, mark_failed and renew_lease.
Owns(w) ==
    /\ job[w] \in Operation
    /\ status[job[w]] = "running"
    /\ owner[job[w]] = w

\* The handler returns, or raises an error that classify_error finds
\* transient or permanent.
HandlerEnds(w) ==
    /\ phase[w] = "handling"
    /\ \E end \in {"ok", "transient", "permanent"} :
          outcome' = [outcome EXCEPT ![w] = end]
    /\ phase' = [phase EXCEPT ![w] = "returned"]
    /\ UNCHANGED <<rows, audited, job, seen, beat, chosen, budgets>>

MarkSucceeded(w) ==
    LET o == job[w] IN
    /\ phase[w] = "returned"
    /\ outcome[w] = "ok"
    /\ IF Owns(w)
       THEN /\ status' = [status EXCEPT ![o] = "succeeded"]
            /\ lease'  = [lease EXCEPT ![o] = "none"]
       ELSE UNCHANGED <<status, lease>>
    /\ phase' = [phase EXCEPT ![w] = "audit"]
    /\ UNCHANGED <<due, owner, attempts, failure, audited, job, seen, outcome, beat,
                   chosen, budgets>>

\* Mutant of the retry decision: off by one.
OneAttemptTooMany(w, error) == error \in {"transient", "shutdown"} /\ seen[w] <= MaxAttempts

\* The decision of mark_failed uses the attempt_count the slot loaded.
RetryAllowed(w, error) == error \in {"transient", "shutdown"} /\ seen[w] < MaxAttempts

\* mark_failed: back to retry_wait with a back-off, or failed; a no-op for a
\* slot that has lost the row.
WriteFailure(w, error) ==
    LET o == job[w] IN
    IF Owns(w)
    THEN /\ status'  = [status EXCEPT ![o] =
                           IF RetryAllowed(w, error) THEN "retry_wait" ELSE "failed"]
         /\ due'     = [due EXCEPT ![o] = @ /\ ~RetryAllowed(w, error)]
         /\ lease'   = [lease EXCEPT ![o] = "none"]
         /\ failure' = [failure EXCEPT ![o] = error]
    ELSE UNCHANGED <<status, due, lease, failure>>

MarkFailed(w) ==
    /\ phase[w] = "returned"
    /\ outcome[w] # "ok"
    /\ WriteFailure(w, outcome[w])
    /\ phase' = [phase EXCEPT ![w] = "audit"]
    /\ UNCHANGED <<owner, attempts, audited, job, seen, outcome, beat, chosen, budgets>>

\* Mutant: the class of the error is recorded instead of the action.
RawOutcome(w) == outcome[w]

\* The action the audit record names.
AuditedOutcome(w) == IF outcome[w] = "ok" THEN "succeeded" ELSE "failed"

\* The audit record is written whether or not the mark found the row its own.
\* Stopping the heartbeat then re-raises what ended it, and the slot dies.
RecordAudit(w) ==
    LET o == job[w] IN
    /\ phase[w] = "audit"
    /\ audited' = [audited EXCEPT ![o] = @ \cup {AuditedOutcome(w)}]
    /\ IF beat[w] = "failed"
       THEN phase' = [phase EXCEPT ![w] = "dead"] /\ UNCHANGED <<job, outcome>>
       ELSE /\ phase'   = [phase EXCEPT ![w] = "idle"]
            /\ job'     = [job EXCEPT ![w] = NoOperation]
            /\ outcome' = [outcome EXCEPT ![w] = "none"]
    /\ seen' = [seen EXCEPT ![w] = 0]
    /\ beat' = [beat EXCEPT ![w] = "off"]
    /\ UNCHANGED <<rows, chosen, budgets>>

-----------------------------------------------------------------------------
(* The heartbeat task of a slot *)

Beating(w) == phase[w] \in {"handling", "returned", "audit"} /\ beat[w] = "on"

\* renew_lease: an expired lease that nobody has claimed is revived.
RenewLease(w) ==
    /\ Beating(w)
    /\ IF Owns(w)
       THEN /\ lease[job[w]] = "expired"
            /\ lease' = [lease EXCEPT ![job[w]] = "held"]
            /\ UNCHANGED beat
       ELSE beat' = [beat EXCEPT ![w] = "stopped"] /\ UNCHANGED lease
    /\ UNCHANGED <<status, due, owner, attempts, failure, audited, phase, job,
                   seen, outcome, chosen, budgets>>

\* A slot that is dead, or will be when it stops its heartbeat.
Doomed(w) == phase[w] = "dead" \/ beat[w] = "failed"

\* Slots may end while another one stays: a deployment restarts its workers.
MayEnd(w) ==
    /\ crashes < CrashBudget
    /\ \E v \in Worker \ {w} : ~Doomed(v)
    /\ crashes' = crashes + 1

\* The renewal raises (no connection): the task ends with the exception.
HeartbeatFails(w) ==
    /\ Beating(w)
    /\ MayEnd(w)
    /\ beat' = [beat EXCEPT ![w] = "failed"]
    /\ UNCHANGED <<rows, audited, phase, job, seen, outcome, chosen, stalls, retries>>

-----------------------------------------------------------------------------
(* The end of a slot *)

\* Of what the slot held, only the operation it worked on is remembered.
Die(w) ==
    /\ phase'   = [phase EXCEPT ![w] = "dead"]
    /\ seen'    = [seen EXCEPT ![w] = 0]
    /\ outcome' = [outcome EXCEPT ![w] = "none"]
    /\ beat'    = [beat EXCEPT ![w] = "off"]

\* Killed, or an exception leaves run_once (a mark or an audit record that
\* fails on a session in need of a rollback): nothing is written.
Crash(w) ==
    /\ phase[w] # "dead"
    /\ MayEnd(w)
    /\ Die(w)
    /\ UNCHANGED <<rows, audited, job, chosen, stalls, retries>>

\* The task is cancelled while the handler runs.
Shutdown(w) ==
    /\ phase[w] = "handling"
    /\ MayEnd(w)
    /\ WriteFailure(w, "shutdown")
    /\ Die(w)
    /\ UNCHANGED <<owner, attempts, audited, job, chosen, stalls, retries>>

-----------------------------------------------------------------------------
Next ==
    \/ \E o \in Operation : \/ Enqueue(o) \/ BecomeDue(o)
                            \/ LeaseExpires(o) \/ OwnerStalls(o)
    \/ \E a \in Admin : ManualRetryRead(a) \/ ManualRetryWrite(a)
    \/ \E w \in Worker : \/ Claim(w) \/ HandlerEnds(w) \/ MarkSucceeded(w)
                         \/ MarkFailed(w) \/ RecordAudit(w) \/ RenewLease(w)
                         \/ HeartbeatFails(w) \/ Crash(w) \/ Shutdown(w)

Spec == Init /\ [][Next]_vars

\* What a slot that is alive does next; an idle one polls the queue.
Work(w) == \/ Claim(w) \/ HandlerEnds(w)
           \/ MarkSucceeded(w) \/ MarkFailed(w) \/ RecordAudit(w)

\* Slots go on, as handlers are bounded by HTTP timeouts; requests end; and
\* time passes.
Fairness ==
    /\ \A w \in Worker : WF_vars(Work(w))
    /\ \A a \in Admin : WF_vars(ManualRetryWrite(a))
    /\ \A o \in Operation : WF_vars(BecomeDue(o) \/ LeaseExpires(o))

FairSpec == Spec /\ Fairness
-----------------------------------------------------------------------------
(* What the queue guarantees *)

Executing(w, o) == phase[w] \in {"handling", "returned"} /\ job[w] = o

\* A running row has an owner and a lease, and an owner that is alive is at
\* work on exactly that row: no row is stranded in "running" by a slot that
\* went on to something else (claim, mark_* and the heartbeat agree on
\* worker_id).
OwnerIsExecuting ==
    \A o \in Operation :
        status[o] = "running" =>
            /\ lease[o] # "none"
            /\ \E w \in Worker : owner[o] = w /\ (phase[w] = "dead" \/ Executing(w, o))

\* The attempt_count a slot decides on is the row's own as long as the slot
\* owns the row: a reclaim or a manual retry in between never leaves an
\* owner with a stale count (mark_failed compares the loaded one).
AttemptIsCurrent ==
    \A w \in Worker : Owns(w) /\ phase[w] # "dead" => seen[w] = attempts[job[w]]

\* The owner of a running row works on it, or is dead, and decides on the row's
\* own attempt count: claim, heartbeat, mark_* and manual retry never leave a
\* row to a slot that knows nothing of it.
OwnerIsCurrent == OwnerIsExecuting /\ AttemptIsCurrent

\* A row that waits for a worker has attempts left: no row is put back in
\* the queue after its last attempt, and a manual retry grants a new budget.
WaitingHasBudget ==
    \A o \in Operation : status[o] \in {"queued", "retry_wait"} => attempts[o] < MaxAttempts

\* A row is given up only for an error that no retry can cure, or when its
\* attempts are used up: a transient error or a shutdown never loses it early.
FailureIsJustified ==
    \A o \in Operation :
        status[o] = "failed" =>
            failure[o] \in {"permanent", "no_handler"} \/ attempts[o] >= MaxAttempts

\* Attempts are neither cut short nor exceeded, whichever slot takes or loses
\* the row in between (claim, mark_failed, retry).
AttemptsAreCounted == WaitingHasBudget /\ FailureIsJustified

\* A settled row has its outcome in the audit log, unless the slot that
\* settled it is about to write it or died before it could.
OutcomeIsAudited ==
    \A o \in Operation :
        status[o] \in Settled =>
            \/ status[o] \in audited[o]
            \/ \E w \in Worker : /\ owner[o] = w
                                 /\ job[w] = o
                                 /\ phase[w] \in {"audit", "dead"}

\* A slot at work on a row it owns loses it only after its lease has expired,
\* or to a manual retry that had read the row before.
LeaseProtects(w, o) ==
    (Owns(w) /\ Executing(w, o) /\ Executing(w, o)') =>
        \/ status'[o] = "running" /\ owner'[o] = w
        \/ lease[o] = "expired"
        \/ Locked(o)

LeaseProtectsOwner == [][\A w \in Worker, o \in Operation : LeaseProtects(w, o)]_vars

\* The lifecycle the queue implements: what clients see of a row is its stage.
Stage(o) == IF status[o] \in {"queued", "running", "retry_wait"} THEN "pending" ELSE status[o]

Stages     == [o \in Operation |-> Stage(o)]
Attempting == [o \in Operation |-> {w \in Worker : Executing(w, o)}]
Holder     == [o \in Operation |-> IF status[o] = "running" THEN owner[o] ELSE NoWorker]

Lifecycle == INSTANCE OperationLifecycle WITH
    stage <- Stages, attempting <- Attempting, holder <- Holder, asked <- chosen

\* Whatever the interleaving of slots, crashes and stale leases, the queue is
\* a lifecycle: an outcome is recorded once, by the latest attempt and only
\* while it is in flight, and stays unless a manual retry has read the row
\* before (mark_succeeded and mark_failed ignore a stale slot).
ImplementsLifecycle == Lifecycle!Spec

\* Every enqueued operation ends in a final status: neither crashes, lost
\* heartbeats, stale owners, back-offs nor manual retries strand it.
EveryOperationSettles ==
    \A o \in Operation : status[o] # "absent" ~> status[o] \in Settled
=============================================================================
