---------------------------- MODULE WebhookInbox ----------------------------
(***************************************************************************)
(* The durable inbox of platform callbacks (webhooks/service.py,           *)
(* webhooks/handlers.py, and the webhook half of operations/worker.py).    *)
(*                                                                         *)
(* A callback is stored once, under the fingerprint of its payload, and    *)
(* answered; worker slots claim the stored events under the same leases as *)
(* operations.  Unlike the operation queue, the inbox writes the end of an *)
(* event through the ORM object the slot holds: UPDATE ... WHERE id = ?,   *)
(* for the columns whose value differs from the one it loaded.             *)
(*                                                                         *)
(* due[e] is next_attempt_at <= now and lease[e] compares lease_expires_at *)
(* with now, as in OperationQueue.                                         *)
(***************************************************************************)
EXTENDS Naturals, FiniteSets

CONSTANTS
    Event,          \* the callbacks the platform sends, numbered by received_at
    Delivery,       \* HTTP requests; the platform repeats one until answered
    Worker,         \* worker slots
    Admin,          \* concurrent manual retry requests
    NoWorker,       \* worker_id IS NULL
    NoEvent,        \* the slot or the request has no event
    Limit,          \* min(event.max_attempts, webhook_max_attempts)
    CrashBudget,    \* bound: slots that may end abnormally or be shut down
    StallBudget,    \* bound: leases a live slot may let expire
    RetryBudget     \* bound: manual retry requests

ASSUME InboxAssumption ==
    /\ Event \subseteq Nat
    /\ NoWorker \notin Worker
    /\ NoEvent \notin Event
    /\ Limit \in Nat \ {0}
    /\ CrashBudget \in Nat
    /\ StallBudget \in Nat
    /\ RetryBudget \in Nat

VARIABLES
    status,         \* row.status, "absent" before the insert
    due,            \* row.next_attempt_at <= now
    owner,          \* row.worker_id
    lease,          \* row.lease_expires_at against now
    attempts,       \* row.attempt_count
    carries,        \* the callback a request carries
    reply,          \* where the request is, or the answer of ingest
    phase,          \* where the slot is in _run_webhook_once
    turn,           \* the kind of work the slot looks for first
    job,            \* the event object the slot holds
    seen,           \* attempt_count of that object
    beat,           \* the heartbeat task of the slot
    retrying,       \* the event a manual retry request has loaded
    loaded,         \* its status and whether it had a worker_id, as loaded
    effects,        \* history: how often the effects of an event were committed
    disturbed,      \* history: events that failed, lost a lease or were retried
    crashes, stalls, retries   \* what is used up of the three budgets

rows     == <<status, due, owner, lease, attempts>>
requests == <<carries, reply>>
slots    == <<phase, turn, job, seen, beat>>
admins   == <<retrying, loaded>>
history  == <<effects, disturbed>>
budgets  == <<crashes, stalls, retries>>
vars     == <<rows, requests, slots, admins, history, budgets>>

Status == {"absent", "received", "processing", "retry_wait", "dead_letter", "processed"}
Waiting   == {"received", "retry_wait"}
Retryable == {"received", "retry_wait", "dead_letter"}
AtWork    == {"handling", "applied", "failing"}

TypeOK ==
    /\ status    \in [Event -> Status]
    /\ due       \in [Event -> BOOLEAN]
    /\ owner     \in [Event -> Worker \cup {NoWorker}]
    /\ lease     \in [Event -> {"none", "held", "expired"}]
    /\ attempts  \in [Event -> Nat]
    /\ carries   \in [Delivery -> Event \cup {NoEvent}]
    /\ reply     \in [Delivery -> {"none", "inserting", "stored", "duplicate"}]
    /\ phase     \in [Worker -> AtWork \cup {"idle", "serving", "dead"}]
    /\ turn      \in [Worker -> {"callback", "operation"}]
    /\ job       \in [Worker -> Event \cup {NoEvent}]
    /\ seen      \in [Worker -> Nat]
    /\ beat      \in [Worker -> {"off", "on", "stopped", "failed"}]
    /\ retrying  \in [Admin -> Event \cup {NoEvent}]
    /\ loaded    \in [Admin -> [status : Retryable, owned : BOOLEAN]]
    /\ effects   \in [Event -> Nat]
    /\ disturbed \subseteq Event
    /\ crashes   \in 0..CrashBudget
    /\ stalls    \in 0..StallBudget
    /\ retries   \in 0..RetryBudget

NotLoaded == [status |-> "received", owned |-> FALSE]

Init ==
    /\ status    = [e \in Event |-> "absent"]
    /\ due       = [e \in Event |-> FALSE]
    /\ owner     = [e \in Event |-> NoWorker]
    /\ lease     = [e \in Event |-> "none"]
    /\ attempts  = [e \in Event |-> 0]
    /\ carries   = [d \in Delivery |-> NoEvent]
    /\ reply     = [d \in Delivery |-> "none"]
    /\ phase     = [w \in Worker |-> "idle"]
    /\ turn      \in [Worker -> {"callback", "operation"}]
    /\ job       = [w \in Worker |-> NoEvent]
    /\ seen      = [w \in Worker |-> 0]
    /\ beat      = [w \in Worker |-> "off"]
    /\ retrying  = [a \in Admin |-> NoEvent]
    /\ loaded    = [a \in Admin |-> NotLoaded]
    /\ effects   = [e \in Event |-> 0]
    /\ disturbed = {}
    /\ crashes   = 0
    /\ stalls    = 0
    /\ retries   = 0

-----------------------------------------------------------------------------
(* Receiving a callback: WebhookService.ingest, then the answer "success" *)

\* The fingerprint is looked up first; a known one is answered at once.
LookUp(d) ==
    /\ carries[d] = NoEvent
    /\ \E e \in Event :
          /\ carries' = [carries EXCEPT ![d] = e]
          /\ reply'   = [reply EXCEPT ![d] =
                            IF status[e] = "absent" THEN "inserting" ELSE "duplicate"]
    /\ UNCHANGED <<rows, slots, admins, history, budgets>>

\* Mutant: the unique key is missing and the insert always succeeds.
AlwaysFresh(e) == TRUE

\* The insert of a request that lost the race violates the unique key
\* (connection, fingerprint), and the request finds the other's row.
Fresh(e) == status[e] = "absent"

Insert(d) ==
    LET e == carries[d] IN
    /\ reply[d] = "inserting"
    /\ IF Fresh(e)
       THEN /\ reply'  = [reply EXCEPT ![d] = "stored"]
            /\ status' = [status EXCEPT ![e] = "received"]
            /\ due'    = [due EXCEPT ![e] = TRUE]
       ELSE /\ reply'  = [reply EXCEPT ![d] = "duplicate"]
            /\ UNCHANGED <<status, due>>
    /\ UNCHANGED <<owner, lease, attempts, carries, slots, admins, history, budgets>>

-----------------------------------------------------------------------------
(* Manual retry: WebhookService.retry *)

RetryRead(a) ==
    /\ retries < RetryBudget
    /\ retrying[a] = NoEvent
    /\ \E e \in Event :
          /\ status[e] \in Retryable
          /\ retrying' = [retrying EXCEPT ![a] = e]
          /\ loaded'   = [loaded EXCEPT ![a] =
                             [status |-> status[e], owned |-> owner[e] # NoWorker]]
    /\ retries' = retries + 1
    /\ UNCHANGED <<rows, requests, slots, history, crashes, stalls>>

\* Only changed columns are written: the status and the count unless the
\* row was loaded as received, the ownership if it was loaded with one (a
\* stale one), next_attempt_at unless an earlier retry set it already.
RetryWrite(a) ==
    LET e     == retrying[a]
        reset == loaded[a].status # "received"
    IN
    /\ e # NoEvent
    /\ status'   = [status EXCEPT ![e] = IF reset THEN "received" ELSE @]
    /\ attempts' = [attempts EXCEPT ![e] = IF reset THEN 0 ELSE @]
    /\ owner'    = [owner EXCEPT ![e] = IF loaded[a].owned THEN NoWorker ELSE @]
    /\ lease'    = [lease EXCEPT ![e] = IF loaded[a].owned THEN "none" ELSE @]
    /\ \E d \in {TRUE, due[e]} : due' = [due EXCEPT ![e] = d]
    /\ retrying'  = [retrying EXCEPT ![a] = NoEvent]
    /\ loaded'    = [loaded EXCEPT ![a] = NotLoaded]
    /\ disturbed' = disturbed \cup {e}
    /\ UNCHANGED <<requests, slots, effects, budgets>>

-----------------------------------------------------------------------------
(* Time *)

\* The back-off of an event in retry_wait is over.
BecomeDue(e) ==
    /\ status[e] # "absent"
    /\ ~due[e]
    /\ due' = [due EXCEPT ![e] = TRUE]
    /\ UNCHANGED <<status, owner, lease, attempts, requests, slots, admins, history, budgets>>

\* A live slot renews the lease of e.
Beating(w, e) == beat[w] = "on" /\ job[w] = e /\ owner[e] = w

Abandoned(e) == ~\E w \in Worker : Beating(w, e)

LoseLease(e) ==
    /\ status[e] = "processing"
    /\ lease[e] = "held"
    /\ lease' = [lease EXCEPT ![e] = "expired"]
    /\ disturbed' = disturbed \cup {e}
    /\ UNCHANGED <<status, due, owner, attempts, requests, slots, admins, effects,
                   crashes, retries>>

LeaseExpires(e) == Abandoned(e) /\ LoseLease(e) /\ UNCHANGED stalls

\* A live owner stalls for longer than the lease (blocked loop, database
\* outage).
OwnerStalls(e) ==
    /\ status[e] = "processing"
    /\ ~Abandoned(e)
    /\ stalls < StallBudget
    /\ stalls' = stalls + 1
    /\ LoseLease(e)

-----------------------------------------------------------------------------
(* A worker slot *)

Claimable(e) ==
    \/ status[e] \in Waiting /\ due[e]
    \/ status[e] = "processing" /\ lease[e] = "expired"

\* FOR UPDATE SKIP LOCKED passes over a row a manual retry is writing.
Locked(e) == \E a \in Admin : retrying[a] = e

\* _claim_webhook takes the oldest claimable event and starts its heartbeat.
Claim(w) ==
    /\ phase[w] = "idle"
    /\ \E e \in Event :
          /\ Claimable(e)
          /\ \A f \in Event : Claimable(f) /\ f < e => Locked(f)
          /\ status'   = [status EXCEPT ![e] = "processing"]
          /\ owner'    = [owner EXCEPT ![e] = w]
          /\ lease'    = [lease EXCEPT ![e] = "held"]
          /\ attempts' = [attempts EXCEPT ![e] = @ + 1]
          /\ job'      = [job EXCEPT ![w] = e]
          /\ seen'     = [seen EXCEPT ![w] = attempts[e] + 1]
    /\ phase' = [phase EXCEPT ![w] = "handling"]
    /\ beat'  = [beat EXCEPT ![w] = "on"]
    /\ UNCHANGED <<due, requests, turn, admins, history, budgets>>

\* Mutant of OtherTurn: a slot goes on with the kind of work it found last.
SameTurn(w) == turn[w]

\* Whatever a slot has done, it looks for the other kind of work next.
OtherTurn(w) == IF turn[w] = "callback" THEN "operation" ELSE "callback"

\* _stop_heartbeat re-raises what ended the heartbeat, and the slot dies.
EndRun(w) ==
    /\ phase' = [phase EXCEPT ![w] = IF beat[w] = "failed" THEN "dead" ELSE "idle"]
    /\ turn'  = [turn EXCEPT ![w] = OtherTurn(w)]
    /\ job'   = [job EXCEPT ![w] = NoEvent]
    /\ seen'  = [seen EXCEPT ![w] = 0]
    /\ beat'  = [beat EXCEPT ![w] = "off"]

\* The claim finds no event: none is claimable, or others hold the locks.
NothingToClaim == \A e \in Event : Claimable(e) => Locked(e)

\* The slot takes an operation, of which there may be any number at any time:
\* before it looks for a callback, or after it found none.
TakeOperation(w) ==
    /\ phase[w] = "idle"
    /\ turn[w] = "operation" \/ NothingToClaim
    /\ phase' = [phase EXCEPT ![w] = "serving"]
    /\ UNCHANGED <<rows, requests, turn, job, seen, beat, admins, history, budgets>>

\* Its end, which OperationQueue details.
EndOperation(w) ==
    /\ phase[w] = "serving"
    /\ EndRun(w)
    /\ UNCHANGED <<rows, requests, admins, history, budgets>>

\* process_webhook_event changes a product and records it in the audit log;
\* the commit of the audit record commits the change while the event is
\* still processing.
ApplyProduct(w) ==
    /\ phase[w] = "handling"
    /\ phase'   = [phase EXCEPT ![w] = "applied"]
    /\ effects' = [effects EXCEPT ![job[w]] = @ + 1]
    /\ UNCHANGED <<rows, requests, turn, job, seen, beat, admins, disturbed, budgets>>

\* process_webhook_event raises, before or after that commit.
HandlerRaises(w) ==
    /\ phase[w] \in {"handling", "applied"}
    /\ phase' = [phase EXCEPT ![w] = "failing"]
    /\ UNCHANGED <<rows, requests, turn, job, seen, beat, admins, history, budgets>>

\* Mutant: the final write forgets the ownership columns.
KeepOwner(e, s) ==
    /\ status' = [status EXCEPT ![e] = s]
    /\ UNCHANGED <<owner, lease>>

\* The end of a run is written to the row whoever owns it by now: the UPDATE
\* of _mark_webhook_failed that asks for the owner is followed by the flush
\* of the same values, which asks for the id alone.
Release(e, s) ==
    /\ status' = [status EXCEPT ![e] = s]
    /\ owner'  = [owner EXCEPT ![e] = NoWorker]
    /\ lease'  = [lease EXCEPT ![e] = "none"]

\* process_webhook_event commits the event as processed; an event that
\* changes no product commits its effects (vouchers, orders) with it.
Finish(w) ==
    LET e == job[w] IN
    /\ phase[w] \in {"handling", "applied"}
    /\ Release(e, "processed")
    /\ effects' = [effects EXCEPT ![e] = IF phase[w] = "handling" THEN @ + 1 ELSE @]
    /\ EndRun(w)
    /\ UNCHANGED <<due, attempts, requests, admins, disturbed, budgets>>

\* The attempt the slot loaded is the last one.
LastAttempt(w) == seen[w] >= Limit

\* Mutant: the end of an operation, which no reader of the inbox knows.
OperationStatus(w) == IF LastAttempt(w) THEN "failed" ELSE "retry_wait"

FailureStatus(w) == IF LastAttempt(w) THEN "dead_letter" ELSE "retry_wait"

\* _mark_webhook_failed
WriteFailure(w) ==
    LET e == job[w] IN
    /\ Release(e, FailureStatus(w))
    /\ due' = [due EXCEPT ![e] = @ /\ LastAttempt(w)]
    /\ disturbed' = disturbed \cup {e}

MarkFailed(w) ==
    /\ phase[w] = "failing"
    /\ WriteFailure(w)
    /\ EndRun(w)
    /\ UNCHANGED <<attempts, requests, admins, effects, budgets>>

-----------------------------------------------------------------------------
(* The heartbeat task, and the end of a slot *)

\* The renewal is guarded by status and worker_id, and ends the task when it
\* finds the row taken.
RenewLease(w) ==
    LET e == job[w] IN
    /\ phase[w] \in AtWork
    /\ beat[w] = "on"
    /\ IF status[e] = "processing" /\ owner[e] = w
       THEN /\ lease[e] = "expired"
            /\ lease' = [lease EXCEPT ![e] = "held"]
            /\ UNCHANGED beat
       ELSE beat' = [beat EXCEPT ![w] = "stopped"] /\ UNCHANGED lease
    /\ UNCHANGED <<status, due, owner, attempts, requests, phase, turn, job, seen, admins,
                   history, budgets>>

\* Slots may end while another one stays: a deployment restarts its workers.
MayEnd(w) ==
    /\ crashes < CrashBudget
    /\ \E v \in Worker \ {w} : phase[v] # "dead" /\ beat[v] # "failed"
    /\ crashes' = crashes + 1

\* The renewal raises (no connection): the task ends with the exception.
HeartbeatFails(w) ==
    /\ phase[w] \in AtWork
    /\ beat[w] = "on"
    /\ MayEnd(w)
    /\ beat' = [beat EXCEPT ![w] = "failed"]
    /\ UNCHANGED <<rows, requests, phase, turn, job, seen, admins, history, stalls, retries>>

Die(w) ==
    /\ phase' = [phase EXCEPT ![w] = "dead"]
    /\ turn'  = [turn EXCEPT ![w] = "callback"]
    /\ job'   = [job EXCEPT ![w] = NoEvent]
    /\ seen'  = [seen EXCEPT ![w] = 0]
    /\ beat'  = [beat EXCEPT ![w] = "off"]

\* Killed, or an exception leaves run_once (a session in need of a rollback).
Crash(w) ==
    /\ phase[w] # "dead"
    /\ MayEnd(w)
    /\ Die(w)
    /\ UNCHANGED <<rows, requests, admins, history, stalls, retries>>

\* The task is cancelled while process_webhook_event runs.
Shutdown(w) ==
    /\ phase[w] \in {"handling", "applied"}
    /\ MayEnd(w)
    /\ WriteFailure(w)
    /\ Die(w)
    /\ UNCHANGED <<attempts, requests, admins, effects, stalls, retries>>

-----------------------------------------------------------------------------
Next ==
    \/ \E d \in Delivery : LookUp(d) \/ Insert(d)
    \/ \E a \in Admin : RetryRead(a) \/ RetryWrite(a)
    \/ \E e \in Event : BecomeDue(e) \/ LeaseExpires(e) \/ OwnerStalls(e)
    \/ \E w \in Worker : \/ Claim(w) \/ TakeOperation(w) \/ EndOperation(w)
                         \/ ApplyProduct(w) \/ HandlerRaises(w) \/ Finish(w)
                         \/ MarkFailed(w) \/ RenewLease(w) \/ HeartbeatFails(w)
                         \/ Crash(w) \/ Shutdown(w)

Spec == Init /\ [][Next]_vars

\* What a slot that is alive does next; an idle one polls both queues, and
\* the handler of a callback, which makes no remote call, ends.
Work(w) == \/ Claim(w) \/ TakeOperation(w) \/ EndOperation(w)
           \/ HandlerRaises(w) \/ Finish(w) \/ MarkFailed(w)

\* Slots go on, requests and transactions end, and time passes.
Fairness ==
    /\ \A d \in Delivery : WF_vars(Insert(d))
    /\ \A a \in Admin : WF_vars(RetryWrite(a))
    /\ \A e \in Event : WF_vars(BecomeDue(e)) /\ WF_vars(LeaseExpires(e))
    /\ \A w \in Worker : WF_vars(Work(w))

FairSpec == Spec /\ Fairness
-----------------------------------------------------------------------------
(* What the inbox guarantees *)

Holding(w, e) == phase[w] \in AtWork /\ job[w] = e

\* However many requests carry the same callback, one of them stores it; and
\* every request that was answered "success" finds it stored (the unique key
\* decides between requests that both looked it up in vain).
StoredOnce ==
    \A e \in Event :
        LET answered(r) == {d \in Delivery : carries[d] = e /\ reply[d] = r} IN
        /\ Cardinality(answered("stored")) <= 1
        /\ answered("duplicate") # {} => status[e] # "absent"
        /\ status[e] # "absent" => answered("stored") # {}

\* An event in processing has a lease that runs out, and is in the hands of
\* its owner or of a slot that is dead; one that waits for a slot has
\* neither, unless a manual retry took it from a slot at work: no event is
\* stranded in processing.
ProcessingIsLeased ==
    \A e \in Event :
        /\ status[e] = "processing" =>
              /\ lease[e] # "none"
              /\ \E w \in Worker : owner[e] = w /\ (phase[w] = "dead" \/ Holding(w, e))
        /\ status[e] # "processing" /\ owner[e] # NoWorker =>
              \E w \in Worker : owner[e] = w /\ (phase[w] = "dead" \/ Holding(w, e))

\* The effects of an event (a product version, an audit record) are committed
\* once, unless an attempt failed, its lease ran out or it was retried by
\* hand: claims, heartbeats and duplicate deliveries alone never repeat them.
EffectsCommittedOnce == \A e \in Event : e \notin disturbed => effects[e] <= 1

\* One callback is stored once and takes effect once (receive, claim, finish).
OnceOnly == StoredOnce /\ EffectsCommittedOnce

\* An event is put aside as a dead letter only after as many attempts as the
\* limit grants.  It is about inboxes without manual retries: a slot that has
\* lost an event still writes its end, over a retry that has reset the count.
DeadLetterIsExhausted ==
    retries = 0 => \A e \in Event : status[e] = "dead_letter" => attempts[e] >= Limit

\* No event drops out of the inbox: by a claim that nobody holds, or before its
\* attempts are used up (claim, the heartbeat, mark_failed, retry).
NoEventIsLost == ProcessingIsLeased /\ DeadLetterIsExhausted

\* Every stored callback ends as processed or dead letter, whatever crashes,
\* stale slots and retries by hand do to it.
EveryEventSettles ==
    \A e \in Event : status[e] # "absent" ~> status[e] \in {"processed", "dead_letter"}
=============================================================================
