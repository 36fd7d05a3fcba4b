-------------------------- MODULE VoucherConsumption --------------------------
(***************************************************************************)
(* One voucher: its mirror row, the operations that consume it at a store  *)
(* and revoke the consumption, the syncs of its order, which write the     *)
(* same row, and the voucher on the platform (local_life/vouchers.py and   *)
(* orders.py, and the issuance callback of webhooks/handlers.py).          *)
(*                                                                         *)
(* A request changes nothing but the queue; the handler calls the platform *)
(* and mirrors the answer.  After a timeout it asks the platform what has  *)
(* become of the voucher before it gives up the attempt.  A call that      *)
(* timed out may still arrive later.                                       *)
(*                                                                         *)
(* Assumed of the platform: a request number takes effect once, and a call *)
(* that does not fit the voucher's state is refused.  The queue is         *)
(* abstracted as in InventorySync.                                         *)
(***************************************************************************)
EXTENDS Naturals

CONSTANTS
    Store,          \* mapped stores
    Silent,         \* whether answers of the platform may leave out the
                    \* voucher, its status or its store
    Delayed,        \* whether a call may arrive after it has timed out
    Worker,         \* worker slots
    Sync,           \* syncs of the voucher's order under way at one time
    RequestBudget,  \* bound: accepted requests
    FaultBudget     \* bound: timeouts, failed calls, crashes and callbacks

ASSUME VoucherAssumption ==
    /\ Store # {}
    /\ Silent \in BOOLEAN
    /\ Delayed \in BOOLEAN
    /\ RequestBudget \in Nat \ {0}
    /\ FaultBudget \in Nat

Operation == 1..RequestBudget

\* No request number.
None == 0

VARIABLES
    state, request,       \* the row: state and last_consume_request_no
    remote,               \* the voucher on the platform
    done,                 \* the requests that took effect on the platform
    late,                 \* timed out calls still on their way
    accepted, op,         \* the operations
    phase, job, base, answer,   \* the slots
    hook, faults, \* the callback being handled; what is used of the budget
    sync,         \* the syncs of the order
    calm          \* history: commands ran one at a time, without callbacks, no
                  \* call arrived after its timeout, and no sync wrote an answer
                  \* the platform had moved on from

row   == <<state, request>>
slots == <<phase, job, base, answer>>
vars  == <<row, remote, done, late, accepted, op, slots, hook, faults, sync, calm>>

State    == {"available", "consumed"}
OpStatus == {"absent", "queued", "running", "succeeded", "failed"}
Active   == {"queued", "running"}
Kind     == {"consume", "revoke"}
Loaded   == [state |-> state, request |-> request]
Unloaded == [state |-> "available", request |-> None]
Unsynced == [phase |-> "idle", base |-> "available", got |-> "available", fresh |-> FALSE]

TypeOK ==
    /\ state   \in State
    /\ request \in Operation \cup {None}
    /\ remote  \in [state : State, store : Store, by : Operation \cup {None}]
    /\ done    \subseteq Operation
    /\ late    \subseteq Operation
    /\ accepted \in 0..RequestBudget
    /\ op     \in [Operation -> [status : OpStatus, kind : Kind, store : Store,
                                 consumed_by : Operation \cup {None}]]
    /\ phase  \in [Worker -> {"idle", "calling", "asking", "answered", "reconciled", "done"}]
    /\ job    \in [Worker -> Operation]
    /\ base   \in [Worker -> [state : State, request : Operation \cup {None}]]
    /\ answer \in [Worker -> State]
    /\ hook   \in [open : BOOLEAN, state : State]
    /\ faults \in 0..FaultBudget
    /\ sync   \in [Sync -> [phase : {"idle", "calling", "answered", "found"},
                            base : State, got : State, fresh : BOOLEAN]]
    /\ calm   \in BOOLEAN

\* The issuance of the voucher has been mirrored.
Init ==
    /\ state   = "available"
    /\ request = None
    /\ remote  \in [state : {"available"}, store : Store, by : {None}]
    /\ done    = {}
    /\ late    = {}
    /\ accepted = 0
    /\ op     = [o \in Operation |-> [status |-> "absent", kind |-> "consume",
                                      store |-> remote.store, consumed_by |-> None]]
    /\ phase  = [w \in Worker |-> "idle"]
    /\ job    = [w \in Worker |-> 1]
    /\ base   = [w \in Worker |-> Unloaded]
    /\ answer = [w \in Worker |-> "available"]
    /\ hook   = [open |-> FALSE, state |-> "available"]
    /\ faults = 0
    /\ sync   = [y \in Sync |-> Unsynced]
    /\ calm   = TRUE

-----------------------------------------------------------------------------
(* The API: the check of the state and the insert of the operation; nothing *)
(* else is written, and nothing looks for pending operations.               *)

Enqueue(kind, store, consumed_by) ==
    /\ accepted < RequestBudget
    /\ accepted' = accepted + 1
    /\ op' = [op EXCEPT ![accepted + 1] = [status |-> "queued", kind |-> kind,
                                           store |-> store, consumed_by |-> consumed_by]]
    /\ UNCHANGED <<row, remote, done, late, slots, hook, faults, sync, calm>>

EnqueueConsume ==
    /\ state = "available"
    /\ \E s \in Store : Enqueue("consume", s, None)

EnqueueRevoke ==
    /\ state = "consumed"
    /\ Enqueue("revoke", remote.store, request)

-----------------------------------------------------------------------------
(* The platform *)

\* Whether a call fits the voucher: a consumption one that is available, a
\* revocation the consumption it names, if it names one.
Fits(o) ==
    IF op[o].kind = "consume"
    THEN remote.state = "available"
    ELSE remote.state = "consumed" /\ op[o].consumed_by \in {None, remote.by}

\* The call arrives: it takes effect the first time, if it fits, and what
\* the platform has told the syncs is out of date.
Arrives(o) ==
    IF o \notin done /\ Fits(o)
    THEN /\ done' = done \cup {o}
         /\ remote' = IF op[o].kind = "consume"
                      THEN [state |-> "consumed", store |-> op[o].store, by |-> o]
                      ELSE [remote EXCEPT !.state = "available", !.by = None]
         /\ sync' = [y \in Sync |-> [sync[y] EXCEPT !.fresh = FALSE]]
    ELSE UNCHANGED <<done, remote, sync>>

LateArrival ==
    /\ \E o \in late : Arrives(o) /\ late' = late \ {o}
    /\ calm' = FALSE
    /\ UNCHANGED <<row, accepted, op, slots, hook, faults>>

-----------------------------------------------------------------------------
(* The worker: the handlers consume and revoke *)

Leave(w) ==
    /\ phase'  = [phase EXCEPT ![w] = "idle"]
    /\ job'    = [job EXCEPT ![w] = 1]
    /\ base'   = [base EXCEPT ![w] = Unloaded]
    /\ answer' = [answer EXCEPT ![w] = "available"]

\* A slot claims an operation and loads the voucher; the handler calls the
\* platform whatever state the row is in.
Start(w, o) ==
    /\ phase[w] = "idle"
    /\ op[o].status = "queued"
    /\ op'    = [op EXCEPT ![o].status = "running"]
    /\ job'   = [job EXCEPT ![w] = o]
    /\ base'  = [base EXCEPT ![w] = Loaded]
    /\ phase' = [phase EXCEPT ![w] = "calling"]
    /\ calm'  = (calm /\ \A v \in Worker : phase[v] = "idle")
    /\ UNCHANGED <<row, remote, done, late, accepted, answer, hook, faults, sync>>

Wanted(o) == IF op[o].kind = "consume" THEN "consumed" ELSE "available"

\* Mutant of the checks: a state the code does not name is passed on.
RawAnswers(o, voucher) == {voucher.state, "unnamed"}

\* The states a call may be read to answer: the voucher's, or the one asked
\* for if the answer carries no voucher.
Answers(o, voucher) == {voucher.state} \cup IF Silent THEN {Wanted(o)} ELSE {}

\* The platform answers; a request that took effect before does nothing.
Call(w) ==
    LET o == job[w] IN
    /\ phase[w] = "calling"
    /\ o \in done \/ Fits(o)
    /\ Arrives(o)
    /\ \E s \in Answers(o, remote') : answer' = [answer EXCEPT ![w] = s]
    /\ phase' = [phase EXCEPT ![w] = "answered"]
    /\ UNCHANGED <<row, late, accepted, op, job, base, hook, faults, calm>>

\* A refusal is a terminal error.
CallRefused(w) ==
    LET o == job[w] IN
    /\ phase[w] = "calling"
    /\ o \notin done
    /\ ~Fits(o)
    /\ op' = [op EXCEPT ![o].status = "failed"]
    /\ Leave(w)
    /\ UNCHANGED <<row, remote, done, late, accepted, hook, faults, sync, calm>>

\* The call times out: it arrived, or is on its way, or is lost.
CallTimesOut(w) ==
    LET o == job[w] IN
    /\ phase[w] = "calling"
    /\ faults < FaultBudget
    /\ faults' = faults + 1
    /\ \/ Arrives(o) /\ UNCHANGED late
       \/ /\ late' \in {late} \cup IF Delayed THEN {late \cup {o}} ELSE {}
          /\ UNCHANGED <<remote, done, sync>>
    /\ phase' = [phase EXCEPT ![w] = "asking"]
    /\ UNCHANGED <<row, accepted, op, job, base, answer, hook, calm>>

\* Mutants of the checks: any answer will do, or the store is not compared.
AnyAnswer(o) == TRUE

AnyStore(o) == remote.state = Wanted(o)

\* What get_voucher says fits the operation.
Reconciles(o) ==
    /\ remote.state = Wanted(o)
    /\ op[o].kind = "consume" => remote.store = op[o].store \/ Silent

\* The attempt is over without a result: it is retried or was the last one.
GiveUp(w) ==
    /\ \E t \in {"queued", "failed"} : op' = [op EXCEPT ![job[w]].status = t]
    /\ Leave(w)

\* After a timeout the handler calls get_voucher; the attempt fails if the
\* answer does not reconcile, or if there is none.
AskPlatform(w) ==
    LET o == job[w] IN
    /\ phase[w] = "asking"
    /\ \/ /\ Reconciles(o)
          /\ answer' = [answer EXCEPT ![w] = Wanted(o)]
          /\ phase'  = [phase EXCEPT ![w] = "reconciled"]
          /\ UNCHANGED <<op, job, base>>
       \/ /\ ~Reconciles(o)
          /\ GiveUp(w)
    /\ UNCHANGED <<row, remote, done, late, accepted, hook, faults, sync, calm>>

\* Another transient error, of the call or of get_voucher, ends the attempt;
\* the call may have taken effect.
AttemptFails(w) ==
    /\ phase[w] \in {"calling", "asking"}
    /\ faults < FaultBudget
    /\ faults' = faults + 1
    /\ \/ phase[w] = "calling" /\ Arrives(job[w])
       \/ UNCHANGED <<remote, done, sync>>
    /\ GiveUp(w)
    /\ UNCHANGED <<row, late, accepted, hook, calm>>

\* The handler mirrors the answer: apply_remote, and the request number, which
\* a reconciled revocation leaves as it is.
Commit(w) ==
    LET o == job[w]
        number == IF op[o].kind = "consume" THEN o
                  ELSE IF phase[w] = "answered" THEN None ELSE base[w].request
    IN
    /\ phase[w] \in {"answered", "reconciled"}
    /\ state'   = IF answer[w] # base[w].state THEN answer[w] ELSE state
    /\ request' = IF number # base[w].request THEN number ELSE request
    /\ phase'   = [phase EXCEPT ![w] = "done"]
    /\ UNCHANGED <<remote, done, late, accepted, op, job, base, answer, hook, faults, sync, calm>>

MarkSucceeded(w) ==
    /\ phase[w] = "done"
    /\ op' = [op EXCEPT ![job[w]].status = "succeeded"]
    /\ Leave(w)
    /\ UNCHANGED <<row, remote, done, late, accepted, hook, faults, sync, calm>>

Crash(w) ==
    /\ phase[w] # "idle"
    /\ faults < FaultBudget
    /\ faults' = faults + 1
    /\ op' = [op EXCEPT ![job[w]].status = "queued"]
    /\ Leave(w)
    /\ UNCHANGED <<row, remote, done, late, accepted, hook, sync, calm>>

-----------------------------------------------------------------------------
(* The callback of the issuance carries the state the voucher had when it   *)
(* was sent; it is handled at any time, as upsert_remote_voucher does.      *)

LoadForEvent ==
    /\ ~hook.open
    /\ faults < FaultBudget
    /\ faults' = faults + 1
    /\ hook' = [open |-> TRUE, state |-> state]
    /\ calm' = FALSE
    /\ UNCHANGED <<row, remote, done, late, accepted, op, slots, sync>>

CommitEvent ==
    /\ hook.open
    /\ state' = IF hook.state # "available" THEN "available" ELSE state
    /\ hook'  = [open |-> FALSE, state |-> "available"]
    /\ UNCHANGED <<request, remote, done, late, accepted, op, slots, faults, sync, calm>>

-----------------------------------------------------------------------------
(* A sync of the voucher's order writes the state its answer gives the      *)
(* voucher, whatever has happened to the row meanwhile; the request number  *)
(* is left alone.                                                           *)

\* The order is loaded, with the vouchers that are linked to it.
StartSync(y) ==
    /\ sync[y].phase = "idle"
    /\ sync' = [sync EXCEPT ![y].phase = "calling", ![y].base = state]
    /\ UNCHANGED <<row, remote, done, late, accepted, op, slots, hook, faults, calm>>

\* The platform answers get_order; a status that is missing or unknown is
\* read as available.
FetchOrder(y) ==
    /\ sync[y].phase = "calling"
    /\ \E s \in {remote.state} \cup IF Silent THEN {"available"} ELSE {} :
          sync' = [sync EXCEPT ![y].phase = "answered", ![y].got = s, ![y].fresh = TRUE]
    /\ UNCHANGED <<row, remote, done, late, accepted, op, slots, hook, faults, calm>>

\* upsert_remote_voucher looks the voucher up: the row as it is now, or as it
\* was loaded with the order.
FindVoucher(y) ==
    /\ sync[y].phase = "answered"
    /\ \E s \in {sync[y].base, state} :
          sync' = [sync EXCEPT ![y].phase = "found", ![y].base = s]
    /\ UNCHANGED <<row, remote, done, late, accepted, op, slots, hook, faults, calm>>

CommitSync(y) ==
    LET writes == sync[y].got # sync[y].base IN
    /\ sync[y].phase = "found"
    /\ state' = IF writes THEN sync[y].got ELSE state
    /\ calm'  = (calm /\ (writes => sync[y].fresh))
    /\ sync'  = [sync EXCEPT ![y] = Unsynced]
    /\ UNCHANGED <<request, remote, done, late, accepted, op, slots, hook, faults>>

\* The call fails, the slot dies, or the answer does not list the voucher.
SyncEnds(y) ==
    /\ sync[y].phase # "idle"
    /\ sync' = [sync EXCEPT ![y] = Unsynced]
    /\ UNCHANGED <<row, remote, done, late, accepted, op, slots, hook, faults, calm>>

-----------------------------------------------------------------------------
Next ==
    \/ EnqueueConsume \/ EnqueueRevoke
    \/ LateArrival \/ LoadForEvent \/ CommitEvent
    \/ \E w \in Worker :
          \/ \E o \in Operation : Start(w, o)
          \/ Call(w) \/ CallRefused(w) \/ CallTimesOut(w) \/ AskPlatform(w)
          \/ AttemptFails(w) \/ Commit(w) \/ MarkSucceeded(w) \/ Crash(w)
    \/ \E y \in Sync :
          StartSync(y) \/ FetchOrder(y) \/ FindVoucher(y) \/ CommitSync(y) \/ SyncEnds(y)

Spec == Init /\ [][Next]_vars
-----------------------------------------------------------------------------
(* What the consumption guarantees *)

Quiet ==
    /\ \A o \in Operation : op[o].status \notin Active
    /\ late = {}
    /\ ~hook.open

\* When nothing is under way and every request that took effect has succeeded,
\* the mirror has the state of the platform: lost answers, crashes and repeated
\* attempts leave no consumption or revocation unnoticed, and neither do syncs
\* of the order that run at the same time.  It needs answers that carry the
\* voucher and its status, and is about vouchers whose commands ran one at a
\* time, without callbacks and calls that arrived after their timeout (a
\* consumption reconciled with the one of another request may arrive later, and
\* undo a revocation), and whose syncs wrote no answer from before the last
\* command: one that is answered, waits for a consumption to be committed and
\* commits after it makes the row available again.
MirrorIsTrue ==
    /\ calm /\ Quiet
    /\ \A o \in done : op[o].status = "succeeded"
    => state = remote.state

\* Without a revocation, two consumptions that are both reported as succeeded
\* are of the same store: the reconciliation after a timeout never takes the
\* consumption at another store for its own.  It needs answers with the store.
ConsumedAtOneStore ==
    \A o, p \in Operation :
        /\ {op[o].status, op[p].status} = {"succeeded"}
        /\ {op[o].kind, op[p].kind} = {"consume"}
        /\ \A q \in done : op[q].kind = "consume"
        => op[o].store = op[p].store
=============================================================================
