---------------------------- MODULE InventorySync ----------------------------
(***************************************************************************)
(* The stock of one SKU (local_life/products.py: update_stock, the handler *)
(* set_stock, and the initial stock of create_product).                    *)
(*                                                                         *)
(* A client's update checks the version of the SKU, stores the desired     *)
(* stock with the next version, and queues an operation that carries both. *)
(* The operation sends its stock to the platform unless the SKU has a      *)
(* newer version by then.  The rows are written through ORM objects:       *)
(* UPDATE ... WHERE id = ?, for the columns whose value differs from the   *)
(* one loaded.                                                             *)
(*                                                                         *)
(* The queue is abstracted to what the handler relies on: a queued         *)
(* operation is run by one slot at a time, and again after a crash or a    *)
(* transient error (OperationQueue has the leases).                        *)
(***************************************************************************)
EXTENDS Naturals

CONSTANTS
    Client,         \* operators and browsers editing the SKU at the same time
    Worker,         \* worker slots
    Stock,          \* the stock levels used
    Initial,        \* the desired stock of the product as created
    UpdateBudget,   \* bound: accepted updates
    FaultBudget     \* bound: failed attempts, crashes and manual retries

ASSUME InventoryAssumption ==
    /\ Stock \subseteq Nat
    /\ Initial \in Stock
    /\ 0 \in Stock
    /\ UpdateBudget \in Nat
    /\ FaultBudget \in Nat

\* The operation of the product's creation is 0, that of an update its number.
Operation == 0..UpdateBudget

VARIABLES
    version, desired, stock,   \* the row: version, desired_stock, stock
    platform,       \* the stock the platform has
    updates,        \* updates accepted so far
    op,             \* the queued operations: status, stock and target_version
    edit,           \* the row a client's request has loaded, and its new stock
    phase,          \* where a slot is in the handler
    job,            \* the operation it runs
    base,           \* the stock of the row as it loaded it
    faults          \* what is used up of FaultBudget

row   == <<version, desired, stock>>
slots == <<phase, job, base>>
vars  == <<row, platform, updates, op, edit, slots, faults>>

OpStatus == {"absent", "queued", "running", "succeeded", "failed"}
Active   == {"queued", "running"}
NoEdit   == [open |-> FALSE, stock |-> 0, version |-> 0, desired |-> 0]

TypeOK ==
    /\ version  \in 1..(UpdateBudget + 1)
    /\ desired  \in Stock
    /\ stock    \in Stock
    /\ platform \in Stock
    /\ updates  \in 0..UpdateBudget
    /\ op    \in [Operation -> [status : OpStatus, stock : Stock, target : 0..(UpdateBudget + 1)]]
    /\ edit  \in [Client -> [open : BOOLEAN, stock : Stock,
                             version : 0..(UpdateBudget + 1), desired : Stock]]
    /\ phase \in [Worker -> {"idle", "calling", "called", "synced"}]
    /\ job   \in [Worker -> Operation]
    /\ base  \in [Worker -> Stock]
    /\ faults \in 0..FaultBudget

\* The handler of the creation has committed the platform's identifiers: from
\* here on the SKU can be updated.
Init ==
    /\ version  = 1
    /\ desired  = Initial
    /\ stock    = 0
    /\ platform = 0
    /\ updates  = 0
    /\ op    = [o \in Operation |-> [status |-> "absent", stock |-> 0, target |-> 0]]
    /\ edit  = [c \in Client |-> NoEdit]
    /\ phase = [w \in Worker |-> "idle"]
    /\ job   = [w \in Worker |-> 0]
    /\ base  = [w \in Worker |-> 0]
    /\ faults = 0

-----------------------------------------------------------------------------
(* The API: update_stock *)

\* The request loads the SKU and finds the version the client has seen.
CheckVersion(c) ==
    /\ ~edit[c].open
    /\ updates < UpdateBudget
    /\ \E s \in Stock :
          edit' = [edit EXCEPT ![c] = [open |-> TRUE, stock |-> s,
                                       version |-> version, desired |-> desired]]
    /\ UNCHANGED <<row, platform, updates, op, slots, faults>>

\* Mutants: the version is advanced twice, or not at all.
TwoVersions(c) == edit[c].version + 2

SameVersion(c) == edit[c].version

NextVersion(c) == edit[c].version + 1

\* One commit writes the row and the operation; the version written is the
\* one loaded plus one, and nothing compares it with the row's.
Accept(c) ==
    LET e == edit[c] IN
    /\ e.open
    /\ updates < UpdateBudget
    /\ updates' = updates + 1
    /\ version' = NextVersion(c)
    /\ desired' = IF e.stock # e.desired THEN e.stock ELSE desired
    /\ op' = [op EXCEPT ![updates + 1] =
                 [status |-> "queued", stock |-> e.stock, target |-> NextVersion(c)]]
    /\ edit' = [edit EXCEPT ![c] = NoEdit]
    /\ UNCHANGED <<stock, platform, slots, faults>>

-----------------------------------------------------------------------------
(* The worker *)

\* The last part of the create handler queues the initial stock as it loaded
\* it: when the identifiers were committed, or now, if it was run again.
QueueInitial ==
    /\ op[0].status = "absent"
    /\ \E sku \in {[stock |-> Initial, version |-> 1], [stock |-> desired, version |-> version]} :
          op' = [op EXCEPT ![0] = [status |-> "queued", stock |-> sku.stock,
                                   target |-> sku.version]]
    /\ UNCHANGED <<row, platform, updates, edit, slots, faults>>

\* Mutant: an operation is sent whatever the version of the SKU is.
NeverSuperseded(o) == FALSE

Superseded(o) == version # op[o].target

\* A slot claims an operation and loads the SKU; a superseded operation
\* succeeds without calling the platform.
Start(w, o) ==
    /\ phase[w] = "idle"
    /\ op[o].status = "queued"
    /\ op'    = [op EXCEPT ![o].status = "running"]
    /\ job'   = [job EXCEPT ![w] = o]
    /\ base'  = [base EXCEPT ![w] = stock]
    /\ phase' = [phase EXCEPT ![w] = IF Superseded(o) THEN "synced" ELSE "calling"]
    /\ UNCHANGED <<row, platform, updates, edit, faults>>

\* gateway.update_stock returns.
Call(w) ==
    /\ phase[w] = "calling"
    /\ platform' = op[job[w]].stock
    /\ phase' = [phase EXCEPT ![w] = "called"]
    /\ UNCHANGED <<row, updates, op, edit, job, base, faults>>

\* The handler commits the stock it sent.
Commit(w) ==
    LET s == op[job[w]].stock IN
    /\ phase[w] = "called"
    /\ stock' = IF s # base[w] THEN s ELSE stock
    /\ phase' = [phase EXCEPT ![w] = "synced"]
    /\ UNCHANGED <<version, desired, platform, updates, op, edit, job, base, faults>>

Leave(w) ==
    /\ phase' = [phase EXCEPT ![w] = "idle"]
    /\ job'   = [job EXCEPT ![w] = 0]
    /\ base'  = [base EXCEPT ![w] = 0]

MarkSucceeded(w) ==
    /\ phase[w] = "synced"
    /\ op' = [op EXCEPT ![job[w]].status = "succeeded"]
    /\ Leave(w)
    /\ UNCHANGED <<row, platform, updates, edit, faults>>

\* The call raises: the platform refused it, or the answer was lost and it
\* may have been applied.  The operation is retried, or failed if the error
\* is permanent or the attempts are used up.
CallFails(w) ==
    /\ phase[w] = "calling"
    /\ faults < FaultBudget
    /\ faults' = faults + 1
    /\ \E s \in {platform, op[job[w]].stock} : platform' = s
    /\ \E t \in {"queued", "failed"} : op' = [op EXCEPT ![job[w]].status = t]
    /\ Leave(w)
    /\ UNCHANGED <<row, updates, edit>>

\* The slot dies at any step of the handler; the operation is run again when
\* its lease has expired.
Crash(w) ==
    /\ phase[w] # "idle"
    /\ faults < FaultBudget
    /\ faults' = faults + 1
    /\ op' = [op EXCEPT ![job[w]].status = "queued"]
    /\ Leave(w)
    /\ UNCHANGED <<row, platform, updates, edit>>

ManualRetry(o) ==
    /\ op[o].status = "failed"
    /\ faults < FaultBudget
    /\ faults' = faults + 1
    /\ op' = [op EXCEPT ![o].status = "queued"]
    /\ UNCHANGED <<row, platform, updates, edit, slots>>

-----------------------------------------------------------------------------
Next ==
    \/ \E c \in Client : CheckVersion(c) \/ Accept(c)
    \/ QueueInitial
    \/ \E o \in Operation : ManualRetry(o)
    \/ \E w \in Worker : \/ \E o \in Operation : Start(w, o)
                         \/ Call(w) \/ Commit(w) \/ MarkSucceeded(w)
                         \/ CallFails(w) \/ Crash(w)

Spec == Init /\ [][Next]_vars

\* Slots poll for ever and calls end by their timeout.
Fairness ==
    /\ WF_vars(QueueInitial)
    /\ \A w \in Worker : /\ WF_vars(\E o \in Operation : Start(w, o))
                         /\ WF_vars(Call(w) \/ CallFails(w))
                         /\ WF_vars(Commit(w))
                         /\ WF_vars(MarkSucceeded(w))

FairSpec == Spec /\ Fairness
-----------------------------------------------------------------------------
(* What the synchronisation guarantees *)

Quiet == \A o \in Operation : op[o].status \notin Active

\* Some operation carried the current version to its end.
NewestDone == \E o \in Operation : op[o].target = version /\ op[o].status = "succeeded"

\* Once the newest version has been carried out, the platform, the mirrored
\* stock and the desired stock agree, whatever is still under way: no retried,
\* late or repeated operation of an older version wins.  It needs one slot and
\* one client at a time.
NewestWins == NewestDone => platform = desired /\ stock = desired

NewestFailed == \E o \in Operation : op[o].target = version /\ op[o].status = "failed"

\* The synchronisation comes to rest, and then the platform has the desired
\* stock, unless the newest update failed and waits for an operator.
Converges == <>[](Quiet /\ (NewestFailed \/ platform = desired))
=============================================================================
