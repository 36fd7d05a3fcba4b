------------------------------ MODULE OrderMirror ------------------------------
(***************************************************************************)
(* The mirrors of orders and of their after-sales (local_life/orders.py):  *)
(* the request that makes the row and the operation in one transaction,    *)
(* the two handlers, and the issuance callback, which makes orders and     *)
(* vouchers of its own (webhooks/handlers.py).                             *)
(*                                                                         *)
(* An order has one voucher.  A row is two groups of columns: the head is  *)
(* assigned before the paid amount is converted, the tail after it.  The   *)
(* platform's order goes through numbered versions; Head and Tail say what *)
(* the columns of a version are.  Leases and attempts are in               *)
(* OperationQueue: two syncs that overlap are two operations here.         *)
(***************************************************************************)
EXTENDS Integers

CONSTANTS
    Order, AfterSale,   \* their external ids
    OrderOf,            \* the order of an after-sale
    Request,            \* API requests
    Key,                \* idempotency keys
    Worker,             \* worker slots; one that died is started again
    Event,              \* issuance callbacks
    NoItem, NoKey,      \* the operation, the request or the slot has none
    MaxVersion,         \* bound: versions of an item
    Head, Tail,         \* what the columns of a version are
    Unreadable,         \* versions with an amount that is not a number
    IssueAt,            \* the version that issues the order's voucher
    FaultBudget         \* bound: timeouts, and slots that are killed

Version == 1..MaxVersion
Item    == Order \cup AfterSale

ASSUME OrderAssumption ==
    /\ Order \cap AfterSale = {}
    /\ NoItem \notin Item
    /\ NoKey \notin Key
    /\ OrderOf \in [AfterSale -> Order]
    /\ MaxVersion \in Nat \ {0}
    /\ Head \in [Version -> Nat \ {0}]
    /\ Tail \in [Version -> Nat \ {0}]
    /\ Unreadable \subseteq Version
    /\ IssueAt \in Version
    /\ FaultBudget \in Nat

VARIABLES
    version,            \* the version of an item at the platform
    rows,               \* the items that have a row
    head, tail,         \* the two groups of columns
    voucher,            \* the voucher row of an order, and whether it names it
    operation,          \* the operation under an idempotency key
    want, reply,        \* what a request asks for, and how far it is
    phase, job,         \* where a slot is in its handler, and its operation
    base, got, held,    \* what it has loaded: the columns, the answer, the voucher
    asOf, alone,        \* history: the version when it began; no other sync of
                        \* the item has written since
    event, about,       \* a callback, and what it says
    read,               \* the rows its handler has found
    mixed,              \* history: items two syncs have written over each other
    faults              \* what is used up of FaultBudget

row      == <<rows, head, tail>>
requests == <<want, reply>>
slots    == <<phase, job, base, got, held, asOf, alone>>
events   == <<event, about, read>>
vars     == <<version, row, voucher, operation, requests, slots, events, mixed, faults>>

\* The status of a row that was not synced: made by a request, by a callback.
PendingSync == 0
Paid        == -1

\* The columns of the tail are 0 by default.
Heads    == {PendingSync, Paid} \cup {Head[v] : v \in Version}
Tails    == {0} \cup {Tail[v] : v \in Version}
Columns  == [head : Heads, tail : Tails]
Unloaded == [head |-> PendingSync, tail |-> 0]
Voucher  == {"absent", "loose", "linked"}
Status   == {"absent", "queued", "running", "succeeded", "failed"}

TypeOK ==
    /\ version \in [Item -> Version]
    /\ rows \subseteq Item
    /\ head \in [Item -> Heads]
    /\ tail \in [Item -> Tails]
    /\ voucher \in [Order -> Voucher]
    /\ operation \in [Key -> [status : Status, item : Item \cup {NoItem}]]
    /\ want \in [Request -> [key : Key \cup {NoKey}, item : Item \cup {NoItem}]]
    /\ reply \in [Request -> {"none", "looking", "found", "missing",
                              "accepted", "conflict", "rejected", "error"}]
    /\ phase \in [Worker -> {"idle", "calling", "answered", "loaded", "committed"}]
    /\ job  \in [Worker -> Key \cup {NoKey}]
    /\ base \in [Worker -> Columns]
    /\ got  \in [Worker -> Version]
    /\ held \in [Worker -> Voucher]
    /\ asOf \in [Worker -> Version]
    /\ alone \in [Worker -> BOOLEAN]
    /\ event \in [Event -> {"unsent", "waiting", "loaded", "processed"}]
    /\ about \in [Event -> [order : Order \cup {NoItem}, named : BOOLEAN]]
    /\ read  \in [Event -> [row : BOOLEAN, voucher : Voucher]]
    /\ mixed \subseteq Item
    /\ faults \in 0..FaultBudget

NothingRead == [row |-> FALSE, voucher |-> "absent"]

Init ==
    /\ version = [i \in Item |-> 1]
    /\ rows    = {}
    /\ head    = [i \in Item |-> PendingSync]
    /\ tail    = [i \in Item |-> 0]
    /\ voucher = [o \in Order |-> "absent"]
    /\ operation = [k \in Key |-> [status |-> "absent", item |-> NoItem]]
    /\ want    = [q \in Request |-> [key |-> NoKey, item |-> NoItem]]
    /\ reply   = [q \in Request |-> "none"]
    /\ phase   = [w \in Worker |-> "idle"]
    /\ job     = [w \in Worker |-> NoKey]
    /\ base    = [w \in Worker |-> Unloaded]
    /\ got     = [w \in Worker |-> 1]
    /\ held    = [w \in Worker |-> "absent"]
    /\ asOf    = [w \in Worker |-> 1]
    /\ alone   = [w \in Worker |-> TRUE]
    /\ event   = [e \in Event |-> "unsent"]
    /\ about   = [e \in Event |-> [order |-> NoItem, named |-> FALSE]]
    /\ read    = [e \in Event |-> NothingRead]
    /\ mixed   = {}
    /\ faults  = 0

Fault == faults < FaultBudget /\ faults' = faults + 1

-----------------------------------------------------------------------------
(* The platform *)

Advance(i) ==
    /\ version[i] + 1 \in Version
    /\ version' = [version EXCEPT ![i] = @ + 1]
    /\ UNCHANGED <<row, voucher, operation, requests, slots, events, mixed, faults>>

\* A callback tells of the voucher; it may leave out the order.
Send(e) ==
    /\ event[e] = "unsent"
    /\ \E o \in Order, named \in BOOLEAN :
          /\ version[o] >= IssueAt
          /\ about' = [about EXCEPT ![e] = [order |-> o, named |-> named]]
    /\ event' = [event EXCEPT ![e] = "waiting"]
    /\ UNCHANGED <<version, row, voucher, operation, requests, slots, read, mixed, faults>>

-----------------------------------------------------------------------------
(* The requests: sync_order and sync_after_sale *)

Unused(k) == operation[k].status = "absent"

\* The after-sale's order is looked up first, then the key.  A known after-sale
\* operation is the answer; a known order operation is, once the row is found.
LookUp(q) ==
    /\ reply[q] = "none"
    /\ \E k \in Key, i \in Item :
          /\ want'  = [want EXCEPT ![q] = [key |-> k, item |-> i]]
          /\ reply' = [reply EXCEPT ![q] =
                IF i \in AfterSale /\ OrderOf[i] \notin rows THEN "rejected"
                ELSE IF Unused(k) THEN "looking"
                ELSE IF operation[k].item = i THEN "accepted" ELSE "conflict"]
    /\ UNCHANGED <<version, row, voucher, operation, slots, events, mixed, faults>>

FindRow(q) ==
    /\ reply[q] = "looking"
    /\ reply' = [reply EXCEPT ![q] = IF want[q].item \in rows THEN "found" ELSE "missing"]
    /\ UNCHANGED <<version, row, voucher, operation, want, slots, events, mixed, faults>>

\* Mutant of RolledBack: the flushed row outlives the conflict.
RowIsKept(i) == rows \cup {i}

\* The rows after a conflict: the one the request has flushed is gone again.
RolledBack(i) == rows

\* A row that was missing is flushed, which fails if another transaction has
\* made it; then the key is looked up and the operation committed with the row.
\* If the key is taken, what was found by the look-up or after the violated
\* unique key is compared; after the latter the order's row can no longer be
\* read for the answer.
Enqueue(q) ==
    LET k == want[q].key
        i == want[q].item
    IN
    /\ reply[q] \in {"found", "missing"}
    /\ \/ /\ reply[q] = "missing" /\ i \in rows
          /\ reply' = [reply EXCEPT ![q] = "error"]
          /\ UNCHANGED <<rows, operation>>
       \/ /\ reply[q] = "found" \/ i \notin rows
          /\ Unused(k)
          /\ rows' = rows \cup {i}
          /\ operation' = [operation EXCEPT ![k] = [status |-> "queued", item |-> i]]
          /\ reply' = [reply EXCEPT ![q] = "accepted"]
       \/ /\ reply[q] = "found" \/ i \notin rows
          /\ ~Unused(k)
          /\ rows' = IF reply[q] = "missing" THEN RolledBack(i) ELSE rows
          /\ \E r \in IF operation[k].item # i THEN {"conflict"}
                      ELSE {"accepted"} \cup IF i \in Order THEN {"error"} ELSE {} :
                reply' = [reply EXCEPT ![q] = r]
          /\ UNCHANGED operation
    /\ UNCHANGED <<version, head, tail, voucher, want, slots, events, mixed, faults>>

-----------------------------------------------------------------------------
(* The worker: the handlers sync_order and sync_after_sale *)

ItemOf(w) == operation[job[w]].item

Free(w) ==
    /\ phase' = [phase EXCEPT ![w] = "idle"]
    /\ job'   = [job EXCEPT ![w] = NoKey]
    /\ base'  = [base EXCEPT ![w] = Unloaded]
    /\ got'   = [got EXCEPT ![w] = 1]
    /\ held'  = [held EXCEPT ![w] = "absent"]
    /\ asOf'  = [asOf EXCEPT ![w] = 1]

\* mark_failed: failed, or back in the queue.
Fail(w, s) ==
    /\ operation' = [operation EXCEPT ![job[w]].status = s]
    /\ Free(w)

\* The row is loaded before the platform is called.
Start(w, k) ==
    LET i == operation[k].item IN
    /\ phase[w] = "idle"
    /\ operation[k].status = "queued"
    /\ operation' = [operation EXCEPT ![k].status = "running"]
    /\ phase' = [phase EXCEPT ![w] = "calling"]
    /\ job'   = [job EXCEPT ![w] = k]
    /\ base'  = [base EXCEPT ![w] = [head |-> head[i], tail |-> tail[i]]]
    /\ asOf'  = [asOf EXCEPT ![w] = version[i]]
    /\ alone' = [alone EXCEPT ![w] = TRUE]
    /\ UNCHANGED <<version, row, voucher, requests, got, held, events, mixed, faults>>

Call(w) ==
    /\ phase[w] = "calling"
    /\ got'   = [got EXCEPT ![w] = version[ItemOf(w)]]
    /\ phase' = [phase EXCEPT ![w] = "answered"]
    /\ UNCHANGED <<version, row, voucher, operation, requests, job, base, held, asOf, alone,
                   events, mixed, faults>>

CallFails(w) ==
    /\ phase[w] = "calling"
    /\ \/ Fail(w, "failed") /\ UNCHANGED faults
       \/ Fail(w, "queued") /\ Fault
    /\ UNCHANGED <<version, row, voucher, requests, alone, events, mixed>>

\* An order's amount that is not a number raises; an after-sale's is taken as 0.
Converts(i, v) == i \in AfterSale \/ v \notin Unreadable

\* Mutant of TailOf: a refund that is not a number is stored as it comes.
AsItComes(i, v) == IF v \in Unreadable THEN -1 ELSE Tail[v]

TailOf(i, v) == IF v \in Unreadable THEN 0 ELSE Tail[v]

\* Mutant of Flushed: only the first sync of a row is written.
FirstOnly(new, old, column) == IF old <= 0 THEN new ELSE column

\* A flush writes a column that is assigned something else than was loaded.
Flushed(new, old, column) == IF new # old THEN new ELSE column

\* A slot writes to its item: the other syncs of it are no longer alone.
Writes(w) ==
    LET others == {v \in Worker \ {w} : phase[v] # "idle" /\ ItemOf(v) = ItemOf(w)} IN
    /\ alone' = [v \in Worker |-> alone[v] /\ v \notin others]
    /\ mixed' = IF alone[w] THEN mixed ELSE mixed \cup {ItemOf(w)}

\* The head is assigned.  If the amount cannot be converted, mark_failed commits
\* the head with the failure; else the voucher is looked up.
Assign(w) ==
    LET i == ItemOf(w)
        v == got[w]
    IN
    /\ phase[w] = "answered"
    /\ IF Converts(i, v)
       THEN /\ held'  = [held EXCEPT ![w] = IF i \in Order THEN voucher[i] ELSE @]
            /\ phase' = [phase EXCEPT ![w] = "loaded"]
            /\ UNCHANGED <<head, operation, job, base, got, asOf, alone, mixed>>
       ELSE /\ head' = [head EXCEPT ![i] = Flushed(Head[v], base[w].head, @)]
            /\ Writes(w)
            /\ Fail(w, "failed")
    /\ UNCHANGED <<version, rows, tail, voucher, requests, events, faults>>

Lists(i, v) == i \in Order /\ v >= IssueAt

\* A voucher that was not found has been inserted since: the flush violates the
\* unique key (tenant, connection, external id), and mark_failed raises in a
\* session that is not rolled back.  The slot ends, its operation is running.
Clashes(w) ==
    Lists(ItemOf(w), got[w]) /\ held[w] = "absent" /\ voucher[ItemOf(w)] # "absent"

\* The row and the voucher are committed together.
Commit(w) ==
    LET i == ItemOf(w)
        v == got[w]
    IN
    /\ phase[w] = "loaded"
    /\ IF Clashes(w)
       THEN Free(w) /\ UNCHANGED <<head, tail, voucher, alone, mixed>>
       ELSE /\ head' = [head EXCEPT ![i] = Flushed(Head[v], base[w].head, @)]
            /\ tail' = [tail EXCEPT ![i] = Flushed(TailOf(i, v), base[w].tail, @)]
            /\ voucher' = IF Lists(i, v) THEN [voucher EXCEPT ![i] = "linked"] ELSE voucher
            /\ Writes(w)
            /\ phase' = [phase EXCEPT ![w] = "committed"]
            /\ UNCHANGED <<job, base, got, held, asOf>>
    /\ UNCHANGED <<version, rows, operation, requests, events, faults>>

MarkSucceeded(w) ==
    /\ phase[w] = "committed"
    /\ operation' = [operation EXCEPT ![job[w]].status = "succeeded"]
    /\ Free(w)
    /\ UNCHANGED <<version, row, voucher, requests, alone, events, mixed, faults>>

Crash(w) ==
    /\ phase[w] # "idle"
    /\ Fault
    /\ Free(w)
    /\ UNCHANGED <<version, row, voucher, operation, requests, alone, events, mixed>>

\* The lease of an operation whose slot has ended runs out.
LeaseExpires(k) ==
    /\ operation[k].status = "running"
    /\ \A w \in Worker : job[w] # k
    /\ operation' = [operation EXCEPT ![k].status = "queued"]
    /\ UNCHANGED <<version, row, voucher, requests, slots, events, mixed, faults>>

-----------------------------------------------------------------------------
(* The callback: process_webhook_event *)

\* The order, if the callback names it, and the voucher are looked up.
LoadEvent(e) ==
    LET o == about[e].order IN
    /\ event[e] = "waiting"
    /\ event' = [event EXCEPT ![e] = "loaded"]
    /\ read'  = [read EXCEPT ![e] = [row |-> o \in rows, voucher |-> voucher[o]]]
    /\ UNCHANGED <<version, row, voucher, operation, requests, slots, about, mixed, faults>>

\* One of them was missing and has been inserted since.
EventClashes(e) ==
    LET o == about[e].order IN
    \/ about[e].named /\ ~read[e].row /\ o \in rows
    \/ read[e].voucher = "absent" /\ voucher[o] # "absent"

\* Mutant of AfterClash: the callback counts as processed.
Swallowed(e) == "processed"

\* After a clash the slot ends; the lease runs out and the callback is handled
\* again.
AfterClash(e) == "waiting"

\* The voucher after upsert_remote_voucher.
Linked(e) ==
    IF about[e].named THEN "linked"
    ELSE IF read[e].voucher = "absent" THEN "loose" ELSE voucher[about[e].order]

ApplyEvent(e) ==
    LET o == about[e].order IN
    /\ event[e] = "loaded"
    /\ IF EventClashes(e)
       THEN /\ event' = [event EXCEPT ![e] = AfterClash(e)]
            /\ UNCHANGED <<row, voucher>>
       ELSE /\ event' = [event EXCEPT ![e] = "processed"]
            /\ rows' = IF about[e].named THEN rows \cup {o} ELSE rows
            /\ head' = IF about[e].named /\ o \notin rows
                       THEN [head EXCEPT ![o] = Paid] ELSE head
            /\ voucher' = [voucher EXCEPT ![o] = Linked(e)]
            /\ UNCHANGED tail
    /\ read' = [read EXCEPT ![e] = NothingRead]
    /\ UNCHANGED <<version, operation, requests, slots, about, mixed, faults>>

\* The slot is killed before the commit, or the handler fails: the event is
\* handled again.
EventAborts(e) ==
    /\ event[e] = "loaded"
    /\ Fault
    /\ event' = [event EXCEPT ![e] = "waiting"]
    /\ read'  = [read EXCEPT ![e] = NothingRead]
    /\ UNCHANGED <<version, row, voucher, operation, requests, slots, about, mixed>>

-----------------------------------------------------------------------------
Next ==
    \/ \E i \in Item : Advance(i)
    \/ \E q \in Request : LookUp(q) \/ FindRow(q) \/ Enqueue(q)
    \/ \E w \in Worker, k \in Key : Start(w, k)
    \/ \E w \in Worker : \/ Call(w) \/ CallFails(w) \/ Assign(w) \/ Commit(w)
                         \/ MarkSucceeded(w) \/ Crash(w)
    \/ \E k \in Key : LeaseExpires(k)
    \/ \E e \in Event : Send(e) \/ LoadEvent(e) \/ ApplyEvent(e) \/ EventAborts(e)

\* Slots keep claiming callbacks, also those whose lease has run out.
Fairness == \A e \in Event : WF_vars(LoadEvent(e) \/ ApplyEvent(e))

Spec == Init /\ [][Next]_vars /\ Fairness
-----------------------------------------------------------------------------
(* What the mirror guarantees *)

\* A request is whole or nothing: no row without a sync for it is left behind
\* by a request that was refused, lost a race for the key or for the row, or
\* failed; no operation is without its row; and what was accepted is under its
\* key.  (Rows that a callback made begin as paid.)
EnqueueIsWhole ==
    /\ \A i \in rows : head[i] = PendingSync => \E k \in Key : operation[k].item = i
    /\ \A k \in Key : ~Unused(k) => operation[k].item \in rows
    /\ \A q \in Request : reply[q] = "accepted" => operation[want[q].key].item = want[q].item

\* The columns of a row are of one answer of the platform, except after an
\* order's amount could not be converted, and after two syncs that overlapped.
AnswerIsWhole ==
    \A i \in rows \ mixed :
        head[i] \notin {PendingSync, Paid} =>
            \E v \in 1..version[i] :
                /\ head[i] = Head[v]
                /\ tail[i] = TailOf(i, v) \/ (i \in Order /\ v \in Unreadable)

\* A row is never half made: not by a request that fails, not by a sync that is
\* repeated (enqueue, mark_failed).
RowsAreWhole == EnqueueIsWhole /\ AnswerIsWhole

\* A sync commits an answer that was given after it had begun, and links the
\* voucher it lists, whatever callbacks and other requests do meanwhile; the
\* columns are that answer's unless another sync of the item has written since.
SyncIsCurrent ==
    [][\A w \in Worker :
          phase[w] = "loaded" /\ phase'[w] = "committed" =>
              LET i == ItemOf(w) IN
              \E v \in asOf[w]..version[i] :
                  /\ alone[w] => head'[i] = Head[v] /\ tail'[i] = TailOf(i, v)
                  /\ Lists(i, v) => voucher'[i] = "linked"]_vars

\* A callback that clashes with a request, a sync or another callback is not
\* lost: in the end its voucher is there, with the order if it is named.
CallbackArrives ==
    \A e \in Event :
        event[e] = "waiting" ~>
            \E o \in Order :
                /\ o = about[e].order
                /\ event[e] = "processed"
                /\ voucher[o] # "absent"
                /\ about[e].named => voucher[o] = "linked" /\ o \in rows
=============================================================================
