--------------------------- MODULE AccountingSync ---------------------------
(***************************************************************************)
(* The import of the funds flow and of the voucher bills of a connection,  *)
(* and the reconciliation of the two mirrors (local_life/accounting.py),   *)
(* from the request with its idempotency key (OperationService.enqueue) to *)
(* the end of the operation.                                               *)
(*                                                                         *)
(* The platform lists entries page by page, here one entry on a page.  An  *)
(* import reads all pages, looks the entries up by their external ids,     *)
(* adds the rows it does not find and assigns the others, and commits      *)
(* once; a flush writes an amount only where it differs from the loaded    *)
(* one.  Entries without an id are dropped, and entries of one id end in   *)
(* one row.  A reconciliation reads the two mirrors in two queries.        *)
(* Leases, stale slots and attempts are in OperationQueue: two imports     *)
(* that overlap are two operations here.                                   *)
(***************************************************************************)
EXTENDS Integers, Sequences, FiniteSets, Functions

CONSTANTS
    Request,        \* API requests
    Key,            \* idempotency keys
    Date,           \* bill dates
    Worker,         \* worker slots; one that died is started again
    FundId, BillId, \* external ids of the rows of the two mirrors
    Order,          \* orders that entries name
    NoOrder, NoId,  \* the entry names none
    NoKey, NoDate,  \* the request, the slot or the row has none
    NoRow,          \* there is no row with the id
    Unreadable,     \* an amount that is missing or no number
    Length,         \* bound: entries of each feed
    PageLimit,      \* pages an import reads at most (1000 in the code)
    FaultBudget,    \* bound: transient errors, and slots that are killed
    Amounts,        \* the amounts the platform gives an entry, one after the other
    Given,          \* the id an entry carries
    Identity,       \* the hash of what a bill says of itself
    OrderOf         \* the order the entries of an id name

Feed  == {"funds"} \cup Date
Entry == UNION {{<<f, n>> : n \in 1..Length[f]} : f \in Feed}
Id    == FundId \cup BillId

ASSUME AccountingAssumption ==
    /\ "funds" \notin Date
    /\ NoKey \notin Key
    /\ NoDate \notin Date
    /\ NoOrder \notin Order
    /\ FundId \cap BillId = {}
    /\ NoId \notin Id
    /\ NoRow \notin Int
    /\ Length \in [Feed -> Nat]
    /\ PageLimit \in Nat \ {0}
    /\ FaultBudget \in Nat
    /\ Amounts \in [Entry -> Seq(Int \cup {Unreadable}) \ {<<>>}]
    /\ Given \in [Entry -> Id \cup {NoId}]
    /\ \A e \in Entry : Given[e] \in {NoId} \cup IF e[1] = "funds" THEN FundId ELSE BillId
    /\ Identity \in [Entry -> BillId \cup {NoId}]
    /\ OrderOf \in [Id -> Order \cup {NoOrder}]

VARIABLES
    published,      \* how many entries of a feed the platform lists
    version,        \* which of its amounts an entry has at the platform
    mirror,         \* the amount in our row of an external id, or NoRow
    operation,      \* the operation under an idempotency key
    want, reply,    \* what a request asks for, and its answer
    phase,          \* where a slot is in the handler
    job,            \* the key of its operation
    page,           \* pages of the feed it has read
    got,            \* the versions of entries it has read, 0 for one it has not
    base,           \* the rows as its session loaded them
    asOf,           \* history: the versions that were listed when it began
    alone,          \* history: no other import committed since it loaded the rows
    reading,        \* a reconciliation has read the funds, and not yet the bills
    began,          \* the rows there were when it read the funds
    torn,           \* history: an import has committed since
    faults          \* what is used up of FaultBudget

platform == <<published, version>>
requests == <<want, reply>>
slots    == <<phase, job, page, got, base, asOf, alone>>
reader   == <<reading, began, torn>>
vars     == <<platform, mirror, operation, requests, slots, reader, faults>>

Nothing == [e \in Entry |-> 0]
NoRows  == [i \in Id |-> NoRow]

Status  == {"absent", "queued", "running", "succeeded", "failed"}
NoOperation == [status |-> "absent", date |-> NoDate]

TypeOK ==
    /\ published \in [Feed -> Nat] /\ \A f \in Feed : published[f] <= Length[f]
    /\ version \in [Entry -> Nat \ {0}] /\ \A e \in Entry : version[e] <= Len(Amounts[e])
    /\ mirror \in [Id -> Int \cup {NoRow}]
    /\ operation \in [Key -> [status : Status, date : Date \cup {NoDate}]]
    /\ want \in [Request -> [key : Key \cup {NoKey}, date : Date \cup {NoDate}]]
    /\ reply \in [Request -> {"none", "inserting", "accepted", "conflict"}]
    /\ phase \in [Worker -> {"idle", "funds", "bills", "fetched", "loaded", "committed"}]
    /\ job \in [Worker -> Key \cup {NoKey}]
    /\ page \in [Worker -> 0..(PageLimit - 1)]
    /\ got \in [Worker -> [Entry -> Nat]]
    /\ base \in [Worker -> [Id -> Int \cup {NoRow}]]
    /\ asOf \in [Worker -> [Entry -> Nat]]
    /\ alone \in [Worker -> BOOLEAN]
    /\ reading \in BOOLEAN
    /\ began \in [Id -> Int \cup {NoRow}]
    /\ torn \in BOOLEAN
    /\ faults \in 0..FaultBudget

Init ==
    /\ published = [f \in Feed |-> 0]
    /\ version   = [e \in Entry |-> 1]
    /\ mirror    = NoRows
    /\ operation = [k \in Key |-> NoOperation]
    /\ want      = [q \in Request |-> [key |-> NoKey, date |-> NoDate]]
    /\ reply     = [q \in Request |-> "none"]
    /\ phase     = [w \in Worker |-> "idle"]
    /\ job       = [w \in Worker |-> NoKey]
    /\ page      = [w \in Worker |-> 0]
    /\ got       = [w \in Worker |-> Nothing]
    /\ base      = [w \in Worker |-> NoRows]
    /\ asOf      = [w \in Worker |-> Nothing]
    /\ alone     = [w \in Worker |-> TRUE]
    /\ reading   = FALSE
    /\ began     = NoRows
    /\ torn      = FALSE
    /\ faults    = 0

-----------------------------------------------------------------------------
(* The platform *)

Listed(e) == e[2] <= published[e[1]]

Publish(f) ==
    /\ published[f] < Length[f]
    /\ published' = [published EXCEPT ![f] = @ + 1]
    /\ UNCHANGED <<version, mirror, operation, requests, slots, reader, faults>>

Amend(e) ==
    /\ Listed(e)
    /\ version[e] < Len(Amounts[e])
    /\ version' = [version EXCEPT ![e] = @ + 1]
    /\ UNCHANGED <<published, mirror, operation, requests, slots, reader, faults>>

-----------------------------------------------------------------------------
(* The request: sync_accounting and OperationService.enqueue *)

\* _ensure_same_request compares the payload, here the date.
EnsureSameRequest(r) ==
    IF operation[r.key].date = r.date THEN "accepted" ELSE "conflict"

\* The key is looked up; a known one is answered at once.
LookUp(q) ==
    /\ reply[q] = "none"
    /\ \E k \in Key, d \in Date :
          LET r == [key |-> k, date |-> d] IN
          /\ want'  = [want EXCEPT ![q] = r]
          /\ reply' = [reply EXCEPT ![q] = IF operation[k].status = "absent"
                                           THEN "inserting" ELSE EnsureSameRequest(r)]
    /\ UNCHANGED <<platform, mirror, operation, slots, reader, faults>>

\* Mutant of Loser: the row that won is returned as it is.
TakesTheRow(r) == "accepted"

\* The insert that violates the unique key (tenant, idempotency_key) is rolled
\* back, and the row that won is compared like one that was found.
Loser(r) == EnsureSameRequest(r)

Insert(q) ==
    LET r == want[q] IN
    /\ reply[q] = "inserting"
    /\ IF operation[r.key].status = "absent"
       THEN /\ operation' = [operation EXCEPT ![r.key] = [status |-> "queued", date |-> r.date]]
            /\ reply' = [reply EXCEPT ![q] = "accepted"]
       ELSE /\ reply' = [reply EXCEPT ![q] = Loser(r)]
            /\ UNCHANGED operation
    /\ UNCHANGED <<platform, mirror, want, slots, reader, faults>>

-----------------------------------------------------------------------------
(* The handler *)

Free(w) ==
    /\ phase' = [phase EXCEPT ![w] = "idle"]
    /\ job'   = [job EXCEPT ![w] = NoKey]
    /\ page'  = [page EXCEPT ![w] = 0]
    /\ got'   = [got EXCEPT ![w] = Nothing]
    /\ base'  = [base EXCEPT ![w] = NoRows]
    /\ asOf'  = [asOf EXCEPT ![w] = Nothing]
    /\ alone' = [alone EXCEPT ![w] = TRUE]

Claim(w, k) ==
    /\ phase[w] = "idle"
    /\ operation[k].status = "queued"
    /\ operation' = [operation EXCEPT ![k].status = "running"]
    /\ phase' = [phase EXCEPT ![w] = "funds"]
    /\ job'   = [job EXCEPT ![w] = k]
    /\ asOf'  = [asOf EXCEPT ![w] = [e \in Entry |-> IF Listed(e) THEN version[e] ELSE 0]]
    /\ UNCHANGED <<platform, mirror, requests, page, got, base, alone, reader, faults>>

FeedOf(w) == IF phase[w] = "funds" THEN "funds" ELSE operation[job[w]].date

\* Mutant of Extended: the last page, which comes without a cursor, is dropped.
WithoutLastPage(w, e) ==
    IF Listed(e) /\ published[e[1]] > e[2] THEN [got[w] EXCEPT ![e] = version[e]] ELSE got[w]

\* The page is added to what was read, then its cursor is looked at.
Extended(w, e) == IF Listed(e) THEN [got[w] EXCEPT ![e] = version[e]] ELSE got[w]

\* mark_failed: failed, or back in the queue.
Fail(w, s) ==
    /\ operation' = [operation EXCEPT ![job[w]].status = s]
    /\ Free(w)

Fault == faults < FaultBudget /\ faults' = faults + 1

\* Mutant of LimitReached: one page more.
PastLimit(n) == n > PageLimit

LimitReached(n) == n = PageLimit

\* A page without a cursor is the feed's last one; a cursor may lead to an
\* empty page.  PageLimit pages with a cursor are an error.
ReadPage(w) ==
    LET f == FeedOf(w)
        n == page[w] + 1
    IN
    /\ phase[w] \in {"funds", "bills"}
    /\ \E more \in BOOLEAN :
          /\ published[f] > n => more
          /\ IF more /\ LimitReached(n)
             THEN Fail(w, "failed")
             ELSE /\ got'   = [got EXCEPT ![w] = Extended(w, <<f, n>>)]
                  /\ page'  = [page EXCEPT ![w] = IF more THEN n ELSE 0]
                  /\ phase' = [phase EXCEPT ![w] = IF more THEN @
                                                   ELSE IF @ = "funds" THEN "bills" ELSE "fetched"]
                  /\ UNCHANGED <<operation, job, base, asOf, alone>>
    /\ UNCHANGED <<platform, mirror, requests, reader, faults>>

\* A terminal error, or a cursor that was answered before.
CallFails(w) ==
    /\ phase[w] \in {"funds", "bills"}
    /\ Fail(w, "failed")
    /\ UNCHANGED <<platform, mirror, requests, reader, faults>>

CallTimesOut(w) ==
    /\ phase[w] \in {"funds", "bills"}
    /\ Fault
    /\ Fail(w, "queued")
    /\ UNCHANGED <<platform, mirror, requests, reader>>

\* _as_int: an amount that cannot be read is zero.
AsInt(a) == IF a = Unreadable THEN 0 ELSE a

\* An entry is known by the id it carries, and a bill without one by the hash of
\* its product, order, code, index and time, unless all of them are blank.
ExternalId(e) == IF Given[e] = NoId /\ e[1] # "funds" THEN Identity[e] ELSE Given[e]

\* The entries read under an external id, the amount slot w has read for one of
\* them, and the last of them: the entries that end in one row are of one feed.
Under(w, i)   == {e \in Entry : got[w][e] > 0 /\ ExternalId(e) = i}
AmountOf(w, e) == AsInt(Amounts[e][got[w][e]])
LastOf(S)     == CHOOSE e \in S : \A d \in S : d[2] <= e[2]

\* The rows of what was read are looked up by their external ids; an entry
\* without one is skipped.
Load(w) ==
    /\ phase[w] = "fetched"
    /\ base'  = [base EXCEPT ![w] = [i \in Id |-> IF Under(w, i) # {} THEN mirror[i] ELSE NoRow]]
    /\ phase' = [phase EXCEPT ![w] = "loaded"]
    /\ UNCHANGED <<platform, mirror, operation, requests, job, page, got, asOf, alone, reader, faults>>

\* A row that was not found has been inserted since: the flush violates the
\* unique key (tenant, connection, external id).
Clashes(w) == \E i \in Id : Under(w, i) # {} /\ base[w][i] = NoRow /\ mirror[i] # NoRow

\* Entries of one id are assigned to one row in the order they were read, and
\* flushed between two look-ups: as soon as one of them differs from the loaded
\* row, the last one is what the row ends with.
Flushed(w) ==
    [i \in Id |-> IF \E e \in Under(w, i) : AmountOf(w, e) # base[w][i]
                  THEN AmountOf(w, LastOf(Under(w, i))) ELSE mirror[i]]

\* One transaction.  After a clash the session is of no use until it is rolled
\* back: mark_failed raises, and the slot ends with its operation running.
Commit(w) ==
    /\ phase[w] = "loaded"
    /\ IF Clashes(w)
       THEN Free(w) /\ UNCHANGED <<mirror, torn>>
       ELSE /\ mirror' = Flushed(w)
            /\ phase'  = [phase EXCEPT ![w] = "committed"]
            /\ got'    = [got EXCEPT ![w] = Nothing]
            /\ base'   = [base EXCEPT ![w] = NoRows]
            /\ asOf'   = [asOf EXCEPT ![w] = Nothing]
            /\ alone'  = [v \in Worker |-> v = w \/ phase[v] # "loaded"]
            /\ torn'   = reading
            /\ UNCHANGED <<job, page>>
    /\ UNCHANGED <<platform, operation, requests, reading, began, faults>>

MarkSucceeded(w) ==
    /\ phase[w] = "committed"
    /\ operation' = [operation EXCEPT ![job[w]].status = "succeeded"]
    /\ Free(w)
    /\ UNCHANGED <<platform, mirror, requests, reader, faults>>

Crash(w) ==
    /\ phase[w] # "idle"
    /\ Fault
    /\ Free(w)
    /\ UNCHANGED <<platform, mirror, operation, requests, reader>>

Abandoned(k) == operation[k].status = "running" /\ \A w \in Worker : job[w] # k

\* The lease of an operation whose slot has ended runs out, and it may be
\* claimed again.
LeaseExpires(k) ==
    /\ Abandoned(k)
    /\ operation' = [operation EXCEPT ![k].status = "queued"]
    /\ UNCHANGED <<platform, mirror, requests, slots, reader, faults>>

-----------------------------------------------------------------------------
(* reconciliation_summary of a request: two queries, and what is computed   *)
(* from the rows they return.                                               *)

ReadFunds ==
    /\ ~reading
    /\ reading' = TRUE
    /\ began' = mirror
    /\ UNCHANGED <<platform, mirror, operation, requests, slots, torn, faults>>

ReadBills ==
    /\ reading
    /\ reading' = FALSE
    /\ began' = NoRows
    /\ torn' = FALSE
    /\ UNCHANGED <<platform, mirror, operation, requests, slots, faults>>

\* What the two queries have returned when the second one has.
Seen == [i \in Id |-> IF i \in FundId THEN began[i] ELSE mirror[i]]

Funds(r) == {i \in FundId : r[i] # NoRow}
Bills(r) == {i \in BillId : r[i] # NoRow}

Total(r, S)    == SumFunctionOnSet(r, S)
Orders(S)      == {OrderOf[i] : i \in S} \ {NoOrder}
OfOrders(S, O) == {i \in S : OrderOf[i] \in O}
OfOrder(S, o)  == OfOrders(S, {o})
Orderless(S)   == OfOrder(S, NoOrder)

LinkedOrders(r) == Orders(Funds(r)) \cap Orders(Bills(r))

Difference(r, o) == Total(r, OfOrder(Funds(r), o)) - Total(r, OfOrder(Bills(r), o))
Differences(r)   == {o \in LinkedOrders(r) : Difference(r, o) # 0}
NetDifference(r) ==
    SumFunctionOnSet([o \in LinkedOrders(r) |-> Difference(r, o)], Differences(r))

\* Mutant of Unmatched: orders that only the other side lacks are not counted.
OrderlessOnly(S, T) == Cardinality(Orderless(S))

Unmatched(S, T) == Cardinality(Orderless(S)) + Cardinality(Orders(S) \ Orders(T))

-----------------------------------------------------------------------------
Next ==
    \/ \E f \in Feed : Publish(f)
    \/ \E e \in Entry : Amend(e)
    \/ \E q \in Request : LookUp(q) \/ Insert(q)
    \/ \E w \in Worker, k \in Key : Claim(w, k)
    \/ \E w \in Worker : \/ ReadPage(w) \/ CallFails(w) \/ CallTimesOut(w) \/ Load(w)
                         \/ Commit(w) \/ MarkSucceeded(w) \/ Crash(w)
    \/ \E k \in Key : LeaseExpires(k)
    \/ ReadFunds \/ ReadBills

Spec == Init /\ [][Next]_vars
-----------------------------------------------------------------------------
(* What the import guarantees *)

\* A key stands for one request: every request that was accepted under it
\* asked for what its operation does, also of those that both found the key
\* unused; and one that was refused asked for something else.
KeyDecides ==
    \A q \in Request :
        LET row == operation[want[q].key] IN
        reply[q] \in {"accepted", "conflict"} =>
            /\ row.status # "absent"
            /\ reply[q] = "accepted" <=> row.date = want[q].date

Clean(r) ==
    /\ Differences(r) = {}
    /\ Unmatched(Funds(r), Bills(r)) = 0
    /\ Unmatched(Bills(r), Funds(r)) = 0

\* What a reconciliation reports when its second query has returned.  The net
\* difference is the difference of the totals it has read, but for unmatched
\* rows.  If no import has committed between the two queries, a report without
\* findings is the truth: the two mirrors have the same total.  And whatever has
\* committed, an order it counts as one that only the funds have was one when it
\* began; that is not so for one that only the bills have, nor is a report
\* without findings the truth of any moment then.
SummaryIsHonest ==
    [][reading /\ ~reading' =>
          /\ NetDifference(Seen) = Total(Seen, OfOrders(Funds(Seen), LinkedOrders(Seen)))
                                     - Total(Seen, OfOrders(Bills(Seen), LinkedOrders(Seen)))
          /\ ~torn /\ Clean(Seen) => Total(mirror, Funds(mirror)) = Total(mirror, Bills(mirror))
          /\ Orders(Funds(Seen)) \ Orders(Bills(Seen))
                \subseteq Orders(Funds(began)) \ Orders(Bills(began))]_vars

\* A page that shows up while the pages are read, another import, a restart or
\* a clash never makes an import commit less than what was listed when it
\* began, but for entries without an id: there is a row, and unless another
\* import commits in between, its amount is that of the entry, as it was then or
\* as it was amended since, or of an entry behind it with the same id.
ImportIsComplete ==
    [][\A w \in Worker :
          phase[w] = "loaded" /\ phase'[w] = "committed" =>
              \A e \in Entry :
                  /\ e[1] \in {"funds", operation[job[w]].date}
                  /\ asOf[w][e] > 0
                  /\ ExternalId(e) # NoId
                  => /\ mirror'[ExternalId(e)] # NoRow
                     /\ alone[w] =>
                          \E d \in Entry :
                             /\ d[1] = e[1] /\ d[2] >= e[2] /\ ExternalId(d) = ExternalId(e)
                             /\ \E v \in 1..version[d] :
                                   /\ v >= asOf[w][d]
                                   /\ mirror'[ExternalId(e)] = AsInt(Amounts[d][v])]_vars
=============================================================================
