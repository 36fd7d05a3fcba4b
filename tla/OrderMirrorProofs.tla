-------------------------- MODULE OrderMirrorProofs --------------------------
(***************************************************************************)
(* What OrderMirror promises, for any orders, after-sales, requests, keys, *)
(* slots, callbacks and versions.                                          *)
(*                                                                         *)
(* Grounded ties the parts together: an operation has a row to write to, a *)
(* slot an operation, a request a key.  Versions says that an answer is at *)
(* least as new as the sync that asked for it, and Bases that a sync which *)
(* is alone with its item still knows the row as it is: so a flush, which  *)
(* writes only where the new columns differ from the known ones, leaves    *)
(* exactly the new ones.                                                   *)
(***************************************************************************)
EXTENDS OrderMirror, TLAPS

OperationRow == [status : Status, item : Item \cup {NoItem}]

\* Where a slot is while its sync is under way.
Syncing == {"calling", "answered", "loaded"}

Grounded ==
    /\ \A k \in Key : operation[k].status = "absent" => operation[k].item = NoItem
    /\ \A k \in Key : operation[k].status # "absent" => operation[k].item \in rows
    /\ \A w \in Worker : phase[w] # "idle" =>
          job[w] \in Key /\ operation[job[w]].status # "absent"
    /\ \A q \in Request : reply[q] # "none" => want[q].key \in Key /\ want[q].item \in Item
    /\ \A e \in Event : event[e] # "unsent" => about[e].order \in Order
    /\ \A i \in Item \ rows : head[i] = PendingSync

\* Rows and operations that are there stay, and an operation keeps its item.
RowsStay ==
    /\ rows \subseteq rows'
    /\ \A k \in Key : operation[k].status # "absent" =>
          operation'[k].status # "absent" /\ operation'[k].item = operation[k].item

-----------------------------------------------------------------------------
(* Types *)

\* The columns of a version.
LEMMA ColumnsTyped ==
  ASSUME NEW v \in Version, NEW i \in Item
  PROVE  /\ Head[v] \in Heads /\ Head[v] \notin {PendingSync, Paid}
         /\ TailOf(i, v) \in Tails
  BY OrderAssumption DEF Heads, Tails, TailOf, PendingSync, Paid

LEMMA OrderIsItem == Order \subseteq Item /\ NoItem \notin Item /\ 1 \in Version
  BY OrderAssumption DEF Item, Version

LEMMA InitTyped == Init => TypeOK /\ Grounded
<1> SUFFICES ASSUME Init PROVE TypeOK /\ Grounded
  OBVIOUS
<1>1. TypeOK
  BY OrderIsItem, OrderAssumption
     DEF Init, TypeOK, Heads, Tails, Columns, Unloaded, Voucher, Status, NothingRead
<1>2. Grounded
  BY DEF Init, Grounded
<1>3. QED
  BY <1>1, <1>2

\* What a slot writes to the row of its operation keeps types, rows and items.
LEMMA StatusStays ==
  ASSUME TypeOK, Grounded, NEW k \in Key, NEW s \in Status \ {"absent"},
         operation[k].status # "absent", rows' = rows,
         operation' = [operation EXCEPT ![k].status = s]
  PROVE  /\ operation' \in [Key -> OperationRow]
         /\ RowsStay
         /\ \A j \in Key : /\ operation'[j].item = operation[j].item
                           /\ operation'[j].status = "absent" <=> operation[j].status = "absent"
<1>1. operation' \in [Key -> OperationRow]
  BY DEF TypeOK, OperationRow
<1>2. \A j \in Key : /\ operation'[j].item = operation[j].item
                     /\ operation'[j].status = IF j = k THEN s ELSE operation[j].status
  BY DEF TypeOK
<1>3. QED
  BY <1>1, <1>2 DEF RowsStay

LEMMA FreeTyped ==
  ASSUME TypeOK, NEW w \in Worker, Free(w)
  PROVE  /\ phase' \in [Worker -> {"idle", "calling", "answered", "loaded", "committed"}]
         /\ job'  \in [Worker -> Key \cup {NoKey}]
         /\ base' \in [Worker -> Columns]
         /\ got'  \in [Worker -> Version]
         /\ held' \in [Worker -> Voucher]
         /\ asOf' \in [Worker -> Version]
         /\ \A v \in Worker : phase'[v] # "idle" => v # w /\ phase'[v] = phase[v] /\ job'[v] = job[v]
<1>1. Unloaded \in Columns
  BY DEF Unloaded, Columns, Heads, Tails
<1>2. QED
  BY <1>1, OrderIsItem DEF TypeOK, Free, Voucher

\* A slot's step that keeps the rows, and the items of operations, is grounded.
LEMMA SlotGrounded ==
  ASSUME Grounded,
         \A j \in Key : /\ operation'[j].item = operation[j].item
                        /\ operation'[j].status = "absent" <=> operation[j].status = "absent",
         \A v \in Worker : phase'[v] # "idle" =>
             job'[v] \in Key /\ operation[job'[v]].status # "absent",
         \A i \in Item \ rows : head'[i] = head[i],
         UNCHANGED <<rows, requests, events>>
  PROVE  Grounded'
  BY DEF Grounded, requests, events

\* The end of a handler: mark_failed, mark_succeeded.
LEMMA FailTyped ==
  ASSUME TypeOK, Grounded, NEW w \in Worker, NEW s \in Status \ {"absent"},
         phase[w] # "idle", Fail(w, s), UNCHANGED <<version, rows, tail, voucher, requests, events>>,
         head' \in [Item -> Heads], \A i \in Item \ rows : head'[i] = head[i],
         alone' \in [Worker -> BOOLEAN], mixed' \subseteq Item, faults' \in 0..FaultBudget
  PROVE  TypeOK' /\ Grounded' /\ RowsStay
<1>1. job[w] \in Key /\ operation[job[w]].status # "absent"
  BY DEF Grounded
<1>2. /\ operation' \in [Key -> OperationRow] /\ RowsStay
      /\ \A j \in Key : /\ operation'[j].item = operation[j].item
                        /\ operation'[j].status = "absent" <=> operation[j].status = "absent"
  BY <1>1, StatusStays DEF Fail
<1>3. TypeOK'
  BY <1>2, FreeTyped DEF TypeOK, Fail, requests, events, OperationRow
<1>4. \A v \in Worker : phase'[v] # "idle" => job'[v] \in Key /\ operation[job'[v]].status # "absent"
  BY FreeTyped DEF Fail, Grounded
<1>5. QED
  BY <1>2, <1>3, <1>4, SlotGrounded

\* The platform.
LEMMA PlatformTyped ==
  ASSUME TypeOK, Grounded,
         (\E i \in Item : Advance(i)) \/ (\E e \in Event : Send(e))
  PROVE  TypeOK' /\ Grounded' /\ RowsStay
<1>1. ASSUME NEW i \in Item, Advance(i)
      PROVE  TypeOK' /\ Grounded' /\ RowsStay
  BY <1>1 DEF TypeOK, Grounded, RowsStay, Advance, row, requests, slots, events
<1>2. ASSUME NEW e \in Event, Send(e)
      PROVE  TypeOK' /\ Grounded' /\ RowsStay
  <2>1. PICK o \in Order, named \in BOOLEAN :
          about' = [about EXCEPT ![e] = [order |-> o, named |-> named]]
    BY <1>2 DEF Send
  <2>2. event' = [event EXCEPT ![e] = "waiting"]
        /\ UNCHANGED <<version, row, voucher, operation, requests, slots, read, mixed, faults>>
    BY <1>2 DEF Send
  <2>3. QED
    BY <2>1, <2>2 DEF TypeOK, Grounded, RowsStay, row, requests, slots
<1>3. QED
  BY <1>1, <1>2

\* The request.
LEMMA RequestTyped ==
  ASSUME TypeOK, Grounded, NEW q \in Request, LookUp(q) \/ FindRow(q) \/ Enqueue(q)
  PROVE  TypeOK' /\ Grounded' /\ RowsStay
<1>1. CASE LookUp(q)
  <2>1. PICK k \in Key, i \in Item :
          /\ want' = [want EXCEPT ![q] = [key |-> k, item |-> i]]
          /\ reply' = [reply EXCEPT ![q] =
                IF i \in AfterSale /\ OrderOf[i] \notin rows THEN "rejected"
                ELSE IF Unused(k) THEN "looking"
                ELSE IF operation[k].item = i THEN "accepted" ELSE "conflict"]
    BY <1>1 DEF LookUp
  <2>2. /\ want' \in [Request -> [key : Key \cup {NoKey}, item : Item \cup {NoItem}]]
        /\ \A p \in Request : p # q => want'[p] = want[p] /\ reply'[p] = reply[p]
        /\ want'[q].key \in Key /\ want'[q].item \in Item
    BY <2>1 DEF TypeOK
  <2>3. reply' \in [Request -> {"none", "looking", "found", "missing",
                                "accepted", "conflict", "rejected", "error"}]
    BY <2>1 DEF TypeOK
  <2>4. UNCHANGED <<version, row, voucher, operation, slots, events, mixed, faults>>
    BY <1>1 DEF LookUp
  <2>5. QED
    BY <2>2, <2>3, <2>4 DEF TypeOK, Grounded, RowsStay, row, slots, events
<1>2. CASE FindRow(q)
  BY <1>2 DEF FindRow, TypeOK, Grounded, RowsStay, row, slots, events
<1>3. CASE Enqueue(q)
  <2> DEFINE k == want[q].key
             i == want[q].item
  <2>1. /\ reply[q] \in {"found", "missing"} /\ k \in Key /\ i \in Item
        /\ UNCHANGED <<version, head, tail, voucher, want, slots, events, mixed, faults>>
    BY <1>3 DEF Enqueue, Grounded
  <2>2. PICK r \in {"accepted", "conflict", "error"} : reply' = [reply EXCEPT ![q] = r]
    BY <1>3 DEF Enqueue
  <2>3. reply' \in [Request -> {"none", "looking", "found", "missing",
                                "accepted", "conflict", "rejected", "error"}]
        /\ \A p \in Request : reply'[p] # "none" => reply[p] # "none"
    BY <2>1, <2>2 DEF TypeOK
  <2>4. CASE UNCHANGED <<rows, operation>>
    BY <2>1, <2>3, <2>4 DEF TypeOK, Grounded, RowsStay, slots, events
  <2>5. CASE /\ Unused(k) /\ rows' = rows \cup {i}
             /\ operation' = [operation EXCEPT ![k] = [status |-> "queued", item |-> i]]
    <3>1. /\ operation' \in [Key -> OperationRow]
          /\ operation'[k].status = "queued" /\ operation'[k].item = i
          /\ \A j \in Key \ {k} : operation'[j] = operation[j]
      BY <2>1, <2>5 DEF TypeOK, OperationRow, Status
    <3>2. RowsStay
      BY <2>5, <3>1 DEF RowsStay, Unused
    <3>3. TypeOK'
      BY <2>1, <2>3, <2>5, <3>1 DEF TypeOK, OperationRow, slots, events
    <3>4. QED
      BY <2>1, <2>3, <2>5, <3>1, <3>2, <3>3 DEF Grounded, Unused, slots, events
  <2>6. UNCHANGED <<rows, operation>> \/
        /\ Unused(k) /\ rows' = rows \cup {i}
        /\ operation' = [operation EXCEPT ![k] = [status |-> "queued", item |-> i]]
    BY <1>3 DEF Enqueue, RolledBack
  <2>7. QED
    BY <2>4, <2>5, <2>6
<1>4. QED
  BY <1>1, <1>2, <1>3

\* A slot begins.
LEMMA StartTyped ==
  ASSUME TypeOK, Grounded, NEW w \in Worker, NEW k \in Key, Start(w, k)
  PROVE  TypeOK' /\ Grounded' /\ RowsStay
<1> DEFINE i == operation[k].item
<1>1. i \in Item
  BY DEF Start, Grounded, TypeOK
<1>2. /\ operation' \in [Key -> OperationRow] /\ RowsStay
      /\ \A j \in Key : /\ operation'[j].item = operation[j].item
                        /\ operation'[j].status = "absent" <=> operation[j].status = "absent"
  BY StatusStays DEF Start, Status, row
<1>3. base' \in [Worker -> Columns] /\ asOf' \in [Worker -> Version]
  BY <1>1 DEF Start, TypeOK, Columns
<1>4. TypeOK'
  BY <1>2, <1>3 DEF Start, TypeOK, OperationRow, row, requests, events
<1>5. \A v \in Worker : phase'[v] # "idle" => job'[v] \in Key /\ operation[job'[v]].status # "absent"
  BY DEF Start, TypeOK, Grounded
<1>6. QED
  BY <1>2, <1>4, <1>5, SlotGrounded DEF Start, row

\* The platform answers.
LEMMA CallTyped ==
  ASSUME TypeOK, Grounded, NEW w \in Worker, Call(w)
  PROVE  TypeOK' /\ Grounded' /\ RowsStay
<1>1. ItemOf(w) \in Item
  BY DEF Call, ItemOf, Grounded, TypeOK
<1>2. got' \in [Worker -> Version]
  BY <1>1 DEF Call, TypeOK
<1>3. TypeOK'
  BY <1>2 DEF Call, TypeOK, row, requests, events
<1>4. QED
  BY <1>3 DEF Call, TypeOK, Grounded, RowsStay, row, requests, events

\* What a flush writes is a column, and a row that is not there is not written.
LEMMA FlushTyped ==
  ASSUME TypeOK, Grounded, NEW w \in Worker, phase[w] # "idle"
  PROVE  LET i == ItemOf(w) IN
         /\ i \in rows /\ i \in Item
         /\ [head EXCEPT ![i] = Flushed(Head[got[w]], base[w].head, head[i])] \in [Item -> Heads]
         /\ [tail EXCEPT ![i] = Flushed(TailOf(i, got[w]), base[w].tail, tail[i])] \in [Item -> Tails]
<1> DEFINE i == ItemOf(w)
<1>1. i \in rows /\ i \in Item
  BY DEF ItemOf, Grounded, TypeOK
<1>2. got[w] \in Version
  BY DEF TypeOK
<1>3. Head[got[w]] \in Heads /\ TailOf(i, got[w]) \in Tails
  BY <1>1, <1>2, ColumnsTyped
<1>4. QED
  BY <1>1, <1>3 DEF TypeOK, Flushed

LEMMA AssignTyped ==
  ASSUME TypeOK, Grounded, NEW w \in Worker, Assign(w)
  PROVE  TypeOK' /\ Grounded' /\ RowsStay
<1> DEFINE i == ItemOf(w)
           v == got[w]
<1>1. phase[w] = "answered" /\ i \in rows /\ i \in Item
  BY FlushTyped DEF Assign
<1>2. CASE Converts(i, v)
  <2>1. held' \in [Worker -> Voucher]
    BY <1>2 DEF Assign, TypeOK
  <2>2. TypeOK'
    BY <1>2, <2>1 DEF Assign, TypeOK, requests, events
  <2>3. QED
    BY <1>2, <2>2 DEF Assign, Grounded, RowsStay, TypeOK, requests, events
<1>3. CASE ~Converts(i, v)
  <2>1. /\ head' = [head EXCEPT ![i] = Flushed(Head[v], base[w].head, head[i])]
        /\ Writes(w) /\ Fail(w, "failed")
        /\ UNCHANGED <<version, rows, tail, voucher, requests, events, faults>>
    BY <1>3 DEF Assign
  <2>2. head' \in [Item -> Heads] /\ \A j \in Item \ rows : head'[j] = head[j]
    BY <1>1, <2>1, FlushTyped DEF TypeOK
  <2>3. alone' \in [Worker -> BOOLEAN] /\ mixed' \subseteq Item
    BY <1>1, <2>1 DEF Writes, TypeOK
  <2>4. QED
    BY <1>1, <2>1, <2>2, <2>3, FailTyped DEF Status, TypeOK
<1>4. QED
  BY <1>2, <1>3

LEMMA CommitTyped ==
  ASSUME TypeOK, Grounded, NEW w \in Worker, Commit(w)
  PROVE  TypeOK' /\ Grounded' /\ RowsStay
<1> DEFINE i == ItemOf(w)
           v == got[w]
<1>1. phase[w] = "loaded" /\ i \in rows /\ i \in Item
  BY FlushTyped DEF Commit
<1>2. CASE Clashes(w)
  <2>1. Free(w) /\ UNCHANGED <<version, row, voucher, operation, requests, alone, events, mixed, faults>>
    BY <1>2 DEF Commit, row
  <2>2. TypeOK'
    BY <2>1, FreeTyped DEF TypeOK, row, requests, events
  <2>3. QED
    BY <2>1, <2>2, FreeTyped DEF Grounded, RowsStay, row, requests, events
<1>3. CASE ~Clashes(w)
  <2>1. /\ head' = [head EXCEPT ![i] = Flushed(Head[v], base[w].head, head[i])]
        /\ tail' = [tail EXCEPT ![i] = Flushed(TailOf(i, v), base[w].tail, tail[i])]
        /\ voucher' = IF Lists(i, v) THEN [voucher EXCEPT ![i] = "linked"] ELSE voucher
        /\ Writes(w)
        /\ phase' = [phase EXCEPT ![w] = "committed"]
        /\ UNCHANGED <<job, base, got, held, asOf>>
        /\ UNCHANGED <<version, rows, operation, requests, events, faults>>
    BY <1>3 DEF Commit
  <2>2. /\ head' \in [Item -> Heads] /\ \A j \in Item \ rows : head'[j] = head[j]
        /\ tail' \in [Item -> Tails]
    BY <1>1, <2>1, FlushTyped DEF TypeOK
  <2>3. alone' \in [Worker -> BOOLEAN] /\ mixed' \subseteq Item
    BY <1>1, <2>1 DEF Writes, TypeOK
  <2>4. voucher' \in [Order -> Voucher]
    BY <2>1 DEF TypeOK, Voucher
  <2>5. TypeOK'
    BY <2>1, <2>2, <2>3, <2>4 DEF TypeOK, requests, events
  <2>6. QED
    BY <1>1, <2>1, <2>2, <2>5 DEF Grounded, RowsStay, TypeOK, requests, events
<1>4. QED
  BY <1>2, <1>3

\* A call that fails, the mark, the end of a slot and of its lease.
LEMMA EndTyped ==
  ASSUME TypeOK, Grounded,
         NEW w \in Worker, CallFails(w) \/ MarkSucceeded(w) \/ Crash(w)
  PROVE  TypeOK' /\ Grounded' /\ RowsStay
<1>1. faults' \in 0..FaultBudget
  BY OrderAssumption DEF CallFails, MarkSucceeded, Crash, Fault, TypeOK
<1>2. /\ phase[w] # "idle"
      /\ UNCHANGED <<version, row, voucher, requests, alone, events, mixed>>
  BY DEF CallFails, MarkSucceeded, Crash
<1>3. CASE \E s \in Status \ {"absent"} : Fail(w, s)
  BY <1>1, <1>2, <1>3, FailTyped DEF TypeOK, row
<1>4. CASE Crash(w)
  <2>1. Free(w) /\ operation' = operation
    BY <1>4 DEF Crash
  <2>2. TypeOK'
    BY <1>1, <1>2, <2>1, FreeTyped DEF TypeOK, row, requests, events
  <2>3. QED
    BY <1>2, <2>1, <2>2, FreeTyped DEF Grounded, RowsStay, row, requests, events
<1>5. QED
  BY <1>3, <1>4 DEF CallFails, MarkSucceeded, Fail, Status

LEMMA LeaseTyped ==
  ASSUME TypeOK, Grounded, NEW k \in Key, LeaseExpires(k)
  PROVE  TypeOK' /\ Grounded' /\ RowsStay
<1>1. /\ operation' \in [Key -> OperationRow] /\ RowsStay
      /\ \A j \in Key : /\ operation'[j].item = operation[j].item
                        /\ operation'[j].status = "absent" <=> operation[j].status = "absent"
  BY StatusStays DEF LeaseExpires, Status, row
<1>2. TypeOK'
  BY <1>1 DEF LeaseExpires, TypeOK, OperationRow, row, requests, slots, events
<1>3. QED
  BY <1>1, <1>2 DEF LeaseExpires, Grounded, row, requests, slots, events

\* The callback.
LEMMA EventTyped ==
  ASSUME TypeOK, Grounded, NEW e \in Event, LoadEvent(e) \/ ApplyEvent(e) \/ EventAborts(e)
  PROVE  TypeOK' /\ Grounded' /\ RowsStay
<1> DEFINE o == about[e].order
<1>1. event[e] # "unsent" /\ o \in Order /\ o \in Item /\ voucher[o] \in Voucher
  BY OrderIsItem DEF LoadEvent, ApplyEvent, EventAborts, Grounded, TypeOK
<1>2. event' \in [Event -> {"unsent", "waiting", "loaded", "processed"}]
      /\ \A d \in Event : event'[d] # "unsent" => event[d] # "unsent"
  BY <1>1 DEF LoadEvent, ApplyEvent, EventAborts, AfterClash, TypeOK
<1>3. read' \in [Event -> [row : BOOLEAN, voucher : Voucher]]
  <2>1. NothingRead \in [row : BOOLEAN, voucher : Voucher]
    BY DEF NothingRead, Voucher
  <2>2. [row |-> o \in rows, voucher |-> voucher[o]] \in [row : BOOLEAN, voucher : Voucher]
    BY <1>1
  <2>3. PICK r \in [row : BOOLEAN, voucher : Voucher] : read' = [read EXCEPT ![e] = r]
    BY <2>1, <2>2 DEF LoadEvent, ApplyEvent, EventAborts
  <2>4. QED
    BY <2>3 DEF TypeOK
<1>4. faults' \in 0..FaultBudget
  BY OrderAssumption DEF LoadEvent, ApplyEvent, EventAborts, Fault, TypeOK
<1>5. UNCHANGED <<version, tail, operation, requests, slots, about, mixed>>
  BY DEF LoadEvent, ApplyEvent, EventAborts, row
<1>6. /\ rows' \subseteq Item /\ rows \subseteq rows' /\ head' \in [Item -> Heads]
      /\ \A i \in Item \ rows' : head'[i] = head[i]
  <2>1. CASE UNCHANGED row
    BY <2>1 DEF TypeOK, row
  <2>2. CASE rows' = (IF about[e].named THEN rows \cup {o} ELSE rows)
             /\ head' = IF about[e].named /\ o \notin rows THEN [head EXCEPT ![o] = Paid] ELSE head
    BY <1>1, <2>2 DEF TypeOK, Heads
  <2>3. QED
    BY <2>1, <2>2 DEF LoadEvent, ApplyEvent, EventAborts, row
<1>7. voucher' \in [Order -> Voucher]
  <2>1. Linked(e) \in Voucher
    BY <1>1 DEF Linked, Voucher
  <2>2. voucher' = voucher \/ voucher' = [voucher EXCEPT ![o] = Linked(e)]
    BY DEF LoadEvent, ApplyEvent, EventAborts
  <2>3. QED
    BY <2>1, <2>2 DEF TypeOK
<1>8. TypeOK'
  BY <1>2, <1>3, <1>4, <1>5, <1>6, <1>7 DEF TypeOK, requests, slots
<1>9. QED
  BY <1>2, <1>5, <1>6, <1>8 DEF Grounded, RowsStay, requests, slots

LEMMA StepTyped ==
  ASSUME TypeOK, Grounded, [Next]_vars
  PROVE  TypeOK' /\ Grounded' /\ RowsStay
<1>1. CASE UNCHANGED vars
  BY <1>1 DEF TypeOK, Grounded, RowsStay, vars, row, requests, slots, events
<1>2. QED
  BY <1>1, PlatformTyped, RequestTyped, StartTyped, CallTyped, AssignTyped, CommitTyped,
     EndTyped, LeaseTyped, EventTyped DEF Next

\* The types of rows, operations, requests, slots and callbacks are preserved
\* by every step of them and of the platform.
THEOREM TypeCorrect == Spec => []TypeOK
<1>1. Init => TypeOK /\ Grounded
  BY InitTyped
<1>2. TypeOK /\ Grounded /\ [Next]_vars => (TypeOK /\ Grounded)'
  BY StepTyped
<1>3. QED
  BY <1>1, <1>2, PTL DEF Spec

-----------------------------------------------------------------------------
(* Requests *)

\* Steps of the handlers and callbacks: the requests, and what is queued.
LEMMA RequestSteps ==
  ASSUME [Next]_vars
  PROVE  UNCHANGED requests \/ \E q \in Request : LookUp(q) \/ FindRow(q) \/ Enqueue(q)
<1>1. ASSUME NEW w \in Worker, Call(w) \/ CallFails(w) \/ Assign(w) \/ Commit(w)
                                 \/ MarkSucceeded(w) \/ Crash(w)
      PROVE  UNCHANGED requests
  BY <1>1 DEF Call, CallFails, Assign, Commit, MarkSucceeded, Crash
<1>2. QED
  BY <1>1 DEF Next, vars, Advance, Start, LeaseExpires, Send, LoadEvent, ApplyEvent, EventAborts

\* A row that becomes one has an operation for it, or a callback that paid it;
\* and none goes back to pending.
LEMMA HeadSteps ==
  ASSUME TypeOK, Grounded, [Next]_vars, NEW i \in rows', head'[i] = PendingSync
  PROVE  /\ i \in rows => head[i] = PendingSync
         /\ i \notin rows => \E k \in Key : operation'[k].item = i
<1>1. ASSUME NEW q \in Request, Enqueue(q)
      PROVE  head' = head /\ (i \in rows \/ \E k \in Key : operation'[k].item = i)
  <2> DEFINE k == want[q].key
  <2>1. k \in Key
    BY <1>1 DEF Enqueue, Grounded
  <2>2. CASE operation' = [operation EXCEPT ![k] = [status |-> "queued", item |-> want[q].item]]
             /\ rows' = rows \cup {want[q].item}
    BY <1>1, <2>1, <2>2 DEF Enqueue, TypeOK
  <2>3. CASE rows' = rows
    BY <1>1, <2>3 DEF Enqueue
  <2>4. QED
    BY <1>1, <2>2, <2>3 DEF Enqueue, RolledBack
<1>2. ASSUME NEW e \in Event, ApplyEvent(e)
      PROVE  i \in rows /\ head[i] = PendingSync
  <2>1. about[e].order \in Item
    BY <1>2, OrderIsItem DEF ApplyEvent, Grounded
  <2>2. QED
    BY <1>2, <2>1 DEF ApplyEvent, row, TypeOK, Paid, PendingSync
<1>3. ASSUME NEW w \in Worker, Assign(w) \/ Commit(w)
      PROVE  i \in rows /\ head[i] = PendingSync
  <2>1. rows' = rows
    BY <1>3 DEF Assign, Commit
  <2>2. phase[w] # "idle" /\ got[w] \in Version
    BY <1>3 DEF Assign, Commit, TypeOK
  <2>3. Head[got[w]] # PendingSync
    BY <2>2, OrderAssumption DEF PendingSync
  <2>4. head' = head \/ head' = [head EXCEPT ![ItemOf(w)] =
                                    Flushed(Head[got[w]], base[w].head, head[ItemOf(w)])]
    BY <1>3 DEF Assign, Commit
  <2>5. i \in Item
    BY <2>1 DEF TypeOK
  <2>6. QED
    BY <2>1, <2>3, <2>4, <2>5 DEF Flushed, TypeOK
<1>4. ASSUME NEW w \in Worker, Call(w) \/ CallFails(w) \/ MarkSucceeded(w) \/ Crash(w)
      PROVE  UNCHANGED row
  BY <1>4 DEF Call, CallFails, MarkSucceeded, Crash
<1>5. CASE UNCHANGED row
  BY <1>5 DEF row
<1>6. QED
  BY <1>1, <1>2, <1>3, <1>4, <1>5
     DEF Next, vars, Advance, LookUp, FindRow, Start, LeaseExpires, Send, LoadEvent, EventAborts

LEMMA StepEnqueue ==
  ASSUME TypeOK, Grounded, EnqueueIsWhole, [Next]_vars
  PROVE  EnqueueIsWhole'
<1>1. TypeOK' /\ Grounded' /\ RowsStay
  BY StepTyped
<1>2. ASSUME NEW i \in rows', head'[i] = PendingSync
      PROVE  \E k \in Key : operation'[k].item = i
  <2>1. CASE i \in rows
    <3>1. PICK k \in Key : operation[k].item = i
      BY <1>2, <2>1, HeadSteps DEF EnqueueIsWhole
    <3>2. operation[k].status # "absent"
      BY <2>1, <3>1, OrderIsItem DEF Grounded, TypeOK
    <3>3. QED
      BY <1>1, <3>1, <3>2 DEF RowsStay
  <2>2. QED
    BY <1>2, <2>1, HeadSteps
<1>3. \A k \in Key : ~Unused(k)' => operation'[k].item \in rows'
  BY <1>1 DEF Unused, Grounded
<1>4. ASSUME NEW p \in Request, reply'[p] = "accepted"
      PROVE  operation'[want'[p].key].item = want'[p].item
  <2>1. CASE reply[p] = "accepted" /\ want'[p] = want[p]
    <3>1. /\ want[p].key \in Key /\ want[p].item \in Item
          /\ operation[want[p].key].item = want[p].item
      BY <2>1 DEF Grounded, EnqueueIsWhole
    <3>2. operation[want[p].key].status # "absent"
      BY <3>1, OrderIsItem DEF Grounded
    <3>3. QED
      BY <1>1, <2>1, <3>1, <3>2 DEF RowsStay
  <2>2. CASE UNCHANGED requests
    BY <1>4, <2>1, <2>2 DEF requests
  <2>3. ASSUME NEW q \in Request, LookUp(q)
        PROVE  operation'[want'[p].key].item = want'[p].item
    <3>1. PICK k \in Key, i \in Item :
            /\ want' = [want EXCEPT ![q] = [key |-> k, item |-> i]]
            /\ reply' = [reply EXCEPT ![q] =
                  IF i \in AfterSale /\ OrderOf[i] \notin rows THEN "rejected"
                  ELSE IF Unused(k) THEN "looking"
                  ELSE IF operation[k].item = i THEN "accepted" ELSE "conflict"]
            /\ operation' = operation
      BY <2>3 DEF LookUp
    <3>2. CASE p = q
      BY <1>4, <3>1, <3>2 DEF TypeOK
    <3>3. CASE p # q
      BY <1>4, <2>1, <3>1, <3>3 DEF TypeOK
    <3>4. QED
      BY <3>2, <3>3
  <2>4. ASSUME NEW q \in Request, FindRow(q)
        PROVE  operation'[want'[p].key].item = want'[p].item
    BY <1>4, <2>1, <2>4 DEF FindRow, TypeOK
  <2>5. ASSUME NEW q \in Request, Enqueue(q)
        PROVE  operation'[want'[p].key].item = want'[p].item
    <3>1. want' = want /\ want[q].key \in Key
      BY <2>5 DEF Enqueue, Grounded
    <3>2. CASE p = q
      BY <1>4, <2>5, <3>1, <3>2 DEF Enqueue, TypeOK
    <3>3. CASE p # q
      BY <1>4, <2>1, <2>5, <3>1, <3>3 DEF Enqueue, TypeOK
    <3>4. QED
      BY <3>2, <3>3
  <2>6. QED
    BY <2>2, <2>3, <2>4, <2>5, RequestSteps
<1>5. QED
  BY <1>2, <1>3, <1>4 DEF EnqueueIsWhole

-----------------------------------------------------------------------------
(* Syncs *)

\* An answer is not older than the sync, and not newer than the platform.
Versions(w) ==
    /\ phase[w] \in Syncing => asOf[w] <= version[ItemOf(w)]
    /\ phase[w] \in {"answered", "loaded"} =>
          asOf[w] <= got[w] /\ got[w] <= version[ItemOf(w)]

\* A sync that is alone knows the row as it is.
Bases(w) ==
    phase[w] \in Syncing /\ alone[w] =>
        base[w].head = head[ItemOf(w)] /\ base[w].tail = tail[ItemOf(w)]

SyncsAreSound == \A w \in Worker : Versions(w) /\ Bases(w)

SlotStays(v) ==
    /\ phase'[v] = phase[v] /\ job'[v] = job[v] /\ base'[v] = base[v]
    /\ got'[v] = got[v] /\ asOf'[v] = asOf[v]

\* The columns of the item of slot v are left alone, or v is not alone any more.
ColumnsKept(v) ==
    phase[v] \in Syncing /\ alone'[v] =>
        /\ alone[v]
        /\ head'[ItemOf(v)] = head[ItemOf(v)]
        /\ tail'[ItemOf(v)] = tail[ItemOf(v)]

SlotStep(w) ==
    \/ \E k \in Key : Start(w, k)
    \/ Call(w) \/ CallFails(w) \/ Assign(w) \/ Commit(w) \/ MarkSucceeded(w) \/ Crash(w)

OtherStep ==
    \/ \E i \in Item : Advance(i)
    \/ \E q \in Request : LookUp(q) \/ FindRow(q) \/ Enqueue(q)
    \/ \E k \in Key : LeaseExpires(k)
    \/ \E e \in Event : Send(e) \/ LoadEvent(e) \/ ApplyEvent(e) \/ EventAborts(e)
    \/ UNCHANGED vars

LEMMA Steps == [Next]_vars => OtherStep \/ \E w \in Worker : SlotStep(w)
  BY DEF Next, OtherStep, SlotStep

LEMMA OthersStay ==
  ASSUME TypeOK, NEW w \in Worker, SlotStep(w), NEW v \in Worker \ {w}
  PROVE  SlotStays(v)
<1>1. CASE Free(w)
  BY <1>1 DEF Free, SlotStays, TypeOK
<1>2. CASE ~Free(w) /\ (Assign(w) \/ Commit(w))
  BY <1>2 DEF Assign, Commit, Fail, SlotStays, TypeOK
<1>3. CASE ~Free(w) /\ ~(Assign(w) \/ Commit(w))
  BY <1>3 DEF SlotStep, Start, Call, CallFails, Fail, MarkSucceeded, Crash, SlotStays, TypeOK
<1>4. QED
  BY <1>1, <1>2, <1>3

\* Versions only grow, and items once mixed stay so.
LEMMA Grows ==
  ASSUME TypeOK, [Next]_vars
  PROVE  /\ \A i \in Item : version[i] <= version'[i] /\ version[i] \in Nat /\ version'[i] \in Nat
         /\ mixed \subseteq mixed'
<1> DEFINE Newer == \A i \in Item : version[i] <= version'[i] /\ version[i] \in Nat /\ version'[i] \in Nat
<1>1. \A i \in Item : version[i] \in Nat
  BY DEF TypeOK, Version
<1>2. ASSUME version' = version
      PROVE  Newer
  BY <1>1, <1>2
<1>3. ASSUME NEW j \in Item, Advance(j)
      PROVE  Newer
  BY <1>1, <1>3 DEF Advance, TypeOK
<1>4. ASSUME NEW w \in Worker, SlotStep(w)
      PROVE  version' = version /\ mixed \subseteq mixed'
  BY <1>4 DEF SlotStep, Start, Call, CallFails, Assign, Commit, MarkSucceeded, Crash, Writes
<1>5. OtherStep => mixed' = mixed
  BY DEF OtherStep, Advance, LookUp, FindRow, Enqueue, LeaseExpires, Send, LoadEvent,
         ApplyEvent, EventAborts, vars
<1>6. OtherStep => version' = version \/ \E j \in Item : Advance(j)
  BY DEF OtherStep, LookUp, FindRow, Enqueue, LeaseExpires, Send, LoadEvent,
         ApplyEvent, EventAborts, vars
<1>7. Newer
  BY <1>2, <1>3, <1>4, <1>6, Steps
<1>8. mixed \subseteq mixed'
  BY <1>4, <1>5, Steps
<1>9. QED
  BY <1>7, <1>8

\* A slot at work has an item with a row.
LEMMA ItemTyped ==
  ASSUME TypeOK, Grounded, NEW w \in Worker, phase[w] # "idle"
  PROVE  /\ ItemOf(w) \in rows /\ ItemOf(w) \in Item
         /\ RowsStay /\ job'[w] = job[w] => ItemOf(w)' = ItemOf(w)
  BY DEF TypeOK, Grounded, ItemOf, RowsStay

\* A slot that writes a row makes the other syncs of its item know it.
LEMMA WritesKeep ==
  ASSUME TypeOK, Grounded, NEW w \in Worker, phase[w] # "idle", Writes(w),
         \A i \in Item \ {ItemOf(w)} : head'[i] = head[i] /\ tail'[i] = tail[i],
         NEW v \in Worker \ {w}
  PROVE  ColumnsKept(v)
<1> SUFFICES ASSUME phase[v] \in Syncing, alone'[v]
             PROVE  alone[v] /\ ItemOf(v) # ItemOf(w)
  BY ItemTyped DEF ColumnsKept, Syncing
<1>1. phase[v] # "idle"
  BY DEF Syncing
<1>2. QED
  BY <1>1 DEF Writes

\* A sync whose slot and whose row are left alone stays sound.
LEMMA SyncKept ==
  ASSUME TypeOK, Grounded, [Next]_vars, NEW v \in Worker,
         Versions(v), Bases(v), SlotStays(v), ColumnsKept(v)
  PROVE  Versions(v)' /\ Bases(v)'
<1>1. CASE phase[v] \notin Syncing
  BY <1>1 DEF SlotStays, Versions, Bases, Syncing
<1>2. CASE phase[v] \in Syncing
  <2>1. ItemOf(v)' = ItemOf(v) /\ ItemOf(v) \in Item
    BY <1>2, StepTyped, ItemTyped DEF SlotStays, Syncing
  <2>2. /\ version[ItemOf(v)] <= version'[ItemOf(v)]
        /\ version[ItemOf(v)] \in Nat /\ version'[ItemOf(v)] \in Nat
        /\ asOf[v] \in Nat /\ got[v] \in Nat
    BY <2>1, Grows DEF TypeOK, Version
  <2>3. Versions(v)'
    <3>1. phase'[v] \in Syncing => asOf'[v] <= version'[ItemOf(v)']
      BY <2>1, <2>2 DEF SlotStays, Versions
    <3>2. phase'[v] \in {"answered", "loaded"} =>
            asOf'[v] <= got'[v] /\ got'[v] <= version'[ItemOf(v)']
      BY <2>1, <2>2 DEF SlotStays, Versions
    <3>3. QED
      BY <3>1, <3>2 DEF Versions
  <2>4. Bases(v)'
    BY <1>2, <2>1 DEF SlotStays, ColumnsKept, Bases
  <2>5. QED
    BY <2>3, <2>4
<1>3. QED
  BY <1>1, <1>2

\* Requests, the platform and callbacks leave slots alone, and rows that are there.
LEMMA OtherKeeps ==
  ASSUME TypeOK, Grounded, OtherStep, NEW v \in Worker
  PROVE  SlotStays(v) /\ ColumnsKept(v)
<1>1. UNCHANGED slots
  BY DEF OtherStep, Advance, LookUp, FindRow, Enqueue, LeaseExpires, Send, LoadEvent,
         ApplyEvent, EventAborts, vars
<1>2. CASE UNCHANGED <<head, tail>>
  BY <1>1, <1>2 DEF slots, SlotStays, ColumnsKept
<1>3. ASSUME NEW e \in Event, ApplyEvent(e)
      PROVE  ColumnsKept(v)
  <2>1. /\ tail' = tail
        /\ \/ head' = head
           \/ /\ about[e].order \notin rows
              /\ head' = [head EXCEPT ![about[e].order] = Paid]
    BY <1>3 DEF ApplyEvent, row
  <2>2. phase[v] \in Syncing => ItemOf(v) \in rows /\ ItemOf(v) \in Item
    BY ItemTyped DEF Syncing
  <2>3. QED
    BY <1>1, <2>1, <2>2 DEF slots, ColumnsKept, TypeOK
<1>4. UNCHANGED <<head, tail>> \/ \E e \in Event : ApplyEvent(e)
  BY DEF OtherStep, Advance, LookUp, FindRow, Enqueue, LeaseExpires, Send, LoadEvent,
         EventAborts, vars, row
<1>5. QED
  BY <1>1, <1>2, <1>3, <1>4 DEF slots, SlotStays

\* Nor does a slot, unless it tells.
LEMMA SlotKeeps ==
  ASSUME TypeOK, Grounded, NEW w \in Worker, SlotStep(w), NEW v \in Worker \ {w}
  PROVE  ColumnsKept(v)
<1>1. CASE UNCHANGED <<head, tail>> /\ \A u \in Worker \ {w} : alone'[u] = alone[u]
  BY <1>1 DEF ColumnsKept
<1>2. CASE phase[w] # "idle" /\ Writes(w)
           /\ \A i \in Item \ {ItemOf(w)} : head'[i] = head[i] /\ tail'[i] = tail[i]
  BY <1>2, WritesKeep
<1>3. CASE Assign(w)
  BY <1>1, <1>2, <1>3 DEF Assign, TypeOK
<1>4. CASE Commit(w)
  BY <1>1, <1>2, <1>4 DEF Commit, TypeOK
<1>5. CASE ~Assign(w) /\ ~Commit(w)
  BY <1>1, <1>5 DEF SlotStep, Start, Call, CallFails, MarkSucceeded, Crash, row, TypeOK
<1>6. QED
  BY <1>3, <1>4, <1>5

\* A slot's own step.
LEMMA OwnSync ==
  ASSUME TypeOK, Grounded, NEW w \in Worker, SlotStep(w), Versions(w), Bases(w), RowsStay
  PROVE  Versions(w)' /\ Bases(w)'
<1>1. CASE phase'[w] \notin Syncing
  BY <1>1 DEF Versions, Bases, Syncing
<1>2. ASSUME NEW k \in Key, Start(w, k)
      PROVE  Versions(w)' /\ Bases(w)'
  <2> DEFINE i == operation[k].item
  <2>1. i \in Item /\ i \in rows /\ operation'[k].item = i
    BY <1>2 DEF Start, TypeOK, Grounded
  <2>2. /\ phase'[w] = "calling" /\ job'[w] = k /\ asOf'[w] = version[i]
        /\ base'[w].head = head[i] /\ base'[w].tail = tail[i]
        /\ head' = head /\ tail' = tail /\ version' = version
    BY <1>2 DEF Start, TypeOK, row
  <2>3. ItemOf(w)' = i /\ version[i] \in Nat
    BY <2>1, <2>2 DEF ItemOf, TypeOK, Version
  <2>4. QED
    BY <2>2, <2>3 DEF Versions, Bases
<1>3. CASE Call(w)
  <2>1. /\ phase[w] = "calling" /\ phase'[w] = "answered"
        /\ got'[w] = version[ItemOf(w)] /\ asOf' = asOf /\ job' = job /\ base' = base
        /\ alone' = alone /\ head' = head /\ tail' = tail /\ version' = version
    BY <1>3 DEF Call, TypeOK, row
  <2>2. ItemOf(w)' = ItemOf(w) /\ ItemOf(w) \in Item
    BY <2>1, ItemTyped
  <2>3. version[ItemOf(w)] \in Nat
    BY <2>2 DEF TypeOK, Version
  <2>4. QED
    BY <2>1, <2>2, <2>3 DEF Versions, Bases, Syncing
<1>4. CASE Assign(w) /\ phase'[w] \in Syncing
  <2>1. Converts(ItemOf(w), got[w])
    BY <1>4 DEF Assign, Fail, Free, Syncing, TypeOK
  <2>2. /\ phase[w] = "answered" /\ phase'[w] = "loaded"
        /\ UNCHANGED <<head, tail, version, job, base, got, asOf, alone>>
    BY <1>4, <2>1 DEF Assign, TypeOK
  <2>3. ItemOf(w)' = ItemOf(w)
    BY <2>2, ItemTyped
  <2>4. QED
    BY <2>2, <2>3 DEF Versions, Bases, Syncing
<1>5. CASE CallFails(w) \/ Commit(w) \/ MarkSucceeded(w) \/ Crash(w)
  <2>1. phase'[w] \in {"idle", "committed"}
    BY <1>5 DEF CallFails, Commit, MarkSucceeded, Crash, Fail, Free, TypeOK
  <2>2. QED
    BY <1>1, <2>1 DEF Syncing
<1>6. QED
  BY <1>1, <1>2, <1>3, <1>4, <1>5 DEF SlotStep

LEMMA StepSyncs ==
  ASSUME TypeOK, Grounded, SyncsAreSound, [Next]_vars
  PROVE  SyncsAreSound'
<1>1. CASE OtherStep
  BY <1>1, OtherKeeps, SyncKept DEF SyncsAreSound
<1>2. ASSUME NEW w \in Worker, SlotStep(w), NEW v \in Worker
      PROVE  Versions(v)' /\ Bases(v)'
  <2>1. CASE v = w
    BY <1>2, <2>1, OwnSync, StepTyped DEF SyncsAreSound
  <2>2. CASE v # w
    BY <1>2, <2>2, OthersStay, SlotKeeps, SyncKept DEF SyncsAreSound
  <2>3. QED
    BY <2>1, <2>2
<1>3. QED
  BY <1>1, <1>2, Steps DEF SyncsAreSound

-----------------------------------------------------------------------------
(* Answers *)

\* The columns of i are those of an answer.
Whole(i) ==
    head[i] \notin {PendingSync, Paid} =>
        \E v \in 1..version[i] :
            /\ head[i] = Head[v]
            /\ tail[i] = TailOf(i, v) \/ (i \in Order /\ v \in Unreadable)

\* A sync that is alone leaves exactly the columns that it writes.
LEMMA FlushIsExact ==
  ASSUME TypeOK, Grounded, NEW w \in Worker, phase[w] \in Syncing, alone[w], Bases(w)
  PROVE  LET i == ItemOf(w) IN
         /\ [head EXCEPT ![i] = Flushed(Head[got[w]], base[w].head, head[i])][i] = Head[got[w]]
         /\ [tail EXCEPT ![i] = Flushed(TailOf(i, got[w]), base[w].tail, tail[i])][i]
              = TailOf(i, got[w])
<1>1. ItemOf(w) \in Item
  BY ItemTyped DEF Syncing
<1>2. QED
  BY <1>1 DEF Bases, Flushed, TypeOK

\* A row that is left alone stays whole, and one that is new is.
LEMMA WholeKept ==
  ASSUME TypeOK, Grounded, [Next]_vars, NEW i \in Item, i \in rows => Whole(i),
         head'[i] = head[i], tail'[i] = tail[i]
  PROVE  Whole(i)'
<1>1. i \in rows \/ head'[i] = PendingSync
  BY DEF Grounded
<1>2. version[i] <= version'[i] /\ version[i] \in Nat /\ version'[i] \in Nat
  BY Grows
<1>3. QED
  BY <1>1, <1>2 DEF Whole

\* The row that a sync writes is whole, if no other sync has written it since.
LEMMA WholeWritten ==
  ASSUME TypeOK, Grounded, SyncsAreSound, NEW w \in Worker, Assign(w) \/ Commit(w),
         ~UNCHANGED <<head, tail>>, NEW i \in Item, i = ItemOf(w), i \notin mixed'
  PROVE  Whole(i)'
<1>1. phase[w] \in {"answered", "loaded"} /\ Versions(w) /\ Bases(w) /\ version' = version
  BY DEF Assign, Commit, SyncsAreSound
<1>2. PICK v \in Version : v = got[w]
  BY DEF TypeOK
<1>3. v \in 1..version'[i]
  BY <1>1, <1>2 DEF Versions, TypeOK, Version
<1>4. Writes(w) /\ head' = [head EXCEPT ![i] = Flushed(Head[v], base[w].head, head[i])]
  BY <1>2 DEF Assign, Commit
<1>5. alone[w]
  BY <1>4 DEF Writes
<1>6. head'[i] = Head[v]
  BY <1>1, <1>2, <1>4, <1>5, FlushIsExact DEF Syncing
<1>7. CASE Assign(w)
  <2>1. ~Converts(i, v)
    BY <1>2, <1>7 DEF Assign
  <2>2. i \in Order /\ v \in Unreadable
    BY <2>1 DEF Converts, Item
  <2>3. QED
    BY <1>3, <1>6, <2>2 DEF Whole
<1>8. CASE Commit(w)
  <2>1. tail' = [tail EXCEPT ![i] = Flushed(TailOf(i, v), base[w].tail, tail[i])]
    BY <1>2, <1>8 DEF Commit
  <2>2. tail'[i] = TailOf(i, v)
    BY <1>1, <1>2, <1>5, <2>1, FlushIsExact DEF Syncing
  <2>3. QED
    BY <1>3, <1>6, <2>2 DEF Whole
<1>9. QED
  BY <1>7, <1>8

LEMMA StepAnswer ==
  ASSUME TypeOK, Grounded, SyncsAreSound, AnswerIsWhole, [Next]_vars
  PROVE  AnswerIsWhole'
<1> SUFFICES ASSUME NEW i \in Item, i \in rows', i \notin mixed'
             PROVE  Whole(i)'
  BY StepTyped DEF AnswerIsWhole, Whole, TypeOK
<1>1. i \in rows => Whole(i)
  BY Grows DEF AnswerIsWhole, Whole
<1>2. CASE head'[i] = head[i] /\ tail'[i] = tail[i]
  BY <1>1, <1>2, WholeKept
<1>3. ASSUME NEW e \in Event, ApplyEvent(e)
      PROVE  Whole(i)'
  <2>1. tail' = tail /\ (head' = head \/ head' = [head EXCEPT ![about[e].order] = Paid])
    BY <1>3 DEF ApplyEvent, row
  <2>2. CASE head'[i] = Paid
    BY <2>2 DEF Whole
  <2>3. QED
    BY <1>2, <2>1, <2>2 DEF TypeOK
<1>4. ASSUME NEW w \in Worker, Assign(w) \/ Commit(w)
      PROVE  Whole(i)'
  <2>1. CASE i = ItemOf(w)
    BY <1>2, <1>4, <2>1, WholeWritten
  <2>2. CASE i # ItemOf(w)
    BY <1>2, <1>4, <2>2 DEF Assign, Commit, TypeOK
  <2>3. QED
    BY <2>1, <2>2
<1>5. ASSUME NEW w \in Worker, SlotStep(w), ~(Assign(w) \/ Commit(w))
      PROVE  UNCHANGED <<head, tail>>
  BY <1>5 DEF SlotStep, Start, Call, CallFails, MarkSucceeded, Crash, row
<1>6. OtherStep => UNCHANGED <<head, tail>> \/ \E e \in Event : ApplyEvent(e)
  BY DEF OtherStep, Advance, LookUp, FindRow, Enqueue, LeaseExpires, Send, LoadEvent,
         EventAborts, vars, row
<1>7. QED
  BY <1>2, <1>3, <1>4, <1>5, <1>6, Steps

LEMMA InitWhole == Init => SyncsAreSound /\ EnqueueIsWhole /\ AnswerIsWhole
  BY DEF Init, SyncsAreSound, Versions, Bases, Syncing, EnqueueIsWhole, AnswerIsWhole, Unused

\* A request leaves a row and its operation, or neither, and what a sync commits
\* is one answer, in any number of requests, syncs and callbacks: except for an
\* amount that cannot be converted, and two syncs of one item that overlap.
THEOREM RowsStayWhole == Spec => []RowsAreWhole
<1>1. Init => TypeOK /\ Grounded /\ SyncsAreSound /\ EnqueueIsWhole /\ AnswerIsWhole
  BY InitTyped, InitWhole
<1>2. TypeOK /\ Grounded /\ SyncsAreSound /\ EnqueueIsWhole /\ AnswerIsWhole /\ [Next]_vars
        => (TypeOK /\ Grounded /\ SyncsAreSound /\ EnqueueIsWhole /\ AnswerIsWhole)'
  BY StepTyped, StepSyncs, StepEnqueue, StepAnswer
<1>3. TypeOK /\ Grounded /\ SyncsAreSound /\ EnqueueIsWhole /\ AnswerIsWhole => RowsAreWhole
  BY DEF RowsAreWhole
<1>4. QED
  BY <1>1, <1>2, <1>3, PTL DEF Spec

-----------------------------------------------------------------------------
(* Commits *)

\* Only the slot itself commits its sync, with the answer it has.
LEMMA CommitIsCurrent ==
  ASSUME TypeOK, Grounded, SyncsAreSound, [Next]_vars,
         NEW w \in Worker, phase[w] = "loaded", phase'[w] = "committed"
  PROVE  LET i == ItemOf(w) IN
         \E v \in asOf[w]..version[i] :
             /\ alone[w] => head'[i] = Head[v] /\ tail'[i] = TailOf(i, v)
             /\ Lists(i, v) => voucher'[i] = "linked"
<1> DEFINE i == ItemOf(w)
           v == got[w]
<1>1. SlotStep(w)
  BY OtherKeeps, OthersStay, Steps DEF SlotStays
<1>2. Commit(w) /\ ~Clashes(w)
  BY <1>1 DEF SlotStep, Start, Call, CallFails, Assign, Commit, MarkSucceeded, Crash,
              Fail, Free, TypeOK
<1>3. Versions(w) /\ Bases(w) /\ i \in Item
  BY ItemTyped DEF SyncsAreSound
<1>4. v \in asOf[w]..version[i]
  BY <1>3 DEF Versions, TypeOK, Version
<1>5. alone[w] => head'[i] = Head[v] /\ tail'[i] = TailOf(i, v)
  BY <1>2, <1>3, FlushIsExact DEF Commit, Syncing
<1>6. Lists(i, v) => voucher'[i] = "linked"
  BY <1>2 DEF Commit, Lists, TypeOK
<1>7. QED
  BY <1>4, <1>5, <1>6

\* What a sync commits was the platform's answer after the sync had begun, and
\* the voucher that the answer lists is linked, whatever callbacks, requests and
\* other syncs do meanwhile.
THEOREM SyncsAreCurrent == Spec => SyncIsCurrent
<1>1. Init => TypeOK /\ Grounded /\ SyncsAreSound
  BY InitTyped, InitWhole
<1>2. TypeOK /\ Grounded /\ SyncsAreSound /\ [Next]_vars
        => (TypeOK /\ Grounded /\ SyncsAreSound)'
  BY StepTyped, StepSyncs
<1>3. TypeOK /\ Grounded /\ SyncsAreSound /\ [Next]_vars
        => [\A w \in Worker :
              phase[w] = "loaded" /\ phase'[w] = "committed" =>
                  LET i == ItemOf(w) IN
                  \E v \in asOf[w]..version[i] :
                      /\ alone[w] => head'[i] = Head[v] /\ tail'[i] = TailOf(i, v)
                      /\ Lists(i, v) => voucher'[i] = "linked"]_vars
  BY CommitIsCurrent
<1>4. QED
  BY <1>1, <1>2, <1>3, PTL DEF Spec, SyncIsCurrent
=============================================================================
