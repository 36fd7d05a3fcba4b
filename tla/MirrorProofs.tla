---------------------------- MODULE MirrorProofs ----------------------------
(***************************************************************************)
(* What the two mirrors of the platform promise, for any stock levels,     *)
(* places, applications and budgets.                                       *)
(*                                                                         *)
(* Inventory.  Types hold for any clients and slots.  NewestWins needs one *)
(* of each: with one client versions go up with each update, so that the   *)
(* operations of the present version all carry the desired stock; with one *)
(* slot an operation of an older version that is under way has begun       *)
(* before the update, so the newest one has not been carried out yet.      *)
(*                                                                         *)
(* Service POIs.  Types hold for any slots: a row's ticket is used and no  *)
(* two slots have one between them (TicketsHeld), so that what a commit    *)
(* inserts has an id and a ticket of its own.  The other two theorems need *)
(* one slot: what it has read and listed is then still so when it commits  *)
(* (Following), and while no creation was executed twice a place has at    *)
(* most one row that waits, whose store has no other (Carried).            *)
(***************************************************************************)
EXTENDS InventorySync, PoiMirror, Integers, FiniteSetTheorems, TLAPS

-----------------------------------------------------------------------------
(* Inventory *)

\* Versions count updates at most, also those a request has loaded.
Counted == /\ version <= updates + 1
           /\ \A c \in Client : edit[c].version <= updates + 1

Row == [status : OpStatus, stock : Stock, target : 0..(UpdateBudget + 1)]

-----------------------------------------------------------------------------
(* Types *)

LEMMA InitTyped == Init => TypeOK /\ Counted
<1> SUFFICES ASSUME Init PROVE TypeOK /\ Counted
  OBVIOUS
<1>1. 0 \in Operation
  BY InventoryAssumption DEF Operation
<1>2. TypeOK
  BY <1>1, InventoryAssumption DEF Init, TypeOK, OpStatus, NoEdit
<1>3. Counted
  BY InventoryAssumption DEF Init, Counted, NoEdit
<1>4. QED
  BY <1>2, <1>3

LEMMA LeaveTyped ==
  ASSUME TypeOK, NEW w \in Worker, Leave(w)
  PROVE  /\ phase' \in [Worker -> {"idle", "calling", "called", "synced"}]
         /\ job' \in [Worker -> Operation]
         /\ base' \in [Worker -> Stock]
  BY InventoryAssumption DEF TypeOK, Leave, Operation

\* Writing the status of an operation keeps the types.
LEMMA StatusTyped ==
  ASSUME TypeOK, NEW o \in Operation, NEW s \in OpStatus, op' = [op EXCEPT ![o].status = s]
  PROVE  op' \in [Operation -> Row]
  BY DEF TypeOK, Row

LEMMA AcceptTyped ==
  ASSUME TypeOK, Counted, NEW c \in Client, Accept(c)
  PROVE  TypeOK' /\ Counted'
<1> DEFINE e == edit[c]
<1>1. /\ e.stock \in Stock /\ e.version \in Nat /\ e.desired \in Stock
      /\ updates \in Nat /\ UpdateBudget \in Nat /\ updates < UpdateBudget
      /\ e.version <= updates + 1
  BY InventoryAssumption DEF TypeOK, Counted, Accept
<1>2. NextVersion(c) \in 1..(UpdateBudget + 1) /\ NextVersion(c) <= updates + 2
  BY <1>1 DEF NextVersion
<1>3. updates + 1 \in Operation /\ updates' = updates + 1 /\ updates' \in 0..UpdateBudget
  BY <1>1 DEF Accept, Operation
<1>4. [status |-> "queued", stock |-> e.stock, target |-> NextVersion(c)] \in Row
  BY <1>1, <1>2 DEF Row, OpStatus
<1>5. op' \in [Operation -> Row]
  BY <1>3, <1>4 DEF Accept, TypeOK, Row
<1>6. edit' = [edit EXCEPT ![c] = NoEdit]
  BY DEF Accept
<1>7. NoEdit \in [open : BOOLEAN, stock : Stock, version : 0..(UpdateBudget + 1), desired : Stock]
  BY InventoryAssumption DEF NoEdit
<1>8. edit' \in [Client -> [open : BOOLEAN, stock : Stock,
                            version : 0..(UpdateBudget + 1), desired : Stock]]
  BY <1>6, <1>7 DEF TypeOK
<1>9. version' = NextVersion(c) /\ desired' \in Stock
      /\ UNCHANGED <<stock, platform, phase, job, base, faults>>
  BY <1>1 DEF Accept, TypeOK, slots
<1>10. TypeOK'
  BY <1>2, <1>3, <1>5, <1>8, <1>9 DEF TypeOK, Row
<1>11. \A d \in Client : edit'[d].version \in Nat /\ edit'[d].version <= updates + 2
  <2> SUFFICES ASSUME NEW d \in Client
               PROVE  edit'[d].version \in Nat /\ edit'[d].version <= updates + 2
    OBVIOUS
  <2>1. edit[d].version \in Nat /\ edit[d].version <= updates + 1
    BY InventoryAssumption DEF TypeOK, Counted
  <2>2. edit'[d] = edit[d] \/ edit'[d] = NoEdit
    BY <1>6 DEF TypeOK
  <2>3. QED
    BY <1>1, <2>1, <2>2 DEF NoEdit
<1>12. QED
  BY <1>1, <1>2, <1>3, <1>9, <1>10, <1>11 DEF Counted

LEMMA StepTyped ==
  ASSUME TypeOK, Counted, [Next]_vars
  PROVE  TypeOK' /\ Counted'
<1>1. CASE UNCHANGED vars
  BY <1>1 DEF vars, row, slots, TypeOK, Counted
<1>2. ASSUME NEW c \in Client, CheckVersion(c)
      PROVE  TypeOK' /\ Counted'
  <2>1. PICK s \in Stock : edit' = [edit EXCEPT ![c] = [open |-> TRUE, stock |-> s,
                                        version |-> version, desired |-> desired]]
    BY <1>2 DEF CheckVersion
  <2>2. UNCHANGED <<version, desired, stock, platform, updates, op, phase, job, base, faults>>
    BY <1>2 DEF CheckVersion, row, slots
  <2>3. [open |-> TRUE, stock |-> s, version |-> version, desired |-> desired]
           \in [open : BOOLEAN, stock : Stock, version : 0..(UpdateBudget + 1), desired : Stock]
    BY DEF TypeOK
  <2>4. TypeOK'
    BY <2>1, <2>2, <2>3 DEF TypeOK
  <2>5. Counted'
    BY <2>1, <2>2 DEF Counted, TypeOK
  <2>6. QED
    BY <2>4, <2>5
<1>3. ASSUME NEW c \in Client, Accept(c)
      PROVE  TypeOK' /\ Counted'
  BY <1>3, AcceptTyped
<1>4. CASE QueueInitial
  <2>1. PICK sku \in {[stock |-> Initial, version |-> 1], [stock |-> desired, version |-> version]} :
           op' = [op EXCEPT ![0] = [status |-> "queued", stock |-> sku.stock, target |-> sku.version]]
    BY <1>4 DEF QueueInitial
  <2>2. sku.stock \in Stock /\ sku.version \in 0..(UpdateBudget + 1)
    BY InventoryAssumption DEF TypeOK
  <2>3. op' \in [Operation -> Row]
    BY <2>1, <2>2 DEF TypeOK, Row, OpStatus
  <2>4. QED
    BY <1>4, <2>3 DEF QueueInitial, TypeOK, Counted, row, slots, Row
<1>5. ASSUME NEW o \in Operation, ManualRetry(o)
      PROVE  TypeOK' /\ Counted'
  <2>1. op' \in [Operation -> Row]
    BY <1>5, StatusTyped DEF ManualRetry, OpStatus
  <2>2. faults' \in 0..FaultBudget
    BY <1>5, InventoryAssumption DEF ManualRetry, TypeOK
  <2>3. QED
    BY <1>5, <2>1, <2>2 DEF ManualRetry, TypeOK, Counted, row, slots, Row
<1>6. ASSUME NEW w \in Worker, NEW o \in Operation, Start(w, o)
      PROVE  TypeOK' /\ Counted'
  <2>1. op' \in [Operation -> Row]
    BY <1>6, StatusTyped DEF Start, OpStatus
  <2>2. /\ phase' \in [Worker -> {"idle", "calling", "called", "synced"}]
        /\ job' \in [Worker -> Operation]
        /\ base' \in [Worker -> Stock]
    BY <1>6 DEF Start, TypeOK
  <2>3. QED
    BY <1>6, <2>1, <2>2 DEF Start, TypeOK, Counted, row, Row
<1>7. ASSUME NEW w \in Worker, Call(w)
      PROVE  TypeOK' /\ Counted'
  BY <1>7 DEF Call, TypeOK, Counted, row
<1>8. ASSUME NEW w \in Worker, Commit(w)
      PROVE  TypeOK' /\ Counted'
  BY <1>8 DEF Commit, TypeOK, Counted
<1>9. ASSUME NEW w \in Worker, MarkSucceeded(w)
      PROVE  TypeOK' /\ Counted'
  <2>1. op' \in [Operation -> Row]
    BY <1>9, StatusTyped DEF MarkSucceeded, OpStatus, TypeOK
  <2>2. QED
    BY <1>9, <2>1, LeaveTyped DEF MarkSucceeded, TypeOK, Counted, row, Row
<1>10. ASSUME NEW w \in Worker, CallFails(w)
       PROVE  TypeOK' /\ Counted'
  <2>1. op' \in [Operation -> Row]
    BY <1>10, StatusTyped DEF CallFails, OpStatus, TypeOK
  <2>2. platform' \in Stock /\ faults' \in 0..FaultBudget
    BY <1>10, InventoryAssumption DEF CallFails, TypeOK
  <2>3. Leave(w) /\ UNCHANGED <<version, desired, stock, updates, edit>>
    BY <1>10 DEF CallFails, row
  <2>4. QED
    BY <2>1, <2>2, <2>3, LeaveTyped DEF TypeOK, Counted, Row
<1>11. ASSUME NEW w \in Worker, Crash(w)
       PROVE  TypeOK' /\ Counted'
  <2>1. op' \in [Operation -> Row]
    BY <1>11, StatusTyped DEF Crash, OpStatus, TypeOK
  <2>2. faults' \in 0..FaultBudget
    BY <1>11, InventoryAssumption DEF Crash, TypeOK
  <2>3. Leave(w) /\ UNCHANGED <<version, desired, stock, platform, updates, edit>>
    BY <1>11 DEF Crash, row
  <2>4. QED
    BY <2>1, <2>2, <2>3, LeaveTyped DEF TypeOK, Counted, Row
<1>12. QED
  BY <1>1, <1>2, <1>3, <1>4, <1>5, <1>6, <1>7, <1>8, <1>9, <1>10, <1>11 DEF Next

(***************************************************************************)
(* The row of the SKU, its operations and the requests and slots keep      *)
(* their types, whatever updates interleave (update_stock, set_stock).     *)
(***************************************************************************)
THEOREM InventoryTypesHold == Spec => []TypeOK
<1>1. TypeOK /\ Counted /\ [Next]_vars => (TypeOK /\ Counted)'
  BY StepTyped
<1>2. QED
  BY <1>1, InitTyped, PTL DEF Spec

-----------------------------------------------------------------------------
(* The newest version, with one client and one slot *)

\* A request under way has loaded the row as it is.
EditIsCurrent ==
    \A c \in Client : edit[c].open => edit[c].version = version /\ edit[c].desired = desired

\* No operation is ahead of the row, and one of its version has its stock.
TargetsAgree ==
    /\ version = 1 => desired = Initial
    /\ \A o \in Operation : /\ op[o].target <= version
                            /\ op[o].target = version => op[o].stock = desired

\* Numbers that are not given yet are not in use, and a slot is at work on an
\* operation that is running.
InUse ==
    /\ \A o \in Operation : o > updates /\ o # 0 => op[o].status = "absent"
    /\ \A w \in Worker : phase[w] # "idle" => op[job[w]].status = "running"

Newest(w) == op[job[w]].target = version

\* What a slot knows, and what it has done for the newest version.
SlotIsCurrent ==
    \A w \in Worker :
        /\ phase[w] \in {"calling", "called"} => base[w] = stock
        /\ phase[w] = "called" /\ Newest(w) => platform = desired
        /\ phase[w] = "synced" /\ Newest(w) => platform = desired /\ stock = desired

\* Once the newest version is done, only operations of it are under way.
DoneStays ==
    NewestDone => /\ platform = desired /\ stock = desired
                  /\ \A w \in Worker : phase[w] \in {"calling", "called"} => Newest(w)

IInv == EditIsCurrent /\ TargetsAgree /\ InUse /\ SlotIsCurrent /\ DoneStays

OneAtATime ==
    /\ \A c, d \in Client : c = d
    /\ \A v, w \in Worker : v = w

LEMMA InitCurrent == Init => IInv
<1> SUFFICES ASSUME Init PROVE IInv
  OBVIOUS
<1>1. \A o \in Operation : op[o].status = "absent" /\ op[o].target = 0 /\ op[o].stock = 0
  BY DEF Init
<1>2. version = 1 /\ updates = 0
  BY DEF Init
<1>3. ~NewestDone
  BY <1>1, <1>2 DEF NewestDone
<1>4. EditIsCurrent /\ SlotIsCurrent
  BY DEF Init, NoEdit, EditIsCurrent, SlotIsCurrent
<1>5. TargetsAgree /\ InUse
  BY <1>1, <1>2 DEF Init, TargetsAgree, InUse
<1>6. QED
  BY <1>3, <1>4, <1>5 DEF IInv, DoneStays

\* An update makes the versions of all other operations old ones.
LEMMA AcceptCurrent ==
  ASSUME TypeOK, Counted, IInv, OneAtATime, NEW c \in Client, Accept(c)
  PROVE  IInv'
<1> DEFINE e == edit[c]
           n == updates + 1
           new == [status |-> "queued", stock |-> e.stock, target |-> version + 1]
<1>1. e.version = version /\ e.desired = desired /\ e.stock \in Stock
  BY DEF Accept, IInv, EditIsCurrent, TypeOK
<1>2. /\ version \in Nat \ {0} /\ updates \in Nat
      /\ updates < UpdateBudget /\ UpdateBudget \in Nat
  BY InventoryAssumption DEF Accept, TypeOK
<1>3. n \in Operation /\ n # 0
  BY <1>2 DEF Operation
<1>4. /\ version' = version + 1 /\ desired' = e.stock /\ updates' = n
      /\ op' = [op EXCEPT ![n] = new]
      /\ UNCHANGED <<stock, platform, phase, job, base>>
  BY <1>1 DEF Accept, NextVersion, slots
<1>5. op'[n] = new /\ \A o \in Operation : o # n => op'[o] = op[o]
  BY <1>3, <1>4 DEF TypeOK
<1>6. op[n].status = "absent"
  BY <1>2, <1>3 DEF IInv, InUse
<1>7. \A w \in Worker : phase[w] # "idle" => job[w] # n
  BY <1>6 DEF IInv, InUse
<1>8. \A o \in Operation : op[o].target \in Nat /\ op[o].target < version + 1
  BY <1>2 DEF TypeOK, IInv, TargetsAgree
<1>9. EditIsCurrent'
  BY DEF Accept, OneAtATime, EditIsCurrent, NoEdit, TypeOK
<1>10. TargetsAgree'
  <2>1. version' # 1 /\ new.target = version' /\ new.stock = desired'
    BY <1>2, <1>4
  <2>2. \A o \in Operation : o # n => op'[o].target < version'
    BY <1>4, <1>5, <1>8
  <2>3. version' \in Nat /\ \A o \in Operation : o # n => op'[o].target \in Nat
    BY <1>2, <1>4, <1>5, <1>8
  <2>4. QED
    BY <1>5, <2>1, <2>2, <2>3 DEF TargetsAgree
<1>11. InUse'
  <2>1. ASSUME NEW o \in Operation, o > updates', o # 0 PROVE op'[o].status = "absent"
    <3>1. o \in Int /\ o > updates /\ o # n
      BY <1>2, <1>4, <2>1 DEF Operation
    <3>2. QED
      BY <1>5, <2>1, <3>1 DEF IInv, InUse
  <2>2. ASSUME NEW w \in Worker, phase'[w] # "idle" PROVE op'[job'[w]].status = "running"
    <3>1. job[w] \in Operation
      BY DEF TypeOK
    <3>2. QED
      BY <1>4, <1>5, <1>7, <2>2, <3>1 DEF IInv, InUse
  <2>3. QED
    BY <2>1, <2>2 DEF InUse
<1>12. ASSUME NEW w \in Worker, phase[w] # "idle" PROVE ~Newest(w)'
  <2>1. job[w] \in Operation
    BY DEF TypeOK
  <2>2. op'[job'[w]] = op[job[w]]
    BY <1>4, <1>5, <1>7, <1>12, <2>1
  <2>3. QED
    BY <1>2, <1>4, <1>8, <2>1, <2>2 DEF Newest
<1>13. SlotIsCurrent'
  BY <1>4, <1>12 DEF SlotIsCurrent, IInv
<1>14. ~NewestDone'
  BY <1>2, <1>4, <1>5, <1>8 DEF NewestDone
<1>15. QED
  BY <1>9, <1>10, <1>11, <1>13, <1>14 DEF IInv, DoneStays

\* An operation that is not under way is queued, or queued again.
LEMMA QueuedCurrent ==
  ASSUME TypeOK, IInv, NEW o \in Operation, NEW r \in Row,
         op[o].status \in {"absent", "failed"}, o = 0 \/ o <= updates,
         op' = [op EXCEPT ![o] = r], r.status = "queued",
         r.target <= version, r.target = version => r.stock = desired,
         UNCHANGED <<version, desired, stock, platform, updates, edit, phase, job, base>>
  PROVE  IInv'
<1>1. op'[o] = r /\ \A p \in Operation : p # o => op'[p] = op[p]
  BY DEF TypeOK
<1>2. \A w \in Worker : job[w] \in Operation /\ (phase[w] # "idle" => job[w] # o)
  BY DEF TypeOK, IInv, InUse
<1>3. \A w \in Worker : phase[w] # "idle" => op'[job[w]] = op[job[w]]
  BY <1>1, <1>2
<1>4. NewestDone' => NewestDone
  BY <1>1 DEF NewestDone
<1>5. EditIsCurrent' /\ TargetsAgree'
  BY <1>1 DEF IInv, EditIsCurrent, TargetsAgree
<1>6. InUse'
  <2>1. o \in Int /\ updates \in Int
    BY InventoryAssumption DEF Operation, TypeOK
  <2>2. ASSUME NEW p \in Operation, p > updates, p # 0 PROVE op'[p].status = "absent"
    <3>1. p # o
      BY <2>1, <2>2
    <3>2. QED
      BY <1>1, <2>2, <3>1 DEF IInv, InUse
  <2>3. QED
    BY <1>3, <2>2 DEF IInv, InUse
<1>7. SlotIsCurrent' /\ DoneStays'
  BY <1>3, <1>4 DEF IInv, SlotIsCurrent, DoneStays, Newest
<1>8. QED
  BY <1>5, <1>6, <1>7 DEF IInv

LEMMA RequestCurrent ==
  ASSUME TypeOK, IInv, OneAtATime,
         (\E c \in Client : CheckVersion(c)) \/ QueueInitial
           \/ \E o \in Operation : ManualRetry(o)
  PROVE  IInv'
<1>1. CASE \E c \in Client : CheckVersion(c)
  <2>1. PICK c \in Client : CheckVersion(c)
    BY <1>1
  <2>2. EditIsCurrent'
    BY <2>1 DEF CheckVersion, OneAtATime, EditIsCurrent, TypeOK, row
  <2>3. UNCHANGED <<version, desired, stock, platform, updates, op, phase, job, base>>
    BY <2>1 DEF CheckVersion, row, slots
  <2>4. TargetsAgree' /\ InUse' /\ SlotIsCurrent' /\ DoneStays'
    BY <2>3 DEF IInv, TargetsAgree, InUse, SlotIsCurrent, DoneStays, NewestDone, Newest
  <2>5. QED
    BY <2>2, <2>4 DEF IInv
<1>2. CASE QueueInitial
  <2>1. PICK sku \in {[stock |-> Initial, version |-> 1], [stock |-> desired, version |-> version]} :
           op' = [op EXCEPT ![0] = [status |-> "queued", stock |-> sku.stock, target |-> sku.version]]
    BY <1>2 DEF QueueInitial
  <2>2. 0 \in Operation /\ version \in Nat /\ 1 <= version
    BY InventoryAssumption DEF Operation, TypeOK
  <2>3. /\ sku.stock \in Stock /\ sku.version \in 0..(UpdateBudget + 1)
        /\ sku.version <= version
        /\ sku.version = version => sku.stock = desired
    BY <2>2, InventoryAssumption DEF TypeOK, IInv, TargetsAgree
  <2>4. [status |-> "queued", stock |-> sku.stock, target |-> sku.version] \in Row
    BY <2>3 DEF Row, OpStatus
  <2>5. op[0].status = "absent"
        /\ UNCHANGED <<version, desired, stock, platform, updates, edit, phase, job, base>>
    BY <1>2 DEF QueueInitial, row, slots
  <2>6. QED
    BY <2>1, <2>2, <2>3, <2>4, <2>5, QueuedCurrent
<1>3. CASE \E o \in Operation : ManualRetry(o)
  <2>1. PICK o \in Operation : ManualRetry(o)
    BY <1>3
  <2>2. op[o].status = "failed" /\ op' = [op EXCEPT ![o].status = "queued"]
        /\ UNCHANGED <<version, desired, stock, platform, updates, edit, phase, job, base>>
    BY <2>1 DEF ManualRetry, row, slots
  <2>3. o = 0 \/ o <= updates
    <3>1. o \in Int /\ updates \in Int
      BY InventoryAssumption DEF Operation, TypeOK
    <3>2. QED
      BY <2>2, <3>1 DEF IInv, InUse
  <2>4. PICK r \in Row : /\ r.status = "queued" /\ r.target = op[o].target
                         /\ r.stock = op[o].stock /\ op' = [op EXCEPT ![o] = r]
    <3>1. [op[o] EXCEPT !.status = "queued"] \in Row
      BY DEF TypeOK, Row, OpStatus
    <3>2. QED
      BY <2>2, <3>1 DEF TypeOK
  <2>5. QED
    BY <2>2, <2>3, <2>4, QueuedCurrent DEF IInv, TargetsAgree
<1>4. QED
  BY <1>1, <1>2, <1>3

-----------------------------------------------------------------------------
(* The slot *)

\* The slot leaves its operation, which is settled or queued again.  The
\* platform has the stock it had, or the one of the operation.
LEMMA LeaveCurrent ==
  ASSUME TypeOK, IInv, OneAtATime, NEW w \in Worker, phase[w] # "idle", Leave(w),
         NEW s \in {"queued", "failed", "succeeded"}, op' = [op EXCEPT ![job[w]].status = s],
         s = "succeeded" => phase[w] = "synced",
         UNCHANGED <<version, desired, stock, updates, edit>>,
         \/ platform' = platform
         \/ phase[w] \in {"calling", "called"} /\ platform' = op[job[w]].stock
  PROVE  IInv'
<1> DEFINE o == job[w]
<1>1. o \in Operation /\ op[o].status = "running"
  BY DEF TypeOK, IInv, InUse
<1>2. /\ op'[o].status = s /\ op'[o].target = op[o].target /\ op'[o].stock = op[o].stock
      /\ \A p \in Operation : p # o => op'[p] = op[p]
  BY <1>1 DEF TypeOK
<1>3. \A v \in Worker : v = w /\ phase'[v] = "idle"
  BY DEF Leave, OneAtATime, TypeOK
<1>4. EditIsCurrent' /\ TargetsAgree'
  BY <1>1, <1>2 DEF IInv, EditIsCurrent, TargetsAgree
<1>5. InUse' /\ SlotIsCurrent'
  BY <1>1, <1>2, <1>3 DEF IInv, InUse, SlotIsCurrent
<1>6. ASSUME NewestDone'
      PROVE  platform' = desired' /\ stock' = desired'
  <2>1. CASE NewestDone
    <3>1. platform = desired /\ stock = desired
      BY <2>1 DEF IInv, DoneStays
    <3>2. phase[w] \in {"calling", "called"} => op[o].stock = desired
      BY <1>1, <2>1 DEF IInv, DoneStays, TargetsAgree, Newest
    <3>3. QED
      BY <3>1, <3>2
  <2>2. CASE ~NewestDone
    <3>1. s = "succeeded" /\ op[o].target = version
      BY <1>1, <1>2, <1>6, <2>2 DEF NewestDone
    <3>2. QED
      BY <3>1 DEF IInv, SlotIsCurrent, Newest
  <2>3. QED
    BY <2>1, <2>2
<1>7. QED
  BY <1>3, <1>4, <1>5, <1>6 DEF IInv, DoneStays

LEMMA SlotCurrent ==
  ASSUME TypeOK, IInv, OneAtATime, NEW w \in Worker,
         (\E o \in Operation : Start(w, o)) \/ Call(w) \/ Commit(w)
           \/ MarkSucceeded(w) \/ CallFails(w) \/ Crash(w)
  PROVE  IInv'
<1>0. \A v \in Worker : v = w
  BY DEF OneAtATime
<1>1. CASE \E o \in Operation : Start(w, o)
  <2>1. PICK o \in Operation : Start(w, o)
    BY <1>1
  <2>2. /\ op' = [op EXCEPT ![o].status = "running"] /\ op[o].status = "queued"
        /\ phase' = [phase EXCEPT ![w] = IF Superseded(o) THEN "synced" ELSE "calling"]
        /\ job' = [job EXCEPT ![w] = o] /\ base' = [base EXCEPT ![w] = stock]
        /\ UNCHANGED <<version, desired, stock, platform, updates, edit>>
    BY <2>1 DEF Start, row
  <2>3. /\ op'[o].status = "running" /\ op'[o].target = op[o].target /\ op'[o].stock = op[o].stock
        /\ \A p \in Operation : p # o => op'[p] = op[p]
    BY <2>2 DEF TypeOK
  <2>4. /\ job'[w] = o /\ base'[w] = stock
        /\ phase'[w] = "synced" => op[o].target # version
        /\ phase'[w] \in {"calling", "called"} => op[o].target = version /\ phase'[w] = "calling"
    BY <2>2 DEF TypeOK, Superseded
  <2>5. NewestDone' => NewestDone
    BY <2>2, <2>3 DEF NewestDone
  <2>6. EditIsCurrent' /\ TargetsAgree'
    BY <2>2, <2>3 DEF IInv, EditIsCurrent, TargetsAgree
  <2>7. InUse'
    BY <1>0, <2>2, <2>3, <2>4 DEF IInv, InUse
  <2>8. SlotIsCurrent' /\ DoneStays'
    BY <1>0, <2>2, <2>3, <2>4, <2>5 DEF IInv, SlotIsCurrent, DoneStays, Newest
  <2>9. QED
    BY <2>6, <2>7, <2>8 DEF IInv
<1>2. CASE Call(w)
  <2>1. /\ phase[w] = "calling" /\ platform' = op[job[w]].stock
        /\ phase' = [phase EXCEPT ![w] = "called"] /\ phase'[w] = "called"
        /\ UNCHANGED <<version, desired, stock, updates, op, edit, job, base>>
    BY <1>2 DEF Call, row, TypeOK
  <2>2. job[w] \in Operation
    BY DEF TypeOK
  <2>3. Newest(w) => platform' = desired
    BY <2>1, <2>2 DEF Newest, IInv, TargetsAgree
  <2>4. NewestDone' => NewestDone
    BY <2>1 DEF NewestDone
  <2>5. EditIsCurrent' /\ TargetsAgree' /\ InUse'
    BY <1>0, <2>1 DEF IInv, EditIsCurrent, TargetsAgree, InUse
  <2>6. SlotIsCurrent' /\ DoneStays'
    BY <1>0, <2>1, <2>3, <2>4 DEF IInv, SlotIsCurrent, DoneStays, Newest
  <2>7. QED
    BY <2>5, <2>6 DEF IInv
<1>3. CASE Commit(w)
  <2>1. /\ phase[w] = "called" /\ phase'[w] = "synced"
        /\ UNCHANGED <<version, desired, platform, updates, op, edit, job, base>>
    BY <1>3 DEF Commit, TypeOK
  <2>2. job[w] \in Operation /\ stock' = op[job[w]].stock
    BY <1>3 DEF TypeOK, Commit, IInv, SlotIsCurrent
  <2>3. Newest(w) => stock' = desired /\ platform = desired
    BY <2>1, <2>2 DEF Newest, IInv, TargetsAgree, SlotIsCurrent
  <2>4. NewestDone' => NewestDone /\ Newest(w)
    BY <2>1 DEF NewestDone, IInv, DoneStays
  <2>5. EditIsCurrent' /\ TargetsAgree' /\ InUse'
    BY <1>0, <2>1 DEF IInv, EditIsCurrent, TargetsAgree, InUse
  <2>6. SlotIsCurrent' /\ DoneStays'
    BY <1>0, <2>1, <2>3, <2>4 DEF IInv, SlotIsCurrent, DoneStays, Newest
  <2>7. QED
    BY <2>5, <2>6 DEF IInv
<1>4. CASE MarkSucceeded(w)
  BY <1>4, LeaveCurrent DEF MarkSucceeded, row
<1>5. CASE CallFails(w)
  <2>1. PICK t \in {"queued", "failed"} : op' = [op EXCEPT ![job[w]].status = t]
    BY <1>5 DEF CallFails
  <2>2. QED
    BY <1>5, <2>1, LeaveCurrent DEF CallFails, row
<1>6. CASE Crash(w)
  BY <1>6, LeaveCurrent DEF Crash, row
<1>7. QED
  BY <1>1, <1>2, <1>3, <1>4, <1>5, <1>6

LEMMA StepCurrent ==
  ASSUME TypeOK, Counted, IInv, OneAtATime, [Next]_vars
  PROVE  IInv'
<1>1. CASE UNCHANGED vars
  BY <1>1 DEF vars, row, slots, IInv, EditIsCurrent, TargetsAgree, InUse, SlotIsCurrent,
              DoneStays, NewestDone, Newest
<1>2. CASE Next
  BY <1>2, AcceptCurrent, RequestCurrent, SlotCurrent DEF Next
<1>3. QED
  BY <1>1, <1>2

(***************************************************************************)
(* With one client and one slot, whatever is lost, repeated or late: once  *)
(* an operation of the newest version has succeeded, the platform and the  *)
(* mirror have the desired stock (update_stock, set_stock).                *)
(***************************************************************************)
THEOREM NewestIsKept ==
  ASSUME OneAtATime
  PROVE  Spec => []NewestWins
<1>1. TypeOK /\ Counted /\ IInv /\ [Next]_vars => (TypeOK /\ Counted /\ IInv)'
  BY OneAtATime, StepTyped, StepCurrent
<1>2. IInv => NewestWins
  BY DEF IInv, DoneStays, NewestWins
<1>3. QED
  BY <1>1, <1>2, InitTyped, InitCurrent, PTL DEF Spec

-----------------------------------------------------------------------------
(* Service POIs *)

-----------------------------------------------------------------------------
(* Slots *)

LEMMA IdleTyped == Idle \in SlotState /\ Idle.row.place \in Place
<1>1. (CHOOSE p \in Place : TRUE) \in Place
  BY PoiMirrorAssumption
<1>2. 1 \in Ticket /\ 1 \in RowId
  BY PoiMirrorAssumption DEF Ticket, RowId
<1>3. Idle.row \in RowRecord /\ Idle.row.place \in Place
  BY <1>1, <1>2 DEF Idle, Application, RowRecord, RowStatus, Review
<1>4. QED
  BY <1>3 DEF Idle, SlotState, RowStatus

\* One slot is written.
LEMMA SlotSet ==
  ASSUME PoiTypeOK, NEW w \in Slot, NEW s \in SlotState, slot' = [slot EXCEPT ![w] = s]
  PROVE  /\ slot' \in [Slot -> SlotState] /\ slot'[w] = s
         /\ \A v \in Slot : v # w => slot'[v] = slot[v]
  BY DEF PoiTypeOK

LEMMA Finished ==
  ASSUME PoiTypeOK, NEW w \in Slot, Finish(w)
  PROVE  /\ slot' \in [Slot -> SlotState] /\ slot'[w] = Idle
         /\ \A v \in Slot : v # w => slot'[v] = slot[v]
  BY IdleTyped, SlotSet DEF Finish

LEMMA Moved ==
  ASSUME PoiTypeOK, NEW w \in Slot, NEW pc \in {"call", "commit", "mark"}, Goto(w, pc)
  PROVE  /\ slot' \in [Slot -> SlotState] /\ slot'[w] = [slot[w] EXCEPT !.pc = pc]
         /\ \A v \in Slot : v # w => slot'[v] = slot[v]
<1>1. slot' = [slot EXCEPT ![w] = [slot[w] EXCEPT !.pc = pc]]
  BY DEF Goto
<1>2. slot[w] \in SlotState
  BY DEF PoiTypeOK
<1>3. [slot[w] EXCEPT !.pc = pc] \in SlotState
  BY <1>2 DEF SlotState
<1>4. QED
  BY <1>1, <1>3, SlotSet

\* A command begins, for the first time or again.
LEMMA BegunTyped ==
  ASSUME NEW command \in OnRow \cup {"create", "sync"}, NEW subject \in RowRecord
  PROVE  /\ Begun(command, subject) \in SlotState
         /\ Begun(command, subject).pc = "call" /\ Begun(command, subject).command = command
         /\ Begun(command, subject).row = subject
         /\ Begun(command, subject).listing = {} /\ Begun(command, subject).seen = {}
<1>1. Begun(command, subject) \in SlotState
  BY IdleTyped DEF Begun, SlotState
<1>2. /\ Begun(command, subject).pc = "call" /\ Begun(command, subject).command = command
      /\ Begun(command, subject).row = subject
      /\ Begun(command, subject).listing = Idle.listing /\ Begun(command, subject).seen = Idle.seen
  BY IdleTyped DEF Begun, SlotState
<1>3. Idle.listing = {} /\ Idle.seen = {}
  BY DEF Idle
<1>4. QED
  BY <1>1, <1>2, <1>3

LEMMA BegunSlot ==
  ASSUME NEW w \in Slot, NEW command \in OnRow \cup {"create", "sync"}, NEW subject \in RowRecord,
         slot'[w] = Begun(command, subject)
  PROVE  /\ slot'[w].pc = "call" /\ slot'[w].command = command /\ slot'[w].row = subject
         /\ slot'[w].listing = {} /\ slot'[w].seen = {}
<1>1. /\ Begun(command, subject).pc = "call" /\ Begun(command, subject).command = command
      /\ Begun(command, subject).row = subject
      /\ Begun(command, subject).listing = {} /\ Begun(command, subject).seen = {}
  BY BegunTyped
<1>2. QED
  BY <1>1

LEMMA Started ==
  ASSUME PoiTypeOK, NEW w \in Slot, NEW command \in OnRow \cup {"create", "sync"},
         NEW subject \in RowRecord, StartCommand(w, command, subject)
  PROVE  /\ slot' \in [Slot -> SlotState] /\ slot'[w] = Begun(command, subject)
         /\ \A v \in Slot : v # w => slot'[v] = slot[v]
         /\ commands' \in 0..CommandBudget /\ slot[w] = Idle
         /\ UNCHANGED <<remote, rows, losses, reruns, fresh>>
<1>1. slot' = [slot EXCEPT ![w] = Begun(command, subject)]
  BY DEF StartCommand, Begun
<1>2. commands' \in 0..CommandBudget
  BY PoiMirrorAssumption DEF StartCommand, PoiTypeOK
<1>3. /\ slot' \in [Slot -> SlotState] /\ slot'[w] = Begun(command, subject)
      /\ \A v \in Slot : v # w => slot'[v] = slot[v]
  BY <1>1, SlotSet, BegunTyped
<1>4. QED
  BY <1>2, <1>3 DEF StartCommand

LEMMA Restarted ==
  ASSUME PoiTypeOK, NEW w \in Slot, slot[w].command # "none", Restart(w)
  PROVE  \E subject \in RowRecord :
            /\ IF slot[w].command \in OnRow
               THEN subject \in rows /\ subject.id = slot[w].row.id ELSE subject = slot[w].row
            /\ slot' \in [Slot -> SlotState] /\ slot'[w] = Begun(slot[w].command, subject)
            /\ \A v \in Slot : v # w => slot'[v] = slot[v]
            /\ losses' \in 0..LossBudget
<1>1. PICK subject \in IF slot[w].command \in OnRow
                   THEN {r \in rows : r.id = slot[w].row.id} ELSE {slot[w].row} :
        slot' = [slot EXCEPT ![w] = Begun(slot[w].command, subject)]
  BY DEF Restart
<1>2. slot[w].row \in RowRecord /\ slot[w].command \in OnRow \cup {"create", "sync"}
  BY DEF PoiTypeOK, SlotState
<1>3. /\ subject \in RowRecord
      /\ IF slot[w].command \in OnRow
         THEN subject \in rows /\ subject.id = slot[w].row.id ELSE subject = slot[w].row
  BY <1>1, <1>2 DEF PoiTypeOK
<1>4. slot' = [slot EXCEPT ![w] = Begun(slot[w].command, subject)]
  BY <1>1
<1>5. losses' \in 0..LossBudget
  BY PoiMirrorAssumption DEF Restart, PoiTypeOK
<1>6. QED
  BY <1>2, <1>3, <1>4, <1>5, BegunTyped, SlotSet

-----------------------------------------------------------------------------
(* The table *)

\* A ticket has at most two rows: that of the application and that of the store.
LEMMA CountRows ==
  ASSUME NEW R, \A r \in R : r.ticket \in Ticket /\ r.linked \in BOOLEAN,
         \A r, q \in R : r.linked = q.linked /\ r.ticket = q.ticket => r = q
  PROVE  IsFiniteSet(R) /\ Cardinality(R) \in Nat /\ Cardinality(R) <= 2 * TicketBound
<1> DEFINE nr(r) == IF r.linked THEN r.ticket ELSE TicketBound + r.ticket
           f == [r \in R |-> nr(r)]
<1>1. TicketBound \in Nat
  BY PoiMirrorAssumption
<1>2. ASSUME NEW r \in R PROVE nr(r) \in RowId
  BY <1>1 DEF Ticket, RowId
<1>3. ASSUME NEW r \in R, NEW q \in R, nr(r) = nr(q) PROVE r = q
  <2>1. r.ticket \in 1..TicketBound /\ q.ticket \in 1..TicketBound
    BY DEF Ticket
  <2>2. r.linked = q.linked /\ r.ticket = q.ticket
    BY <1>1, <1>3, <2>1
  <2>3. QED
    BY <2>2
<1>4. f \in Injection(R, RowId)
  BY <1>2, <1>3 DEF Injection, IsInjective
<1>5. IsFiniteSet(RowId) /\ Cardinality(RowId) = 2 * TicketBound
  BY <1>1, FS_Interval DEF RowId
<1>6. QED
  BY <1>4, <1>5, FS_Injection, FS_CardinalityType

\* An injective function has as many values as arguments.
LEMMA CountImage ==
  ASSUME NEW R, IsFiniteSet(R), NEW f, f = [r \in R |-> f[r]],
         \A r, q \in R : f[r] = f[q] => r = q
  PROVE  LET S == {f[r] : r \in R} IN IsFiniteSet(S) /\ Cardinality(S) = Cardinality(R)
<1> DEFINE S == {f[r] : r \in R}
<1>1. f \in Bijection(R, S)
  <2>1. f \in [R -> S]
    OBVIOUS
  <2>2. \A s \in S : \E r \in R : f[r] = s
    OBVIOUS
  <2>3. QED
    BY <2>1, <2>2 DEF Bijection, Injection, IsInjective, Surjection
<1>2. ExistsBijection(R, S)
  BY <1>1 DEF ExistsBijection
<1>3. QED
  BY <1>2, FS_Bijection

\* The place of a ticket among others.
LEMMA Numbered ==
  ASSUME NEW A \in SUBSET Ticket
  PROVE  /\ IsFiniteSet(A) /\ Cardinality(A) \in Nat
         /\ \A t \in A : Cardinality({u \in A : u <= t}) \in 1..Cardinality(A)
         /\ \A t, u \in A : Cardinality({v \in A : v <= t}) = Cardinality({v \in A : v <= u})
                            => t = u
<1> DEFINE below(t) == {u \in A : u <= t}
<1>1. IsFiniteSet(A) /\ Cardinality(A) \in Nat /\ A \subseteq Nat
  <2>0. TicketBound \in Nat
    BY PoiMirrorAssumption
  <2>1. IsFiniteSet(Ticket) /\ Ticket \subseteq Nat
    BY <2>0, FS_Interval DEF Ticket
  <2>2. IsFiniteSet(A)
    BY <2>1, FS_Subset
  <2>3. QED
    BY <2>1, <2>2, FS_CardinalityType
<1>2. ASSUME NEW t \in A
      PROVE  IsFiniteSet(below(t)) /\ Cardinality(below(t)) \in 1..Cardinality(A)
  <2>1. below(t) \in SUBSET A /\ below(t) # {}
    BY <1>1
  <2>2. IsFiniteSet(below(t)) /\ Cardinality(below(t)) <= Cardinality(A)
    BY <1>1, <2>1, FS_Subset
  <2>3. Cardinality(below(t)) \in Nat /\ Cardinality(below(t)) # 0
    BY <2>1, <2>2, FS_CardinalityType, FS_EmptySet
  <2>4. QED
    BY <1>1, <2>2, <2>3
<1>3. ASSUME NEW t \in A, NEW u \in A, t <= u, Cardinality(below(t)) = Cardinality(below(u))
      PROVE  t = u
  <2>0. t \in Nat /\ u \in Nat /\ \A v \in A : v \in Nat
    BY <1>1
  <2>1. below(t) \in SUBSET below(u)
    <3>1. \A v \in A : v <= t => v <= u
      BY <1>3, <2>0
    <3>2. QED
      BY <3>1
  <2>2. below(t) = below(u)
    BY <1>2, <1>3, <2>1, FS_Subset
  <2>3. u \in below(t)
    BY <1>1, <2>2
  <2>4. QED
    BY <1>1, <1>3, <2>3
<1>4. QED
  BY <1>1, <1>2, <1>3

\* Tickets are used, and each stands for one row in the making at most.
Used(t) == remote[t].state # "unused"

SlotHolds(w) ==
    /\ slot[w].command = "none" => slot[w].pc = "idle"
    /\ slot[w].command = "create" => ~slot[w].row.linked
    /\ At(w, "create", "commit") =>
          /\ Used(slot[w].row.ticket)
          /\ \A r \in rows : ~r.linked => r.ticket # slot[w].row.ticket
    /\ \A e \in slot[w].listing : Used(e.ticket)
    /\ \A e, f \in slot[w].listing : e.ticket = f.ticket => e = f
    /\ IsFiniteSet(slot[w].seen)

TicketsHeld ==
    /\ \A r \in rows : r.id <= Cardinality(rows) /\ Used(r.ticket)
    /\ \A w \in Slot : SlotHolds(w)
    /\ \A v, w \in Slot : At(v, "create", "commit") /\ At(w, "create", "commit")
                            /\ slot[v].row.ticket = slot[w].row.ticket => v = w

PoiSound == PoiTypeOK /\ TicketsHeld

\* What is true of the table after a commit.
RowsSound(R) ==
    /\ R \subseteq RowRecord
    /\ \A r, q \in R : (r.id = q.id \/ (r.linked = q.linked /\ r.ticket = q.ticket)) => r = q
    /\ \A r \in R : r.id <= Cardinality(R) /\ Used(r.ticket)

LEMMA RowsFinite ==
  ASSUME PoiTypeOK
  PROVE  IsFiniteSet(rows) /\ Cardinality(rows) \in Nat /\ Cardinality(rows) <= 2 * TicketBound
<1>1. \A r \in rows : r.ticket \in Ticket /\ r.linked \in BOOLEAN
  BY DEF PoiTypeOK, RowRecord
<1>2. \A r, q \in rows : r.linked = q.linked /\ r.ticket = q.ticket => r = q
  BY DEF PoiTypeOK
<1>3. QED
  BY <1>1, <1>2, CountRows

LEMMA CreateCommitRows ==
  ASSUME PoiSound, NEW w \in Slot, At(w, "create", "commit")
  PROVE  RowsSound(rows \cup {[slot[w].row EXCEPT !.id = Cardinality(rows) + 1]})
<1> DEFINE n == Cardinality(rows)
           new == [slot[w].row EXCEPT !.id = n + 1]
           R == rows \cup {new}
<1>1. slot[w].row \in RowRecord /\ slot[w].command = "create"
  BY DEF PoiSound, PoiTypeOK, SlotState, At
<1>2. /\ new.id = n + 1 /\ new.ticket = slot[w].row.ticket /\ new.linked = FALSE
      /\ new.place = slot[w].row.place /\ new.status = slot[w].row.status
      /\ new.ticket \in Ticket /\ Used(new.ticket)
      /\ \A r \in rows : ~r.linked => r.ticket # new.ticket
  BY <1>1 DEF PoiSound, TicketsHeld, SlotHolds, RowRecord
<1>3. IsFiniteSet(rows) /\ n \in Nat
  BY RowsFinite DEF PoiSound
<1>4. \A r \in rows : r.ticket \in Ticket /\ r.linked \in BOOLEAN /\ r.id \in Nat /\ r.id <= n
  BY DEF PoiSound, PoiTypeOK, TicketsHeld, RowRecord, RowId
<1>5. new \notin rows
  BY <1>2, <1>3, <1>4
<1>6. \A r, q \in R : (r.id = q.id \/ (r.linked = q.linked /\ r.ticket = q.ticket)) => r = q
  <2>1. \A r \in rows : r.id # new.id /\ ~(r.linked = new.linked /\ r.ticket = new.ticket)
    BY <1>2, <1>3, <1>4
  <2>2. QED
    BY <2>1 DEF PoiSound, PoiTypeOK
<1>7. Cardinality(R) = n + 1
  BY <1>3, <1>5, FS_AddElement
<1>8. n + 1 <= 2 * TicketBound
  <2>1. \A r \in R : r.ticket \in Ticket /\ r.linked \in BOOLEAN
    BY <1>2, <1>4
  <2>2. QED
    BY <1>6, <1>7, <2>1, CountRows
<1>9. new \in RowRecord
  <2>1. n + 1 \in RowId
    BY <1>3, <1>8, PoiMirrorAssumption DEF RowId
  <2>2. QED
    BY <1>1, <2>1 DEF RowRecord
<1>10. \A r \in R : r.id <= Cardinality(R) /\ Used(r.ticket)
  <2>1. \A r \in rows : r.id <= n + 1 /\ Used(r.ticket)
    BY <1>3, <1>4 DEF PoiSound, TicketsHeld
  <2>2. new.id <= n + 1 /\ Used(new.ticket)
    BY <1>2, <1>3
  <2>3. QED
    BY <1>7, <2>1, <2>2
<1>11. QED
  BY <1>6, <1>9, <1>10 DEF RowsSound, PoiSound, PoiTypeOK

LEMMA RowCommitRows ==
  ASSUME PoiSound, NEW w \in Slot, slot[w].answer \in RowStatus
  PROVE  RowsSound({IF r.id = slot[w].row.id
                    THEN Flushed(r, slot[w].row.status, slot[w].answer) ELSE r : r \in rows})
<1> DEFINE new(r) == IF r.id = slot[w].row.id
                     THEN Flushed(r, slot[w].row.status, slot[w].answer) ELSE r
           f == [r \in rows |-> new(r)]
           R == {f[r] : r \in rows}
<1>1. ASSUME NEW r \in rows
      PROVE  /\ new(r) \in RowRecord /\ new(r).id = r.id /\ new(r).linked = r.linked
             /\ new(r).ticket = r.ticket
  BY DEF PoiSound, PoiTypeOK, Flushed, RowRecord
<1>2. \A r, q \in rows : r.id = q.id => r = q
  BY DEF PoiSound, PoiTypeOK
<1>3. Cardinality(R) = Cardinality(rows)
  <2>1. \A r, q \in rows : f[r] = f[q] => r = q
    BY <1>1, <1>2
  <2>2. f = [r \in rows |-> f[r]]
    OBVIOUS
  <2>3. IsFiniteSet(rows)
    BY RowsFinite DEF PoiSound
  <2> HIDE DEF f
  <2>4. QED
    BY <2>1, <2>2, <2>3, CountImage
<1>4. R \subseteq RowRecord
  BY <1>1
<1>5. \A r, q \in R : (r.id = q.id \/ (r.linked = q.linked /\ r.ticket = q.ticket)) => r = q
  BY <1>1 DEF PoiSound, PoiTypeOK
<1>6. \A r \in R : r.id <= Cardinality(R) /\ Used(r.ticket)
  BY <1>1, <1>3 DEF PoiSound, TicketsHeld
<1>7. RowsSound(R)
  BY <1>4, <1>5, <1>6 DEF RowsSound
<1>8. R = {new(r) : r \in rows}
  OBVIOUS
<1>9. QED
  BY <1>7, <1>8

-----------------------------------------------------------------------------
(* The commit of a synchronization *)

Entry == [ticket : Ticket, status : Review]

\* Its parts: the stores without a row, those that get one, the stores that take
\* over a row, and the new rows.
New(w) == {t \in {e.ticket : e \in slot[w].listing} : RowsOf(t) = {}}

Added(w, link) == New(w) \ {link[p] : p \in DOMAIN link}

Takers(w, link, r) ==
    {link[p] : p \in {p \in DOMAIN link : \E q \in Pending(slot[w].seen, p) : q.id = r.id}}

Position(w, link, t) == Cardinality(rows) + Cardinality({u \in Added(w, link) : u <= t})

NewRow(w, link, e) ==
    [id |-> Position(w, link, e.ticket), ticket |-> e.ticket, linked |-> TRUE,
     place |-> remote[e.ticket].place, status |-> e.status]

OldRow(w, link, r) == Synced(r, slot[w].seen, slot[w].listing, Takers(w, link, r))

OldRows(w, link) == {OldRow(w, link, r) : r \in rows}

NewRows(w, link) ==
    {NewRow(w, link, e) : e \in {e \in slot[w].listing : e.ticket \in Added(w, link)}}

LEMMA SyncParts ==
  ASSUME NEW w \in Slot, SyncCommit(w)
  PROVE  \E link \in Links(slot[w].seen, New(w)) : rows' = OldRows(w, link) \cup NewRows(w, link)
  BY DEF SyncCommit, New, Added, Takers, Position, NewRow, OldRow, OldRows, NewRows

\* A row keeps its id and place; a store that takes it over makes it a linked one.
LEMMA SyncedKeeps ==
  ASSUME NEW r \in RowRecord, NEW seen \in SUBSET RowRecord, NEW listing \in SUBSET Entry,
         NEW takers \in SUBSET Ticket
  PROVE  LET s == Synced(r, seen, listing, takers) IN
         /\ s \in RowRecord /\ s.id = r.id /\ s.place = r.place
         /\ takers = {} => s.linked = r.linked /\ s.ticket = r.ticket
         /\ takers # {} => s.linked /\ s.ticket \in takers
<1> DEFINE tickets == {e.ticket : e \in listing}
           loaded  == {q \in seen : q.id = r.id}
           before  == IF loaded = {} THEN r.status ELSE (CHOOSE q \in loaded : TRUE).status
           now     == IF takers = {} THEN r
                      ELSE [r EXCEPT !.linked = TRUE, !.ticket = CHOOSE t \in takers : TRUE]
           e0      == CHOOSE e \in listing : e.ticket = now.ticket
           s == Synced(r, seen, listing, takers)
<1>1. /\ now \in RowRecord /\ now.id = r.id /\ now.place = r.place
      /\ takers = {} => now.linked = r.linked /\ now.ticket = r.ticket
      /\ takers # {} => now.linked /\ now.ticket \in takers
  <2>1. CASE takers = {}
    BY <2>1
  <2>2. CASE takers # {}
    <3>1. (CHOOSE t \in takers : TRUE) \in takers
      BY <2>2
    <3> DEFINE t0 == CHOOSE t \in takers : TRUE
    <3>2. now = [r EXCEPT !.linked = TRUE, !.ticket = t0]
      BY <2>2
    <3> HIDE DEF t0, now
    <3>3. t0 \in Ticket /\ t0 \in takers
      BY <3>1 DEF t0
    <3>4. QED
      BY <2>2, <3>2, <3>3 DEF RowRecord
  <2>3. QED
    BY <2>1, <2>2
<1>2. s = IF now.linked /\ now.ticket \in tickets
          THEN Flushed(now, before, e0.status)
          ELSE IF \E q \in loaded : Missing(q, tickets)
          THEN Flushed(now, before, "deleted")
          ELSE now
  BY DEF Synced
<1>3. now.ticket \in tickets => e0 \in listing /\ e0.ticket = now.ticket
  OBVIOUS
<1> HIDE DEF now, before, s, loaded, tickets, e0
<1>4. ASSUME NEW status \in RowStatus
      PROVE  LET n == Flushed(now, before, status) IN
             /\ n \in RowRecord /\ n.id = now.id /\ n.place = now.place
             /\ n.linked = now.linked /\ n.ticket = now.ticket
  BY <1>1 DEF Flushed, RowRecord
<1>5. now.ticket \in tickets => e0.status \in RowStatus
  BY <1>3 DEF Entry, RowStatus
<1>6. "deleted" \in RowStatus
  BY DEF RowStatus
<1>7. QED
  BY <1>1, <1>2, <1>4, <1>5, <1>6 DEF s

LEMMA SlotParts ==
  ASSUME PoiSound, NEW w \in Slot
  PROVE  /\ slot[w].seen \in SUBSET RowRecord /\ slot[w].listing \in SUBSET Entry
         /\ New(w) \in SUBSET Ticket
         /\ \A t \in New(w) : RowsOf(t) = {} /\ Used(t)
<1>1. slot[w].seen \in SUBSET RowRecord /\ slot[w].listing \in SUBSET Entry
  BY DEF PoiSound, PoiTypeOK, SlotState, Entry
<1>2. \A e \in slot[w].listing : e.ticket \in Ticket /\ Used(e.ticket)
  BY <1>1 DEF Entry, PoiSound, TicketsHeld, SlotHolds
<1>3. QED
  BY <1>1, <1>2 DEF New

\* Which store takes over which row.
LEMMA LinksAre ==
  ASSUME PoiSound, NEW w \in Slot, NEW link \in Links(slot[w].seen, New(w))
  PROVE  /\ \A p \in DOMAIN link :
               /\ p \in Place /\ link[p] \in New(w) /\ remote[link[p]].place = p
               /\ \E q : Pending(slot[w].seen, p) = {q}
         /\ Added(w, link) \in SUBSET Ticket
         /\ \A t \in Added(w, link) : RowsOf(t) = {} /\ Used(t) /\ \A p \in DOMAIN link : link[p] # t
         /\ \A r : Takers(w, link, r) \in SUBSET New(w)
<1> DEFINE seen == slot[w].seen
           places == {p \in Place : /\ Cardinality(Pending(seen, p)) = 1
                                    /\ \E t \in New(w) : remote[t].place = p}
<1>1. link \in [places -> New(w)] /\ \A p \in places : remote[link[p]].place = p
  BY DEF Links
<1>2. ASSUME NEW p \in places PROVE \E q : Pending(seen, p) = {q}
  <2>1. Pending(seen, p) \in SUBSET seen /\ IsFiniteSet(seen)
    BY DEF Pending, PoiSound, TicketsHeld, SlotHolds
  <2>2. IsFiniteSet(Pending(seen, p))
    BY <2>1, FS_Subset
  <2>3. QED
    BY <2>2, FS_Singleton
<1>3. DOMAIN link = places /\ \A p \in places : p \in Place /\ link[p] \in New(w)
  BY <1>1
<1>4. /\ Added(w, link) \in SUBSET Ticket
      /\ \A t \in Added(w, link) : RowsOf(t) = {} /\ Used(t) /\ \A p \in DOMAIN link : link[p] # t
  BY SlotParts DEF Added
<1>5. \A r : Takers(w, link, r) \in SUBSET New(w)
  BY <1>3 DEF Takers
<1> HIDE DEF places
<1>6. QED
  BY <1>1, <1>2, <1>3, <1>4, <1>5

LEMMA OneWaits ==
  ASSUME PoiSound, NEW w \in Slot, NEW link \in Links(slot[w].seen, New(w)),
         NEW p \in DOMAIN link
  PROVE  \E q : Pending(slot[w].seen, p) = {q}
  BY LinksAre

\* The old rows after the commit.
LEMMA OldRowsAre ==
  ASSUME PoiSound, NEW w \in Slot, NEW link \in Links(slot[w].seen, New(w)), NEW r \in rows
  PROVE  LET o == OldRow(w, link, r) IN
         /\ o \in RowRecord /\ o.id = r.id /\ o.place = r.place /\ Used(o.ticket)
         /\ \/ o.linked = r.linked /\ o.ticket = r.ticket
            \/ /\ o.linked /\ o.ticket \in New(w)
               /\ \E p \in DOMAIN link : /\ o.ticket = link[p]
                                         /\ \E q \in Pending(slot[w].seen, p) : q.id = r.id
<1> DEFINE o == OldRow(w, link, r)
           takers == Takers(w, link, r)
<1>1. r \in RowRecord /\ takers \in SUBSET Ticket
  BY LinksAre, SlotParts DEF PoiSound, PoiTypeOK
<1>2. /\ o \in RowRecord /\ o.id = r.id /\ o.place = r.place
      /\ takers = {} => o.linked = r.linked /\ o.ticket = r.ticket
      /\ takers # {} => o.linked /\ o.ticket \in takers
  BY <1>1, SlotParts, SyncedKeeps DEF OldRow
<1>3. CASE takers = {}
  BY <1>2, <1>3 DEF PoiSound, TicketsHeld
<1>4. CASE takers # {}
  <2>1. PICK p \in DOMAIN link : o.ticket = link[p] /\ \E q \in Pending(slot[w].seen, p) : q.id = r.id
    BY <1>2, <1>4 DEF Takers
  <2>2. o.ticket \in New(w) /\ Used(o.ticket)
    BY <2>1, LinksAre, SlotParts
  <2>3. QED
    BY <1>2, <1>4, <2>1, <2>2
<1>5. QED
  BY <1>3, <1>4

LEMMA SyncCommitRows ==
  ASSUME PoiSound, NEW w \in Slot, NEW link \in Links(slot[w].seen, New(w))
  PROVE  RowsSound(OldRows(w, link) \cup NewRows(w, link))
<1> DEFINE n == Cardinality(rows)
           A == Added(w, link)
           O == OldRows(w, link)
           N == NewRows(w, link)
           R == O \cup N
<1>1. IsFiniteSet(rows) /\ n \in Nat
  BY RowsFinite DEF PoiSound
<1>2. /\ \A r, q \in rows : (r.id = q.id \/ (r.linked = q.linked /\ r.ticket = q.ticket)) => r = q
      /\ \A r \in rows : r \in RowRecord /\ r.id \in Nat /\ r.id <= n
  BY DEF PoiSound, PoiTypeOK, TicketsHeld, RowRecord, RowId
\* Two old rows keep apart.
<1>3. ASSUME NEW r \in rows, NEW q \in rows,
             \/ OldRow(w, link, r).id = OldRow(w, link, q).id
             \/ /\ OldRow(w, link, r).linked = OldRow(w, link, q).linked
                /\ OldRow(w, link, r).ticket = OldRow(w, link, q).ticket
      PROVE  r = q
  <2> DEFINE a == OldRow(w, link, r)
             b == OldRow(w, link, q)
  <2>1. CASE a.id = b.id
    BY <1>2, <2>1, OldRowsAre
  <2>2. ASSUME NEW x \in rows, NEW y \in rows, y.linked, y.ticket \in New(w) PROVE FALSE
    BY <2>2, SlotParts DEF RowsOf
  <2>3. CASE a.linked = b.linked /\ a.ticket = b.ticket
    <3>1. CASE a.linked = r.linked /\ a.ticket = r.ticket /\ b.linked = q.linked /\ b.ticket = q.ticket
      BY <1>2, <2>3, <3>1
    <3>2. CASE /\ a.linked /\ a.ticket \in New(w)
               /\ b.linked = q.linked /\ b.ticket = q.ticket
      BY <2>2, <2>3, <3>2
    <3>3. CASE /\ b.linked /\ b.ticket \in New(w)
               /\ a.linked = r.linked /\ a.ticket = r.ticket
      BY <2>2, <2>3, <3>3
    <3>4. ASSUME NEW p \in DOMAIN link, a.ticket = link[p],
                 \E x \in Pending(slot[w].seen, p) : x.id = r.id,
                 NEW p2 \in DOMAIN link, b.ticket = link[p2],
                 \E x \in Pending(slot[w].seen, p2) : x.id = q.id
          PROVE  r = q
      <4>0. remote[link[p]].place = p /\ remote[link[p2]].place = p2
        BY LinksAre
      <4>1. p = p2
        <5>1. link[p] = link[p2]
          BY <2>3, <3>4
        <5>2. QED
          BY <4>0, <5>1
      <4>2. r.id = q.id
        BY <3>4, <4>1, LinksAre
      <4>3. QED
        BY <1>2, <4>2
    <3>5. QED
      BY <3>1, <3>2, <3>3, <3>4, OldRowsAre
  <2>4. QED
    BY <1>3, <2>1, <2>3
<1>4. O \subseteq RowRecord /\ \A o \in O : o.id \in Nat /\ o.id <= n /\ Used(o.ticket)
  BY <1>2, OldRowsAre DEF OldRows
<1>5. \A o, p \in O : (o.id = p.id \/ (o.linked = p.linked /\ o.ticket = p.ticket)) => o = p
  BY <1>3 DEF OldRows
<1>6. IsFiniteSet(O) /\ Cardinality(O) = n
  <2> DEFINE f == [r \in rows |-> OldRow(w, link, r)]
  <2>1. \A r, q \in rows : f[r] = f[q] => r = q
    BY <1>3
  <2>2. O = {f[r] : r \in rows} /\ f = [r \in rows |-> f[r]]
    BY DEF OldRows
  <2> HIDE DEF f
  <2>3. QED
    BY <1>1, <2>1, <2>2, CountImage
\* The new ones.
<1>7. /\ A \in SUBSET Ticket /\ IsFiniteSet(A) /\ Cardinality(A) \in Nat
      /\ \A t \in A : Position(w, link, t) \in n + 1 .. n + Cardinality(A)
      /\ \A t, u \in A : Position(w, link, t) = Position(w, link, u) => t = u
  <2>1. A \in SUBSET Ticket
    BY LinksAre
  <2> DEFINE c(t) == Cardinality({u \in A : u <= t})
  <2>2. /\ IsFiniteSet(A) /\ Cardinality(A) \in Nat
        /\ \A t \in A : c(t) \in 1..Cardinality(A)
        /\ \A t, u \in A : c(t) = c(u) => t = u
    BY <2>1, Numbered
  <2>3. \A t : Position(w, link, t) = n + c(t)
    BY DEF Position
  <2> HIDE DEF c, A, n
  <2>4. QED
    BY <1>1, <2>1, <2>2, <2>3
<1>8. ASSUME NEW e \in slot[w].listing, e.ticket \in A
      PROVE  LET x == NewRow(w, link, e) IN
             /\ x.id = Position(w, link, e.ticket) /\ x.ticket = e.ticket /\ x.linked
             /\ x.linked \in BOOLEAN /\ x.place \in Place /\ x.status \in RowStatus
             /\ DOMAIN x = {"id", "ticket", "linked", "place", "status"}
             /\ Used(x.ticket) /\ x.ticket \in Ticket /\ RowsOf(x.ticket) = {}
  <2>1. e.ticket \in Ticket /\ e.status \in RowStatus
    BY <1>7, SlotParts DEF Entry, RowStatus
  <2>2. remote[e.ticket].place \in Place
    BY <2>1 DEF PoiSound, PoiTypeOK
  <2>3. Used(e.ticket) /\ RowsOf(e.ticket) = {}
    BY <1>8, LinksAre
  <2>4. QED
    BY <2>1, <2>2, <2>3 DEF NewRow
<1>9. ASSUME NEW x \in N
      PROVE  /\ x.id \in n + 1 .. n + Cardinality(A) /\ x.ticket \in A /\ x.linked = TRUE
             /\ Used(x.ticket) /\ x.ticket \in Ticket
             /\ x.id = Position(w, link, x.ticket)
  <2>1. PICK e \in slot[w].listing : e.ticket \in A /\ x = NewRow(w, link, e)
    BY DEF NewRows
  <2>2. QED
    BY <1>7, <1>8, <2>1
<1>10. ASSUME NEW x \in N, NEW y \in N, x.ticket = y.ticket PROVE x = y
  <2>1. PICK e \in slot[w].listing : e.ticket \in A /\ x = NewRow(w, link, e)
    BY DEF NewRows
  <2>2. PICK g \in slot[w].listing : g.ticket \in A /\ y = NewRow(w, link, g)
    BY DEF NewRows
  <2>3. e.ticket = g.ticket
    BY <1>8, <1>10, <2>1, <2>2
  <2>4. e = g
    BY <2>3 DEF PoiSound, TicketsHeld, SlotHolds
  <2>5. QED
    BY <2>1, <2>2, <2>4
<1>11. IsFiniteSet(N) /\ Cardinality(N) = Cardinality(A)
  <2> DEFINE subject(t) == CHOOSE x \in N : x.ticket = t
             f == [t \in A |-> subject(t)]
  <2>1. ASSUME NEW t \in A PROVE subject(t) \in N /\ subject(t).ticket = t
    <3>1. PICK e \in slot[w].listing : e.ticket = t
      BY DEF Added, New
    <3>2. NewRow(w, link, e) \in N /\ NewRow(w, link, e).ticket = t
      BY <1>8, <3>1 DEF NewRows
    <3>3. QED
      BY <3>2
  <2>2. \A t, u \in A : f[t] = f[u] => t = u
    BY <2>1
  <2>3. N = {f[t] : t \in A}
    <3>1. \A x \in N : x.ticket \in A /\ subject(x.ticket) = x
      BY <1>9, <1>10, <2>1
    <3>2. QED
      BY <2>1, <3>1
  <2>4. f = [t \in A |-> f[t]]
    OBVIOUS
  <2> HIDE DEF f, N, A
  <2>5. QED
    BY <1>7, <2>2, <2>3, <2>4, CountImage
<1>12. \A o \in O, x \in N : o.id # x.id /\ ~(o.linked = x.linked /\ o.ticket = x.ticket)
  <2> SUFFICES ASSUME NEW o \in O, NEW x \in N
               PROVE  o.id # x.id /\ ~(o.linked = x.linked /\ o.ticket = x.ticket)
    OBVIOUS
  <2>1. o.id # x.id
    <3>1. o.id \in Nat /\ o.id <= n
      BY <1>4
    <3>2. x.id \in n + 1 .. n + Cardinality(A) /\ n \in Nat /\ Cardinality(A) \in Nat
      BY <1>1, <1>7, <1>9
    <3> HIDE DEF n, A
    <3>3. QED
      BY <3>1, <3>2
  <2>2. ASSUME o.linked = x.linked, o.ticket = x.ticket PROVE FALSE
    <3>1. PICK r \in rows : o = OldRow(w, link, r)
      BY DEF OldRows
    <3>2. x.ticket \in A /\ o.linked = TRUE
      BY <1>9, <2>2
    <3>3. CASE o.linked = r.linked /\ o.ticket = r.ticket
      BY <2>2, <3>2, <3>3, LinksAre DEF RowsOf
    <3>4. CASE \E p \in DOMAIN link : o.ticket = link[p]
      BY <2>2, <3>2, <3>4, LinksAre
    <3>5. QED
      BY <3>1, <3>3, <3>4, OldRowsAre
  <2>3. QED
    BY <2>1, <2>2
<1>13. \A r, q \in R : (r.id = q.id \/ (r.linked = q.linked /\ r.ticket = q.ticket)) => r = q
  <2>1. \A x, y \in N : (x.id = y.id \/ (x.linked = y.linked /\ x.ticket = y.ticket)) => x = y
    BY <1>7, <1>9, <1>10
  <2> HIDE DEF O, N
  <2>2. QED
    BY <1>5, <1>12, <2>1
<1>14. IsFiniteSet(R) /\ Cardinality(R) = n + Cardinality(A)
  <2>1. O \cap N = {}
    BY <1>12
  <2> HIDE DEF O, N, A, n
  <2>2. Cardinality(O \cap N) = 0
    BY <2>1, FS_EmptySet
  <2>3. IsFiniteSet(R) /\ Cardinality(R) = Cardinality(O) + Cardinality(N) - 0
    BY <1>6, <1>11, <2>2, FS_Union
  <2>4. QED
    BY <1>1, <1>6, <1>7, <1>11, <2>3
<1>15. Cardinality(R) <= 2 * TicketBound
  <2>1. \A r \in R : r.ticket \in Ticket /\ r.linked \in BOOLEAN
    BY <1>4, <1>9 DEF RowRecord
  <2> HIDE DEF R
  <2>2. QED
    BY <1>13, <2>1, CountRows
<1>16. R \subseteq RowRecord
  <2>1. \A i \in n + 1 .. n + Cardinality(A) : i \in RowId
    <3>1. n \in Nat /\ Cardinality(A) \in Nat /\ n + Cardinality(A) <= 2 * TicketBound
      BY <1>1, <1>7, <1>14, <1>15
    <3> HIDE DEF n, A
    <3>2. QED
      BY <3>1, PoiMirrorAssumption DEF RowId
  <2>2. ASSUME NEW x \in N PROVE x \in RowRecord
    <3>1. PICK e \in slot[w].listing : e.ticket \in A /\ x = NewRow(w, link, e)
      BY DEF NewRows
    <3>2. Position(w, link, e.ticket) \in RowId
      BY <1>7, <2>1, <3>1
    <3>3. e.status \in RowStatus /\ e.ticket \in Ticket /\ remote[e.ticket].place \in Place
      BY <1>7, <3>1, SlotParts DEF Entry, RowStatus, PoiSound, PoiTypeOK
    <3>4. QED
      BY <3>1, <3>2, <3>3 DEF NewRow, RowRecord
  <2>3. QED
    BY <1>4, <2>2
<1>17. \A r \in R : r.id <= Cardinality(R) /\ Used(r.ticket)
  <2>0. n \in Nat /\ Cardinality(A) \in Nat
    BY <1>1, <1>7
  <2>1. \A o \in O : o.id <= n + Cardinality(A)
    <3> HIDE DEF n, A, O
    <3>1. QED
      BY <1>4, <2>0
  <2>2. \A x \in N : x.id <= n + Cardinality(A)
    <3> HIDE DEF n, A, N
    <3>1. \A x \in N : x.id \in n + 1 .. n + Cardinality(A)
      BY <1>9
    <3>2. QED
      BY <2>0, <3>1
  <2>3. QED
    BY <1>4, <1>9, <1>14, <2>1, <2>2
<1>18. QED
  BY <1>13, <1>16, <1>17 DEF RowsSound

-----------------------------------------------------------------------------
(* Types *)

LEMMA InitSound == PoiInit => PoiSound
<1> SUFFICES ASSUME PoiInit PROVE PoiSound
  OBVIOUS
<1>1. PoiTypeOK
  <2>1. remote \in [Ticket -> [state : {"unused", "waiting", "listed", "gone"},
                               place : Place, status : Review]]
    BY IdleTyped DEF PoiInit, Review
  <2>2. slot \in [Slot -> SlotState]
    BY IdleTyped DEF PoiInit
  <2>3. 0 \in 0..CommandBudget /\ 0 \in 0..LossBudget /\ 0 \in 0..RerunBudget
    BY PoiMirrorAssumption
  <2>4. QED
    BY <2>1, <2>2, <2>3 DEF PoiInit, PoiTypeOK
<1>2. \A w \in Slot : SlotHolds(w) /\ ~At(w, "create", "commit")
  BY FS_EmptySet DEF PoiInit, SlotHolds, Idle, At
<1>3. QED
  BY <1>1, <1>2 DEF PoiSound, TicketsHeld, PoiInit

\* What a slot holds needs of the rest only used tickets and the applications' rows.
LEMMA SlotStays ==
  ASSUME PoiSound, NEW w \in Slot, slot'[w] = slot[w],
         \A t \in Ticket : Used(t) => Used(t)',
         \A r \in rows' : ~r.linked => r \in rows \/ \E q \in rows : ~q.linked /\ q.ticket = r.ticket
  PROVE  SlotHolds(w)'
<1>1. slot[w].row.ticket \in Ticket /\ \A e \in slot[w].listing : e.ticket \in Ticket
  BY SlotParts DEF PoiSound, PoiTypeOK, SlotState, RowRecord, Entry
<1>2. QED
  BY <1>1 DEF PoiSound, TicketsHeld, SlotHolds, At

\* A slot that has just begun or ended holds nothing.
LEMMA NothingHeld ==
  ASSUME NEW w \in Slot,
         slot'[w] = Idle \/ \E command \in OnRow \cup {"create", "sync"}, subject \in RowRecord :
                               /\ slot'[w] = Begun(command, subject)
                               /\ command = "create" => ~subject.linked
  PROVE  SlotHolds(w)' /\ ~At(w, "create", "commit")'
<1>1. CASE slot'[w] = Idle
  BY <1>1, FS_EmptySet DEF SlotHolds, At, Idle
<1>2. ASSUME NEW command \in OnRow \cup {"create", "sync"}, NEW subject \in RowRecord,
             slot'[w] = Begun(command, subject), command = "create" => ~subject.linked
      PROVE  SlotHolds(w)' /\ ~At(w, "create", "commit")'
  <2>1. /\ slot'[w].pc = "call" /\ slot'[w].command = command /\ slot'[w].row = subject
        /\ slot'[w].listing = {} /\ slot'[w].seen = {}
    BY <1>2, BegunSlot
  <2>2. QED
    BY <1>2, <2>1, FS_EmptySet DEF SlotHolds, At, OnRow
<1>3. QED
  BY <1>1, <1>2

\* One slot is written and no row.
LEMMA HeldWithSlot ==
  ASSUME PoiSound, PoiTypeOK', UNCHANGED rows, NEW w \in Slot,
         \A v \in Slot : v # w => slot'[v] = slot[v],
         \A t \in Ticket : Used(t) => Used(t)',
         SlotHolds(w)',
         \A v \in Slot : v # w /\ At(w, "create", "commit")' /\ At(v, "create", "commit")
                            => slot'[w].row.ticket # slot[v].row.ticket
  PROVE  PoiSound'
<1>1. \A v \in Slot : SlotHolds(v)'
  BY SlotStays
<1>2. \A r \in rows' : r.id <= Cardinality(rows') /\ Used(r.ticket)'
  BY DEF PoiSound, PoiTypeOK, TicketsHeld, RowRecord
<1>3. \A v \in Slot : v # w => At(v, "create", "commit")' = At(v, "create", "commit")
  BY DEF At
<1>4. \A u, v \in Slot : At(u, "create", "commit")' /\ At(v, "create", "commit")'
                           /\ slot'[u].row.ticket = slot'[v].row.ticket => u = v
  BY <1>3 DEF PoiSound, TicketsHeld
<1>5. QED
  BY <1>1, <1>2, <1>4 DEF PoiSound, TicketsHeld

\* The platform changes the state or the status of one application.
LEMMA PlatformTyped ==
  ASSUME PoiTypeOK, NEW t \in Ticket,
         \/ \E status \in Review : Publish(t, status)
         \/ Approve(t) \/ Withdraw(t)
  PROVE  /\ remote' \in [Ticket -> [state : {"unused", "waiting", "listed", "gone"},
                                   place : Place, status : Review]]
         /\ \A u \in Ticket : /\ Used(u) => Used(u)'
                              /\ Used(u) => remote'[u].place = remote[u].place
         /\ fresh' = FALSE
         /\ UNCHANGED <<rows, slot, commands, losses, reruns, applied>>
<1> DEFINE Ticketed == [state : {"unused", "waiting", "listed", "gone"},
                        place : Place, status : Review]
<1>1. remote[t] \in Ticketed
  BY DEF PoiTypeOK
<1>2. ASSUME NEW change \in Ticketed, change.state # "unused", change.place = remote[t].place,
             remote' = [remote EXCEPT ![t] = change]
      PROVE  /\ remote' \in [Ticket -> Ticketed]
             /\ \A u \in Ticket : /\ Used(u) => Used(u)'
                                  /\ Used(u) => remote'[u].place = remote[u].place
  <2>1. remote' \in [Ticket -> Ticketed] /\ remote'[t] = change
        /\ \A u \in Ticket : u # t => remote'[u] = remote[u]
    BY <1>2 DEF PoiTypeOK
  <2>2. QED
    BY <1>2, <2>1 DEF Used
<1>3. ASSUME NEW status \in Review, Publish(t, status)
      PROVE  /\ remote' \in [Ticket -> Ticketed]
             /\ \A u \in Ticket : /\ Used(u) => Used(u)'
                                  /\ Used(u) => remote'[u].place = remote[u].place
  <2> DEFINE change == [remote[t] EXCEPT !.state = "listed", !.status = status]
  <2>1. change \in Ticketed /\ change.state # "unused" /\ change.place = remote[t].place
    BY <1>1
  <2>2. QED
    BY <1>2, <1>3, <2>1 DEF Publish, Platform
<1>4. ASSUME Approve(t)
      PROVE  /\ remote' \in [Ticket -> Ticketed]
             /\ \A u \in Ticket : /\ Used(u) => Used(u)'
                                  /\ Used(u) => remote'[u].place = remote[u].place
  <2> DEFINE change == [remote[t] EXCEPT !.status = "approved"]
  <2>1. change \in Ticketed /\ change.state # "unused" /\ change.place = remote[t].place
    BY <1>1, <1>4 DEF Approve, Listed, Review
  <2>2. QED
    BY <1>2, <1>4, <2>1 DEF Approve, Platform
<1>5. ASSUME Withdraw(t)
      PROVE  /\ remote' \in [Ticket -> Ticketed]
             /\ \A u \in Ticket : /\ Used(u) => Used(u)'
                                  /\ Used(u) => remote'[u].place = remote[u].place
  <2> DEFINE change == [remote[t] EXCEPT !.state = "gone"]
  <2>1. change \in Ticketed /\ change.state # "unused" /\ change.place = remote[t].place
    BY <1>1
  <2>2. QED
    BY <1>2, <1>5, <2>1 DEF Withdraw, Platform
<1>6. fresh' = FALSE /\ UNCHANGED <<rows, slot, commands, losses, reruns, applied>>
  BY DEF Publish, Approve, Withdraw, Platform
<1>7. QED
  BY <1>3, <1>4, <1>5, <1>6

\* What a creation's call leaves.
LEMMA CreateCallMakes ==
  ASSUME PoiTypeOK, NEW w \in Slot, CreateCall(w)
  PROVE  \E t \in Ticket :
            /\ ~Used(t) /\ Used(t)'
            /\ remote'[t].state = "waiting" /\ remote'[t].place = slot[w].row.place
            /\ \A u \in Ticket : u # t => remote'[u] = remote[u]
            /\ remote' \in [Ticket -> [state : {"unused", "waiting", "listed", "gone"},
                                       place : Place, status : Review]]
            /\ \/ /\ slot' = [slot EXCEPT ![w] = [slot[w] EXCEPT !.pc = "commit", !.row.ticket = t]]
                  /\ UNCHANGED losses
               \/ Restart(w)
            /\ fresh' = FALSE
            /\ UNCHANGED <<rows, commands, reruns, applied>>
<1>1. PICK t \in Ticket :
        /\ remote[t].state = "unused"
        /\ remote' = [remote EXCEPT ![t].state = "waiting", ![t].place = slot[w].row.place]
        /\ \/ /\ slot' = [slot EXCEPT ![w].pc = "commit", ![w].row.ticket = t]
              /\ UNCHANGED losses
           \/ Restart(w)
  BY DEF CreateCall
<1>2. slot[w].row.place \in Place
  BY DEF PoiTypeOK, SlotState, RowRecord
<1>3. /\ remote'[t].state = "waiting" /\ remote'[t].place = slot[w].row.place
      /\ \A u \in Ticket : u # t => remote'[u] = remote[u]
      /\ remote' \in [Ticket -> [state : {"unused", "waiting", "listed", "gone"},
                                 place : Place, status : Review]]
  <2> DEFINE change == [remote[t] EXCEPT !.state = "waiting", !.place = slot[w].row.place]
  <2>1. remote' = [remote EXCEPT ![t] = change]
    BY <1>1
  <2>2. remote[t] \in [state : {"unused", "waiting", "listed", "gone"},
                       place : Place, status : Review]
    BY DEF PoiTypeOK
  <2>3. /\ change \in [state : {"unused", "waiting", "listed", "gone"},
                       place : Place, status : Review]
        /\ change.state = "waiting" /\ change.place = slot[w].row.place
    BY <1>2, <2>2
  <2> HIDE DEF change
  <2>4. QED
    BY <2>1, <2>3 DEF PoiTypeOK
<1>4. \/ /\ slot' = [slot EXCEPT ![w] = [slot[w] EXCEPT !.pc = "commit", !.row.ticket = t]]
         /\ UNCHANGED losses
      \/ Restart(w)
  BY <1>1
<1>5. QED
  BY <1>1, <1>3, <1>4 DEF CreateCall, Used

LEMMA StepSound ==
  ASSUME PoiSound, [PoiNext]_poiVars
  PROVE  PoiSound'
<1>0. PoiTypeOK /\ TicketsHeld
  BY DEF PoiSound
<1>1. CASE UNCHANGED poiVars
  <2>1. UNCHANGED <<remote, rows, slot, commands, losses, reruns, applied, fresh>>
    BY <1>1 DEF poiVars
  <2>2. \A w \in Slot : SlotHolds(w)'
    BY <2>1, SlotStays DEF Used
  <2>3. QED
    BY <2>1, <2>2 DEF PoiSound, PoiTypeOK, TicketsHeld, Used, At
<1>2. ASSUME NEW t \in Ticket,
             (\E status \in Review : Publish(t, status)) \/ Approve(t) \/ Withdraw(t)
      PROVE  PoiSound'
  <2>1. /\ remote' \in [Ticket -> [state : {"unused", "waiting", "listed", "gone"},
                                   place : Place, status : Review]]
        /\ \A u \in Ticket : Used(u) => Used(u)'
        /\ fresh' = FALSE
        /\ UNCHANGED <<rows, slot, commands, losses, reruns, applied>>
    BY <1>0, <1>2, PlatformTyped
  <2>2. PoiTypeOK'
    BY <1>0, <2>1 DEF PoiTypeOK
  <2>3. \A w \in Slot : SlotHolds(w)'
    BY <2>1, SlotStays
  <2>4. \A r \in rows' : r.id <= Cardinality(rows') /\ Used(r.ticket)'
    BY <1>0, <2>1 DEF PoiTypeOK, TicketsHeld, RowRecord
  <2>5. QED
    BY <1>0, <2>1, <2>2, <2>3, <2>4 DEF PoiSound, TicketsHeld, At
\* A command begins.
<1>3. ASSUME NEW w \in Slot, NEW command \in OnRow \cup {"create", "sync"},
             NEW subject \in RowRecord, StartCommand(w, command, subject),
             command = "create" => ~subject.linked, applied' \in SUBSET Place
      PROVE  PoiSound'
  <2>1. /\ slot' \in [Slot -> SlotState] /\ slot'[w] = Begun(command, subject)
        /\ \A v \in Slot : v # w => slot'[v] = slot[v]
        /\ commands' \in 0..CommandBudget
        /\ UNCHANGED <<remote, rows, losses, reruns, fresh>>
    BY <1>0, <1>3, Started
  <2>2. PoiTypeOK'
    BY <1>0, <1>3, <2>1 DEF PoiTypeOK
  <2>3. SlotHolds(w)' /\ ~At(w, "create", "commit")'
    BY <1>3, <2>1, NothingHeld
  <2>4. QED
    BY <2>1, <2>2, <2>3, HeldWithSlot DEF Used
<1>4. ASSUME NEW w \in Slot, NEW place \in Place, StartCreate(w, place) PROVE PoiSound'
  <2>1. 1 \in Ticket /\ 1 \in RowId
    BY PoiMirrorAssumption DEF Ticket, RowId
  <2>2. Application(1, 1, place) \in RowRecord /\ ~Application(1, 1, place).linked
    BY <2>1 DEF Application, RowRecord, RowStatus, Review
  <2>3. applied' \in SUBSET Place
    BY <1>0, <1>4 DEF StartCreate, PoiTypeOK
  <2>4. QED
    BY <1>3, <1>4, <2>2, <2>3 DEF StartCreate
<1>5. ASSUME NEW w \in Slot, StartSync(w) PROVE PoiSound'
  <2>1. Idle.row \in RowRecord /\ applied' \in SUBSET Place
    BY <1>0, <1>5, IdleTyped DEF SlotState, StartSync, PoiTypeOK
  <2>2. QED
    BY <1>3, <1>5, <2>1 DEF StartSync
<1>6. ASSUME NEW w \in Slot, NEW command \in OnRow, NEW subject \in rows, StartOnRow(w, command, subject)
      PROVE  PoiSound'
  <2>1. subject \in RowRecord /\ command # "create" /\ applied' \in SUBSET Place
    BY <1>0, <1>6 DEF PoiTypeOK, OnRow, StartOnRow
  <2>2. QED
    BY <1>3, <1>6, <2>1 DEF StartOnRow
\* A command begins again.
<1>7. ASSUME NEW w \in Slot, slot[w].command # "none", Restart(w), UNCHANGED rows,
             \A t \in Ticket : Used(t) => Used(t)'
      PROVE  /\ slot' \in [Slot -> SlotState] /\ losses' \in 0..LossBudget
             /\ PoiTypeOK' => PoiSound'
  <2>1. PICK subject \in RowRecord :
          /\ IF slot[w].command \in OnRow
             THEN subject \in rows /\ subject.id = slot[w].row.id ELSE subject = slot[w].row
          /\ slot' \in [Slot -> SlotState] /\ slot'[w] = Begun(slot[w].command, subject)
          /\ \A v \in Slot : v # w => slot'[v] = slot[v]
          /\ losses' \in 0..LossBudget
    BY <1>0, <1>7, Restarted
  <2>2. slot[w].command \in OnRow \cup {"create", "sync"}
    BY <1>0, <1>7 DEF PoiTypeOK, SlotState
  <2>3. slot[w].command = "create" => ~subject.linked
    BY <1>0, <2>1 DEF TicketsHeld, SlotHolds, OnRow
  <2>4. SlotHolds(w)' /\ ~At(w, "create", "commit")'
    BY <2>1, <2>2, <2>3, NothingHeld
  <2>5. QED
    BY <1>7, <2>1, <2>4, HeldWithSlot
<1>8. ASSUME NEW w \in Slot, SlotDies(w) PROVE PoiSound'
  <2>1. slot[w].command # "none"
    BY <1>0, <1>8 DEF SlotDies, TicketsHeld, SlotHolds
  <2>2. /\ Restart(w) /\ UNCHANGED <<remote, rows, commands, reruns, applied>>
        /\ fresh' \in BOOLEAN
    BY <1>0, <1>8 DEF SlotDies, PoiTypeOK
  <2>3. \A t \in Ticket : Used(t) => Used(t)'
    BY <2>2 DEF Used
  <2>4. slot' \in [Slot -> SlotState] /\ losses' \in 0..LossBudget
    BY <1>7, <2>1, <2>2, <2>3
  <2>5. PoiTypeOK'
    BY <1>0, <2>2, <2>4 DEF PoiTypeOK
  <2>6. QED
    BY <1>7, <2>1, <2>2, <2>3, <2>5
<1>9. ASSUME NEW w \in Slot, CreateCall(w) PROVE PoiSound'
  <2>1. PICK t \in Ticket :
          /\ ~Used(t) /\ Used(t)'
          /\ remote'[t].state = "waiting" /\ remote'[t].place = slot[w].row.place
          /\ \A u \in Ticket : u # t => remote'[u] = remote[u]
          /\ remote' \in [Ticket -> [state : {"unused", "waiting", "listed", "gone"},
                                     place : Place, status : Review]]
          /\ \/ /\ slot' = [slot EXCEPT ![w] = [slot[w] EXCEPT !.pc = "commit", !.row.ticket = t]]
                /\ UNCHANGED losses
             \/ Restart(w)
          /\ fresh' = FALSE
          /\ UNCHANGED <<rows, commands, reruns, applied>>
    BY <1>0, <1>9, CreateCallMakes
  <2>2. \A u \in Ticket : Used(u) => Used(u)'
    BY <2>1 DEF Used
  <2>3. slot[w].command = "create" /\ slot[w] \in SlotState /\ ~slot[w].row.linked
    BY <1>0, <1>9 DEF CreateCall, At, PoiTypeOK, TicketsHeld, SlotHolds
  <2>4. CASE Restart(w)
    <3>1. slot' \in [Slot -> SlotState] /\ losses' \in 0..LossBudget
      BY <1>7, <2>1, <2>2, <2>3, <2>4
    <3>2. PoiTypeOK'
      BY <1>0, <2>1, <3>1 DEF PoiTypeOK
    <3>3. QED
      BY <1>7, <2>1, <2>2, <2>3, <2>4, <3>2
  <2>5. CASE /\ slot' = [slot EXCEPT ![w] = [slot[w] EXCEPT !.pc = "commit", !.row.ticket = t]]
             /\ UNCHANGED losses
    <3> DEFINE s == [slot[w] EXCEPT !.pc = "commit", !.row.ticket = t]
    <3>1. s \in SlotState
      BY <2>3 DEF SlotState, RowRecord
    <3>2. /\ s.row.ticket = t /\ s.row.linked = slot[w].row.linked
          /\ s.command = "create" /\ s.pc = "commit"
          /\ s.listing = slot[w].listing /\ s.seen = slot[w].seen
      BY <2>3 DEF SlotState, RowRecord
    <3> HIDE DEF s
    <3>3. /\ slot' \in [Slot -> SlotState] /\ slot'[w] = s
          /\ \A v \in Slot : v # w => slot'[v] = slot[v]
      BY <1>0, <2>5, <3>1, SlotSet DEF s
    <3>4. PoiTypeOK'
      BY <1>0, <2>1, <2>5, <3>3 DEF PoiTypeOK
    <3>5. \A r \in rows : r.ticket # t
      BY <1>0, <2>1 DEF TicketsHeld
    <3>6. \A e \in slot[w].listing : e.ticket \in Ticket
      BY <2>3 DEF SlotState
    <3>7. SlotHolds(w)'
      BY <1>0, <2>1, <2>2, <2>3, <3>2, <3>3, <3>5, <3>6 DEF TicketsHeld, SlotHolds, At
    <3>8. \A v \in Slot : At(v, "create", "commit") => slot[v].row.ticket # t
      BY <1>0, <2>1 DEF TicketsHeld, SlotHolds
    <3>9. QED
      BY <2>1, <2>2, <3>2, <3>3, <3>4, <3>7, <3>8, HeldWithSlot
  <2>6. QED
    BY <2>1, <2>4, <2>5
\* The rows are written.
<1>10. ASSUME NEW w \in Slot, RowsSound(rows'), UNCHANGED <<remote, commands, losses, reruns, applied, fresh>>,
              slot' \in [Slot -> SlotState],
              \A v \in Slot : v # w => slot'[v] = slot[v],
              SlotHolds(w)', ~At(w, "create", "commit")',
              \A v \in Slot : v # w /\ At(v, "create", "commit") =>
                 \A r \in rows' : ~r.linked => r.ticket # slot[v].row.ticket
       PROVE  PoiSound'
  <2>1. PoiTypeOK'
    BY <1>0, <1>10 DEF PoiTypeOK, RowsSound
  <2>2. ASSUME NEW v \in Slot PROVE SlotHolds(v)'
    BY <1>0, <1>10 DEF TicketsHeld, SlotHolds, At, Used
  <2>3. \A v \in Slot : At(v, "create", "commit")' => v # w /\ At(v, "create", "commit")
    BY <1>10 DEF At
  <2>4. \A r \in rows' : r.id <= Cardinality(rows') /\ Used(r.ticket)'
    BY <1>10 DEF RowsSound, Used
  <2>5. QED
    BY <1>0, <1>10, <2>1, <2>2, <2>3, <2>4 DEF PoiSound, TicketsHeld
<1>11. ASSUME NEW w \in Slot, CreateCommit(w) PROVE PoiSound'
  <2>1. /\ At(w, "create", "commit")
        /\ rows' = rows \cup {[slot[w].row EXCEPT !.id = Cardinality(rows) + 1]}
        /\ Goto(w, "mark")
        /\ UNCHANGED <<remote, commands, losses, reruns, applied, fresh>>
    BY <1>11 DEF CreateCommit
  <2>2. RowsSound(rows')
    BY <2>1, CreateCommitRows
  <2>3. /\ slot' \in [Slot -> SlotState] /\ slot'[w] = [slot[w] EXCEPT !.pc = "mark"]
        /\ \A v \in Slot : v # w => slot'[v] = slot[v]
    BY <1>0, <2>1, Moved
  <2>4. /\ slot'[w].pc = "mark" /\ slot'[w].command = slot[w].command
        /\ slot'[w].row = slot[w].row /\ slot'[w].listing = slot[w].listing
        /\ slot'[w].seen = slot[w].seen
    BY <1>0, <2>3 DEF PoiTypeOK, SlotState
  <2>5. SlotHolds(w)' /\ ~At(w, "create", "commit")'
    BY <1>0, <2>1, <2>4 DEF TicketsHeld, SlotHolds, At, Used
  <2>6. ASSUME NEW v \in Slot, v # w, At(v, "create", "commit"), NEW r \in rows', ~r.linked
        PROVE  r.ticket # slot[v].row.ticket
    <3>1. CASE r \in rows
      BY <1>0, <2>6, <3>1 DEF TicketsHeld, SlotHolds
    <3>2. CASE r = [slot[w].row EXCEPT !.id = Cardinality(rows) + 1]
      <4>1. r.ticket = slot[w].row.ticket
        BY <1>0, <3>2 DEF PoiTypeOK, SlotState, RowRecord
      <4>2. QED
        BY <1>0, <2>1, <2>6, <4>1 DEF TicketsHeld
    <3>3. QED
      BY <2>1, <2>6, <3>1, <3>2
  <2>7. QED
    BY <1>10, <2>1, <2>2, <2>3, <2>5, <2>6
\* A slot ends its command and writes no row.
<1>12. ASSUME NEW w \in Slot, Finish(w), UNCHANGED <<remote, rows, commands, losses, reruns, applied, fresh>>
       PROVE  PoiSound'
  <2>1. /\ slot' \in [Slot -> SlotState] /\ slot'[w] = Idle
        /\ \A v \in Slot : v # w => slot'[v] = slot[v]
    BY <1>0, <1>12, Finished
  <2>2. PoiTypeOK'
    BY <1>0, <1>12, <2>1 DEF PoiTypeOK
  <2>3. QED
    BY <1>12, <2>1, <2>2, NothingHeld, HeldWithSlot DEF Used
<1>13. ASSUME NEW w \in Slot, CreateMark(w) PROVE PoiSound'
  <2>1. CASE Finish(w) /\ UNCHANGED reruns
    BY <1>12, <1>13, <2>1 DEF CreateMark
  <2>2. CASE reruns < RerunBudget /\ reruns' = reruns + 1 /\ Goto(w, "call")
    <3>1. /\ slot' \in [Slot -> SlotState] /\ slot'[w] = [slot[w] EXCEPT !.pc = "call"]
          /\ \A v \in Slot : v # w => slot'[v] = slot[v]
      BY <1>0, <2>2, Moved
    <3>2. /\ slot'[w].pc = "call" /\ slot'[w].command = slot[w].command
          /\ slot'[w].row = slot[w].row /\ slot'[w].listing = slot[w].listing
          /\ slot'[w].seen = slot[w].seen
      BY <1>0, <3>1 DEF PoiTypeOK, SlotState
    <3>3. UNCHANGED <<remote, rows, commands, losses, applied, fresh>> /\ At(w, "create", "mark")
      BY <1>13 DEF CreateMark
    <3>4. SlotHolds(w)' /\ ~At(w, "create", "commit")'
      BY <1>0, <3>2, <3>3 DEF TicketsHeld, SlotHolds, At, Used
    <3>5. reruns' \in 0..RerunBudget
      BY <1>0, <2>2, PoiMirrorAssumption DEF PoiTypeOK
    <3>6. PoiTypeOK'
      BY <1>0, <3>1, <3>3, <3>5 DEF PoiTypeOK
    <3>7. QED
      BY <3>1, <3>3, <3>4, <3>6, HeldWithSlot DEF Used
  <2>3. QED
    BY <1>13, <2>1, <2>2 DEF CreateMark
<1>14. ASSUME NEW w \in Slot, SyncList(w) PROVE PoiSound'
  <2> DEFINE list == {[ticket |-> t, status |-> remote[t].status] : t \in Listed}
             s == [slot[w] EXCEPT !.pc = "read", !.listing = list]
  <2>1. /\ At(w, "sync", "call") /\ fresh' = TRUE
        /\ slot' = [slot EXCEPT ![w].pc = "read", ![w].listing = list]
        /\ UNCHANGED <<remote, rows, commands, losses, reruns, applied>>
    BY <1>14 DEF SyncList
  <2>2. slot' = [slot EXCEPT ![w] = s]
    BY <2>1
  <2>3. /\ list \in SUBSET [ticket : Ticket, status : Review]
        /\ \A e \in list : Used(e.ticket)
        /\ \A e, g \in list : e.ticket = g.ticket => e = g
    BY <1>0 DEF Listed, PoiTypeOK, Used
  <2> HIDE DEF list
  <2>4. slot[w] \in SlotState
    BY <1>0 DEF PoiTypeOK
  <2>5. /\ s \in SlotState /\ s.pc = "read" /\ s.command = slot[w].command
        /\ s.row = slot[w].row /\ s.listing = list /\ s.seen = slot[w].seen
    BY <2>3, <2>4 DEF SlotState
  <2> HIDE DEF s
  <2>6. /\ slot' \in [Slot -> SlotState] /\ slot'[w] = s
        /\ \A v \in Slot : v # w => slot'[v] = slot[v]
    BY <1>0, <2>2, <2>5, SlotSet
  <2>7. PoiTypeOK'
    BY <1>0, <2>1, <2>6 DEF PoiTypeOK
  <2>8. SlotHolds(w)' /\ ~At(w, "create", "commit")'
    BY <1>0, <2>1, <2>3, <2>5, <2>6 DEF TicketsHeld, SlotHolds, At, Used
  <2>9. QED
    BY <2>1, <2>6, <2>7, <2>8, HeldWithSlot DEF Used
<1>15. ASSUME NEW w \in Slot, SyncRead(w) PROVE PoiSound'
  <2> DEFINE s == [slot[w] EXCEPT !.pc = "commit", !.seen = rows]
  <2>1. /\ At(w, "sync", "read")
        /\ slot' = [slot EXCEPT ![w].pc = "commit", ![w].seen = rows]
        /\ UNCHANGED <<remote, rows, commands, losses, reruns, applied, fresh>>
    BY <1>15 DEF SyncRead
  <2>2. slot' = [slot EXCEPT ![w] = s]
    BY <2>1
  <2>3. slot[w] \in SlotState /\ rows \in SUBSET RowRecord /\ IsFiniteSet(rows)
    BY <1>0, RowsFinite DEF PoiTypeOK
  <2>4. /\ s \in SlotState /\ s.pc = "commit" /\ s.command = slot[w].command
        /\ s.row = slot[w].row /\ s.listing = slot[w].listing /\ s.seen = rows
    BY <2>3 DEF SlotState
  <2> HIDE DEF s
  <2>5. /\ slot' \in [Slot -> SlotState] /\ slot'[w] = s
        /\ \A v \in Slot : v # w => slot'[v] = slot[v]
    BY <1>0, <2>2, <2>4, SlotSet
  <2>6. PoiTypeOK'
    BY <1>0, <2>1, <2>5 DEF PoiTypeOK
  <2>7. SlotHolds(w)' /\ ~At(w, "create", "commit")'
    BY <1>0, <2>1, <2>3, <2>4, <2>5 DEF TicketsHeld, SlotHolds, At, Used
  <2>8. QED
    BY <2>1, <2>5, <2>6, <2>7, HeldWithSlot DEF Used
<1>16. ASSUME NEW w \in Slot, SyncCommit(w) PROVE PoiSound'
  <2>1. PICK link \in Links(slot[w].seen, New(w)) : rows' = OldRows(w, link) \cup NewRows(w, link)
    BY <1>16, SyncParts
  <2>2. RowsSound(rows')
    BY <2>1, SyncCommitRows
  <2>3. /\ Finish(w) /\ At(w, "sync", "commit")
        /\ UNCHANGED <<remote, commands, losses, reruns, applied, fresh>>
    BY <1>16 DEF SyncCommit
  <2>4. /\ slot' \in [Slot -> SlotState] /\ slot'[w] = Idle
        /\ \A v \in Slot : v # w => slot'[v] = slot[v]
    BY <1>0, <2>3, Finished
  <2>5. SlotHolds(w)' /\ ~At(w, "create", "commit")'
    BY <2>4, NothingHeld
  <2>6. ASSUME NEW r \in rows', ~r.linked
        PROVE  \E q \in rows : ~q.linked /\ q.ticket = r.ticket
    <3>1. r \in OldRows(w, link)
      BY <2>1, <2>6 DEF NewRows, NewRow
    <3>2. PICK q \in rows : r = OldRow(w, link, q)
      BY <3>1 DEF OldRows
    <3>3. QED
      BY <2>6, <3>2, OldRowsAre
  <2>7. \A v \in Slot : v # w /\ At(v, "create", "commit") =>
                 \A r \in rows' : ~r.linked => r.ticket # slot[v].row.ticket
    BY <1>0, <2>6 DEF TicketsHeld, SlotHolds
  <2>8. QED
    BY <1>10, <2>2, <2>3, <2>4, <2>5, <2>7
<1>17. ASSUME NEW w \in Slot, Refused(w) PROVE PoiSound'
  BY <1>12, <1>17 DEF Refused
\* The platform answers about a row's store.
<1>18. ASSUME NEW w \in Slot, NEW command \in OnRow, NEW answer \in RowStatus,
              Answered(w, command, answer),
              remote' \in [Ticket -> [state : {"unused", "waiting", "listed", "gone"},
                                      place : Place, status : Review]],
              \A t \in Ticket : Used(t) => Used(t)', fresh' \in BOOLEAN
       PROVE  PoiSound'
  <2>1. At(w, command, "call") /\ UNCHANGED <<rows, commands, reruns, applied>>
    BY <1>18 DEF Answered
  <2>2. slot[w].command # "none" /\ slot[w].command # "create" /\ slot[w] \in SlotState
    BY <1>0, <2>1 DEF At, OnRow, PoiTypeOK
  <2>3. CASE Restart(w)
    <3>1. slot' \in [Slot -> SlotState] /\ losses' \in 0..LossBudget
      BY <1>7, <1>18, <2>1, <2>2, <2>3
    <3>2. PoiTypeOK'
      BY <1>0, <1>18, <2>1, <3>1 DEF PoiTypeOK
    <3>3. QED
      BY <1>7, <1>18, <2>1, <2>2, <2>3, <3>2
  <2>4. CASE slot' = [slot EXCEPT ![w].pc = "commit", ![w].answer = answer] /\ UNCHANGED losses
    <3> DEFINE s == [slot[w] EXCEPT !.pc = "commit", !.answer = answer]
    <3>1. slot' = [slot EXCEPT ![w] = s]
      BY <2>4
    <3>2. /\ s \in SlotState /\ s.pc = "commit" /\ s.command = slot[w].command
          /\ s.row = slot[w].row /\ s.listing = slot[w].listing /\ s.seen = slot[w].seen
      BY <2>2 DEF SlotState
    <3> HIDE DEF s
    <3>3. /\ slot' \in [Slot -> SlotState] /\ slot'[w] = s
          /\ \A v \in Slot : v # w => slot'[v] = slot[v]
      BY <1>0, <3>1, <3>2, SlotSet
    <3>4. PoiTypeOK'
      BY <1>0, <1>18, <2>1, <2>4, <3>3 DEF PoiTypeOK
    <3>5. \A e \in slot[w].listing : e.ticket \in Ticket
      BY <2>2 DEF SlotState
    <3>6. SlotHolds(w)' /\ ~At(w, "create", "commit")'
      BY <1>0, <1>18, <2>2, <3>2, <3>3, <3>5 DEF TicketsHeld, SlotHolds, At
    <3>7. QED
      BY <1>18, <2>1, <3>3, <3>4, <3>6, HeldWithSlot
  <2>5. QED
    BY <1>18, <2>3, <2>4 DEF Answered
<1>19. ASSUME NEW w \in Slot, UpdateCall(w) \/ DeleteCall(w) \/ RefreshCall(w) PROVE PoiSound'
  <2>1. {"pending", "deleted"} \subseteq RowStatus /\ {"update", "delete", "refresh"} \subseteq OnRow
    BY DEF RowStatus, OnRow
  <2>2. CASE UpdateCall(w)
    <3>1. Answered(w, "update", "pending") /\ fresh' \in BOOLEAN /\ UNCHANGED remote
      BY <2>2 DEF UpdateCall
    <3>2. QED
      BY <1>0, <1>18, <2>1, <3>1 DEF PoiTypeOK, Used
  <2>3. CASE DeleteCall(w)
    <3>1. /\ Answered(w, "delete", "deleted") /\ fresh' \in BOOLEAN
          /\ remote' = [remote EXCEPT ![slot[w].row.ticket].state = "gone"]
      BY <2>3 DEF DeleteCall
    <3>2. /\ remote' \in [Ticket -> [state : {"unused", "waiting", "listed", "gone"},
                                     place : Place, status : Review]]
          /\ \A t \in Ticket : Used(t) => Used(t)'
      BY <1>0, <3>1 DEF PoiTypeOK, Used
    <3>3. QED
      BY <1>18, <2>1, <3>1, <3>2
  <2>4. CASE RefreshCall(w)
    <3>1. /\ Answered(w, "refresh", remote[slot[w].row.ticket].status)
          /\ UNCHANGED <<remote, fresh>>
      BY <2>4 DEF RefreshCall
    <3>2. slot[w].row.ticket \in Ticket
      BY <1>0 DEF PoiTypeOK, SlotState, RowRecord
    <3>3. remote[slot[w].row.ticket].status \in RowStatus
      BY <1>0, <3>2 DEF PoiTypeOK, RowStatus
    <3>4. QED
      BY <1>0, <1>18, <2>1, <3>1, <3>3 DEF PoiTypeOK, Used
  <2>5. QED
    BY <1>19, <2>2, <2>3, <2>4
<1>20. ASSUME NEW w \in Slot, RowCommit(w) PROVE PoiSound'
  <2>1. /\ rows' = {IF r.id = slot[w].row.id
                    THEN Flushed(r, slot[w].row.status, slot[w].answer) ELSE r : r \in rows}
        /\ Finish(w)
        /\ UNCHANGED <<remote, commands, losses, reruns, applied, fresh>>
    BY <1>20 DEF RowCommit
  <2>2. slot[w].answer \in RowStatus
    BY <1>0 DEF PoiTypeOK, SlotState
  <2>3. RowsSound(rows')
    BY <2>1, <2>2, RowCommitRows
  <2>4. /\ slot' \in [Slot -> SlotState] /\ slot'[w] = Idle
        /\ \A v \in Slot : v # w => slot'[v] = slot[v]
    BY <1>0, <2>1, Finished
  <2>5. SlotHolds(w)' /\ ~At(w, "create", "commit")'
    BY <2>4, NothingHeld
  <2>6. ASSUME NEW r \in rows', ~r.linked
        PROVE  \E q \in rows : ~q.linked /\ q.ticket = r.ticket
    BY <1>0, <2>1, <2>6 DEF PoiTypeOK, Flushed, RowRecord
  <2>7. \A v \in Slot : v # w /\ At(v, "create", "commit") =>
                 \A r \in rows' : ~r.linked => r.ticket # slot[v].row.ticket
    BY <1>0, <2>6 DEF TicketsHeld, SlotHolds
  <2>8. QED
    BY <1>10, <2>1, <2>3, <2>4, <2>5, <2>7
<1>21. QED
  BY <1>1, <1>2, <1>4, <1>5, <1>6, <1>8, <1>9, <1>11, <1>13, <1>14, <1>15, <1>16, <1>17,
     <1>19, <1>20 DEF PoiNext

(***************************************************************************)
(* The table of POIs has one row per id and one per store or application,  *)
(* whatever the number of slots: what a synchronization adds and carries   *)
(* over never takes the number of a row or a store that has one already.   *)
(***************************************************************************)
THEOREM PoiTypesHold == PoiSpec => []PoiTypeOK
<1>1. PoiInit => PoiSound
  BY InitSound
<1>2. PoiSound /\ [PoiNext]_poiVars => PoiSound'
  BY StepSound
<1>3. PoiSound => PoiTypeOK
  BY DEF PoiSound
<1>4. QED
  BY <1>1, <1>2, <1>3, PTL DEF PoiSpec

-----------------------------------------------------------------------------
(* One slot: the mirror is the list *)

OneSlot == \A v, w \in Slot : v = w

InSync(w) == slot[w].command = "sync" /\ slot[w].pc \in {"read", "commit"}

PlatformList == {[ticket |-> t, status |-> remote[t].status] : t \in Listed}

\* MirrorsTheList, which is about a state without a command at work.
ListKept ==
    /\ \A t \in Listed : \E r \in RowsOf(t) : r.status = remote[t].status
    /\ \A r \in rows : IF r.linked THEN r.ticket \notin Listed => r.status = "deleted"
                       ELSE r.status # "deleted"

\* What a slot holds is what the table and the platform still say.
SlotFollows(w) ==
    /\ slot[w].command = "create" =>
          /\ slot[w].row.status = "under_review"
          /\ slot[w].pc # "call" => ~fresh
    /\ slot[w].command \in OnRow =>
          /\ slot[w].row \in rows
          /\ slot[w].pc = "commit" =>
                /\ slot[w].row.linked
                /\ fresh => /\ slot[w].row.ticket \in Listed
                            /\ slot[w].answer = remote[slot[w].row.ticket].status
    /\ InSync(w) /\ fresh => slot[w].listing = PlatformList
    /\ At(w, "sync", "commit") => slot[w].seen = rows

Following ==
    /\ \A r \in rows : ~r.linked => r.status = "under_review"
    /\ \A w \in Slot : SlotFollows(w)
    /\ fresh /\ (\A w \in Slot : ~InSync(w)) => ListKept

LEMMA InitFollows == PoiInit => Following
  BY DEF PoiInit, Following, SlotFollows, InSync, At, Idle, OnRow

\* A slot that has just begun or ended follows.
LEMMA FreshSlotFollows ==
  ASSUME NEW w \in Slot,
         slot'[w] = Idle \/ \E command \in OnRow \cup {"create", "sync"}, subject \in RowRecord :
                               /\ slot'[w] = Begun(command, subject)
                               /\ command = "create" => subject.status = "under_review"
                               /\ command \in OnRow => subject \in rows'
  PROVE  SlotFollows(w)' /\ ~InSync(w)'
<1>1. CASE slot'[w] = Idle
  BY <1>1 DEF SlotFollows, InSync, At, Idle, OnRow
<1>2. ASSUME NEW command \in OnRow \cup {"create", "sync"}, NEW subject \in RowRecord,
             slot'[w] = Begun(command, subject), command = "create" => subject.status = "under_review",
             command \in OnRow => subject \in rows'
      PROVE  SlotFollows(w)' /\ ~InSync(w)'
  <2>1. slot'[w].pc = "call" /\ slot'[w].command = command /\ slot'[w].row = subject
    BY <1>2, BegunSlot
  <2>2. QED
    BY <1>2, <2>1 DEF SlotFollows, InSync, At
<1>3. QED
  BY <1>1, <1>2

\* The one slot ends or begins anew; the list is kept where it was.
LEMMA FollowsAnew ==
  ASSUME OneSlot, Following, NEW w \in Slot, UNCHANGED rows,
         slot'[w] = Idle \/ \E command \in OnRow \cup {"create", "sync"}, subject \in RowRecord :
                               /\ slot'[w] = Begun(command, subject)
                               /\ command = "create" => subject.status = "under_review"
                               /\ command \in OnRow => subject \in rows',
         fresh' => fresh /\ ~InSync(w) /\ remote' = remote
  PROVE  Following'
<1>1. SlotFollows(w)' /\ ~InSync(w)'
  BY FreshSlotFollows
<1>2. \A v \in Slot : v = w
  BY DEF OneSlot
<1>3. fresh' => ListKept'
  BY <1>2 DEF Following, ListKept, Listed, RowsOf
<1>4. QED
  BY <1>1, <1>2, <1>3 DEF Following

\* What a restart leaves, in the same terms.
LEMMA RestartFollows ==
  ASSUME PoiSound, OneSlot, Following, NEW w \in Slot, slot[w].command # "none", Restart(w),
         UNCHANGED rows, fresh' => fresh /\ ~InSync(w) /\ remote' = remote
  PROVE  Following'
<1>1. PICK subject \in RowRecord :
        /\ IF slot[w].command \in OnRow
           THEN subject \in rows /\ subject.id = slot[w].row.id ELSE subject = slot[w].row
        /\ slot'[w] = Begun(slot[w].command, subject)
  BY Restarted DEF PoiSound
<1>2. slot[w].command \in OnRow \cup {"create", "sync"}
  BY DEF PoiSound, PoiTypeOK, SlotState
<1>3. slot[w].command = "create" => subject.status = "under_review"
  BY <1>1 DEF Following, SlotFollows, OnRow
<1>4. QED
  BY <1>1, <1>2, <1>3, FollowsAnew

\* A synchronization that has read the present rows leaves each row as follows.
LEMMA OldRowIs ==
  ASSUME PoiSound, NEW w \in Slot, slot[w].seen = rows,
         NEW link \in Links(slot[w].seen, New(w)), NEW r \in rows
  PROVE  LET o == OldRow(w, link, r)
             tickets == {e.ticket : e \in slot[w].listing}
         IN
         /\ o.linked /\ o.ticket \in tickets =>
               \E e \in slot[w].listing : e.ticket = o.ticket /\ o.status = e.status
         /\ r.linked => /\ o.linked /\ o.ticket = r.ticket
                        /\ o.ticket \notin tickets => o.status = "deleted"
         /\ ~r.linked => \/ o = r /\ Takers(w, link, r) = {}
                         \/ o.linked /\ o.ticket \in Takers(w, link, r)
<1> DEFINE seen    == slot[w].seen
           listing == slot[w].listing
           takers  == Takers(w, link, r)
           tickets == {e.ticket : e \in listing}
           loaded  == {q \in seen : q.id = r.id}
           before  == IF loaded = {} THEN r.status ELSE (CHOOSE q \in loaded : TRUE).status
           now     == IF takers = {} THEN r
                      ELSE [r EXCEPT !.linked = TRUE, !.ticket = CHOOSE t \in takers : TRUE]
           e0      == CHOOSE e \in listing : e.ticket = now.ticket
           o == OldRow(w, link, r)
<1>1. loaded = {r}
  BY DEF PoiSound, PoiTypeOK
<1>2. before = r.status
  BY <1>1
<1>3. r.linked => takers = {}
  <2> SUFFICES ASSUME r.linked, takers # {} PROVE FALSE
    OBVIOUS
  <2>1. PICK p \in DOMAIN link : \E q \in Pending(seen, p) : q.id = r.id
    BY DEF Takers
  <2>2. PICK q \in rows : ~q.linked /\ q.id = r.id
    BY <2>1 DEF Pending
  <2>3. QED
    BY <2>2 DEF PoiSound, PoiTypeOK
<1>4. /\ o \in RowRecord /\ r \in RowRecord
      /\ takers = {} => o.linked = r.linked /\ o.ticket = r.ticket
      /\ takers # {} => o.linked /\ o.ticket \in takers
  <2>1. r \in RowRecord /\ takers \in SUBSET Ticket
    BY LinksAre, SlotParts DEF PoiSound, PoiTypeOK
  <2>2. QED
    BY <2>1, SlotParts, SyncedKeeps DEF OldRow
<1>5. o = IF now.linked /\ now.ticket \in tickets
          THEN Flushed(now, before, e0.status)
          ELSE IF \E q \in loaded : Missing(q, tickets)
          THEN Flushed(now, before, "deleted")
          ELSE now
  BY DEF OldRow, Synced
<1>6. now.ticket \in tickets => e0 \in listing /\ e0.ticket = now.ticket
  OBVIOUS
<1>7. /\ now \in RowRecord /\ now.status = r.status
      /\ takers = {} => now = r
  <2>1. CASE takers = {}
    BY <1>4, <2>1
  <2>2. CASE takers # {}
    <3> DEFINE t0 == CHOOSE t \in takers : TRUE
    <3>1. t0 \in Ticket
      BY <2>2, LinksAre, SlotParts
    <3>2. now = [r EXCEPT !.linked = TRUE, !.ticket = t0]
      BY <2>2
    <3> HIDE DEF t0, now
    <3>3. QED
      BY <1>4, <2>2, <3>1, <3>2 DEF RowRecord
  <2>3. QED
    BY <2>1, <2>2
<1>8. (\E q \in loaded : Missing(q, tickets)) <=> r.linked /\ r.ticket \notin tickets
  BY <1>1 DEF Missing
<1> HIDE DEF now, before, loaded, tickets, e0, takers, o
<1>9. ASSUME NEW status \in RowStatus
      PROVE  LET n == Flushed(now, before, status) IN
             /\ n.status = status /\ n.linked = now.linked /\ n.ticket = now.ticket
  BY <1>2, <1>7 DEF Flushed, RowRecord
<1>10. now.ticket \in tickets => e0.status \in RowStatus
  BY <1>6, SlotParts DEF Entry, RowStatus
<1>11. o.linked = now.linked /\ o.ticket = now.ticket
  BY <1>5, <1>9, <1>10 DEF RowStatus
<1>12. o.linked /\ o.ticket \in tickets =>
               \E e \in slot[w].listing : e.ticket = o.ticket /\ o.status = e.status
  BY <1>5, <1>6, <1>9, <1>10, <1>11
<1>13. r.linked => /\ o.linked /\ o.ticket = r.ticket
                   /\ o.ticket \notin tickets => o.status = "deleted"
  BY <1>3, <1>4, <1>5, <1>7, <1>8, <1>9 DEF RowStatus
<1>14. ~r.linked => \/ o = r /\ takers = {}
                    \/ o.linked /\ o.ticket \in takers
  BY <1>4, <1>5, <1>7, <1>8
<1>15. QED
  BY <1>12, <1>13, <1>14 DEF o, takers, tickets

\* The commit of a synchronization whose list is still the platform's.
LEMMA SyncKeepsList ==
  ASSUME PoiSound, NEW w \in Slot, slot[w].seen = rows, slot[w].listing = PlatformList,
         NEW link \in Links(slot[w].seen, New(w)),
         \A r \in rows : ~r.linked => r.status = "under_review",
         rows' = OldRows(w, link) \cup NewRows(w, link), UNCHANGED remote
  PROVE  ListKept'
<1> DEFINE tickets == {e.ticket : e \in slot[w].listing}
<1>1. tickets = Listed /\ \A e \in slot[w].listing : e.status = remote[e.ticket].status
  <2>1. ASSUME NEW e \in slot[w].listing
        PROVE  e.ticket \in Listed /\ e.status = remote[e.ticket].status
    BY DEF PlatformList
  <2>2. ASSUME NEW t \in Listed PROVE t \in tickets
    <3>1. [ticket |-> t, status |-> remote[t].status] \in slot[w].listing
      BY DEF PlatformList
    <3>2. [ticket |-> t, status |-> remote[t].status].ticket = t
      OBVIOUS
    <3>3. QED
      BY <3>1, <3>2
  <2>3. QED
    BY <2>1, <2>2
<1>2. Listed' = Listed
  BY DEF Listed
<1>3. ASSUME NEW o \in OldRows(w, link)
      PROVE  /\ o.linked /\ o.ticket \in Listed => o.status = remote[o.ticket].status
             /\ IF o.linked THEN o.ticket \notin Listed => o.status = "deleted"
                ELSE o.status # "deleted"
  <2>1. PICK r \in rows : o = OldRow(w, link, r)
    BY DEF OldRows
  <2>2. /\ o.linked /\ o.ticket \in tickets =>
               \E e \in slot[w].listing : e.ticket = o.ticket /\ o.status = e.status
        /\ r.linked => /\ o.linked /\ o.ticket = r.ticket
                       /\ o.ticket \notin tickets => o.status = "deleted"
        /\ ~r.linked => \/ o = r
                        \/ o.linked /\ o.ticket \in Takers(w, link, r)
    BY <2>1, OldRowIs
  <2>3. Takers(w, link, r) \subseteq tickets
    BY LinksAre DEF New
  <2>4. QED
    BY <1>1, <2>2, <2>3
<1>4. ASSUME NEW x \in NewRows(w, link)
      PROVE  x.linked = TRUE /\ x.ticket \in Listed /\ x.status = remote[x.ticket].status
  <2>1. PICK e \in slot[w].listing : x = NewRow(w, link, e)
    BY DEF NewRows
  <2>2. QED
    BY <1>1, <2>1 DEF NewRow
<1>5. ASSUME NEW t \in Listed PROVE \E r \in rows' : r.linked /\ r.ticket = t
  <2>1. CASE t \notin New(w)
    <3>1. PICK r \in rows : r.linked /\ r.ticket = t
      BY <1>1, <2>1 DEF New, RowsOf
    <3>2. OldRow(w, link, r).linked /\ OldRow(w, link, r).ticket = t
      BY <3>1, OldRowIs
    <3>3. QED
      BY <3>2 DEF OldRows
  <2>2. CASE t \in Added(w, link)
    <3>1. PICK e \in slot[w].listing : e.ticket = t
      BY <1>1
    <3>2. /\ NewRow(w, link, e) \in NewRows(w, link)
          /\ NewRow(w, link, e).linked = TRUE /\ NewRow(w, link, e).ticket = t
      BY <2>2, <3>1 DEF NewRows, NewRow
    <3>3. QED
      BY <3>2
  <2>3. ASSUME NEW p \in DOMAIN link, t = link[p] PROVE \E r \in rows' : r.linked /\ r.ticket = t
    <3>0. \E q : Pending(slot[w].seen, p) = {q}
      BY OneWaits
    <3>1. PICK q : Pending(slot[w].seen, p) = {q}
      BY <3>0
    <3>2. q \in rows /\ ~q.linked /\ q.place = p
      BY <3>1 DEF Pending
    <3>3. link[p] \in Takers(w, link, q)
      BY <3>1 DEF Takers
    <3>4. \A t2 \in Takers(w, link, q) : t2 = link[p]
      <4> SUFFICES ASSUME NEW p2 \in DOMAIN link, NEW q2 \in Pending(slot[w].seen, p2), q2.id = q.id
                   PROVE  p2 = p
        BY DEF Takers
      <4>1. q2 \in rows /\ q2.place = p2
        BY DEF Pending
      <4>2. q2 = q
        BY <3>2, <4>1 DEF PoiSound, PoiTypeOK
      <4>3. QED
        BY <3>2, <4>1, <4>2
    <3>5. OldRow(w, link, q).linked /\ OldRow(w, link, q).ticket \in Takers(w, link, q)
      BY <3>2, <3>3, OldRowIs
    <3>6. QED
      BY <2>3, <3>2, <3>4, <3>5 DEF OldRows
  <2>4. QED
    BY <2>1, <2>2, <2>3 DEF Added
<1>6. \A r \in rows' : /\ r.linked /\ r.ticket \in Listed => r.status = remote[r.ticket].status
                       /\ IF r.linked THEN r.ticket \notin Listed => r.status = "deleted"
                          ELSE r.status # "deleted"
  BY <1>3, <1>4
<1>7. QED
  BY <1>2, <1>5, <1>6 DEF ListKept, RowsOf

LEMMA StepFollows ==
  ASSUME OneSlot, PoiSound, Following, [PoiNext]_poiVars
  PROVE  Following'
<1>0. PoiTypeOK /\ \A v \in Slot : SlotFollows(v) /\ SlotHolds(v) /\ slot[v] \in SlotState
  BY DEF PoiSound, PoiTypeOK, Following, TicketsHeld
<1>1. CASE UNCHANGED poiVars
  BY <1>1 DEF poiVars, Following, SlotFollows, InSync, At, PlatformList, ListKept, Listed, RowsOf
<1>2. ASSUME NEW t \in Ticket,
             (\E status \in Review : Publish(t, status)) \/ Approve(t) \/ Withdraw(t)
      PROVE  Following'
  <2>1. fresh' = FALSE /\ UNCHANGED <<rows, slot>>
    BY <1>0, <1>2, PlatformTyped
  <2>2. QED
    BY <2>1 DEF Following, SlotFollows, InSync, At
<1>3. ASSUME NEW w \in Slot, NEW command \in OnRow \cup {"create", "sync"},
             NEW subject \in RowRecord, StartCommand(w, command, subject),
             command = "create" => subject.status = "under_review", command \in OnRow => subject \in rows
      PROVE  Following'
  <2>1. /\ slot'[w] = Begun(command, subject) /\ slot[w] = Idle
        /\ UNCHANGED <<remote, rows, fresh>>
    BY <1>0, <1>3, Started
  <2>2. ~InSync(w)
    BY <2>1 DEF InSync, Idle
  <2>3. QED
    BY <1>3, <2>1, <2>2, FollowsAnew
<1>4. ASSUME NEW w \in Slot, NEW place \in Place, StartCreate(w, place) PROVE Following'
  <2>1. 1 \in Ticket /\ 1 \in RowId
    BY PoiMirrorAssumption DEF Ticket, RowId
  <2>2. /\ Application(1, 1, place) \in RowRecord
        /\ Application(1, 1, place).status = "under_review"
    BY <2>1 DEF Application, RowRecord, RowStatus, Review
  <2>3. QED
    BY <1>3, <1>4, <2>2 DEF StartCreate, OnRow
<1>5. ASSUME NEW w \in Slot, StartSync(w) PROVE Following'
  <2>1. Idle.row \in RowRecord
    BY IdleTyped DEF SlotState
  <2>2. QED
    BY <1>3, <1>5, <2>1 DEF StartSync, OnRow
<1>6. ASSUME NEW w \in Slot, NEW command \in OnRow, NEW subject \in rows, StartOnRow(w, command, subject)
      PROVE  Following'
  <2>1. subject \in RowRecord /\ command # "create"
    BY <1>0, <1>6 DEF PoiTypeOK, OnRow
  <2>2. QED
    BY <1>3, <1>6, <2>1 DEF StartOnRow
<1>7. ASSUME NEW w \in Slot, SlotDies(w) PROVE Following'
  <2>1. /\ Restart(w) /\ UNCHANGED <<remote, rows>>
        /\ fresh' => fresh /\ slot[w].command # "sync"
        /\ slot[w].command # "none"
    BY <1>0, <1>7 DEF SlotDies, SlotHolds
  <2>2. QED
    BY <2>1, RestartFollows DEF InSync
<1>8. ASSUME NEW w \in Slot, CreateCall(w) PROVE Following'
  <2>0. At(w, "create", "call")
    BY <1>8 DEF CreateCall
  <2>1. PICK t \in Ticket :
          /\ \/ slot' = [slot EXCEPT ![w] = [slot[w] EXCEPT !.pc = "commit", !.row.ticket = t]]
             \/ Restart(w)
          /\ fresh' = FALSE /\ UNCHANGED rows
    BY <1>0, <1>8, CreateCallMakes
  <2>2. CASE Restart(w)
    BY <2>0, <2>1, <2>2, RestartFollows DEF At
  <2>3. CASE slot' = [slot EXCEPT ![w] = [slot[w] EXCEPT !.pc = "commit", !.row.ticket = t]]
    <3> DEFINE s == [slot[w] EXCEPT !.pc = "commit", !.row.ticket = t]
    <3>1. slot[w] \in SlotState
      BY <1>0
    <3>2. s.row.status = slot[w].row.status /\ s.command = "create" /\ s \in SlotState
      BY <2>0, <3>1 DEF SlotState, RowRecord, At
    <3> HIDE DEF s
    <3>3. slot'[w] = s
      BY <1>0, <2>3, <3>2, SlotSet DEF s
    <3>4. SlotFollows(w)'
      BY <1>0, <2>0, <2>1, <3>2, <3>3 DEF SlotFollows, InSync, At, OnRow
    <3>5. QED
      BY <2>1, <3>4 DEF Following, OneSlot
  <2>4. QED
    BY <2>1, <2>2, <2>3
<1>9. ASSUME NEW w \in Slot, CreateCommit(w) PROVE Following'
  <2>1. /\ At(w, "create", "commit")
        /\ rows' = rows \cup {[slot[w].row EXCEPT !.id = Cardinality(rows) + 1]}
        /\ Goto(w, "mark") /\ UNCHANGED fresh
    BY <1>9 DEF CreateCommit
  <2>2. slot'[w] = [slot[w] EXCEPT !.pc = "mark"]
    BY <1>0, <2>1, Moved
  <2>3. /\ slot'[w].pc = "mark" /\ slot'[w].command = slot[w].command
        /\ slot'[w].row = slot[w].row
    BY <1>0, <2>2 DEF SlotState
  <2>4. ~fresh /\ slot[w].row.status = "under_review"
    BY <1>0, <2>1 DEF SlotFollows, At
  <2>5. \A r \in rows' : ~r.linked => r.status = "under_review"
    <3>1. [slot[w].row EXCEPT !.id = Cardinality(rows) + 1].status = "under_review"
      BY <1>0, <2>4 DEF SlotState, RowRecord
    <3>2. QED
      BY <2>1, <3>1 DEF Following
  <2>6. SlotFollows(w)'
    BY <2>1, <2>3, <2>4 DEF SlotFollows, InSync, At, OnRow
  <2>7. QED
    BY <2>1, <2>4, <2>5, <2>6 DEF Following, OneSlot
<1>10. ASSUME NEW w \in Slot, CreateMark(w) PROVE Following'
  <2>1. At(w, "create", "mark") /\ UNCHANGED <<remote, rows, fresh>>
    BY <1>10 DEF CreateMark
  <2>2. ~fresh /\ slot[w].row.status = "under_review"
    BY <1>0, <2>1 DEF SlotFollows, At
  <2>3. CASE Finish(w)
    <3>1. slot'[w] = Idle
      BY <1>0, <2>3, Finished
    <3>2. QED
      BY <2>1, <2>2, <3>1, FollowsAnew
  <2>4. CASE Goto(w, "call")
    <3>1. slot'[w] = [slot[w] EXCEPT !.pc = "call"]
      BY <1>0, <2>4, Moved
    <3>2. slot'[w].pc = "call" /\ slot'[w].command = "create" /\ slot'[w].row = slot[w].row
      BY <1>0, <2>1, <3>1 DEF SlotState, At
    <3>3. SlotFollows(w)'
      BY <2>2, <3>2 DEF SlotFollows, InSync, At, OnRow
    <3>4. QED
      BY <2>1, <2>2, <3>3 DEF Following, OneSlot
  <2>5. QED
    BY <1>10, <2>3, <2>4 DEF CreateMark
<1>11. ASSUME NEW w \in Slot, SyncList(w) PROVE Following'
  <2>1. /\ At(w, "sync", "call")
        /\ slot' = [slot EXCEPT ![w] = [slot[w] EXCEPT !.pc = "read", !.listing = PlatformList]]
        /\ UNCHANGED <<remote, rows>>
    BY <1>11 DEF SyncList, PlatformList
  <2>2. slot'[w] = [slot[w] EXCEPT !.pc = "read", !.listing = PlatformList]
    BY <1>0, <2>1 DEF PoiTypeOK
  <2>3. slot'[w].pc = "read" /\ slot'[w].command = "sync" /\ slot'[w].listing = PlatformList
    BY <1>0, <2>1, <2>2 DEF SlotState, At
  <2>4. PlatformList' = PlatformList
    BY <2>1 DEF PlatformList, Listed
  <2>5. SlotFollows(w)' /\ InSync(w)'
    BY <2>3, <2>4 DEF SlotFollows, InSync, At, OnRow
  <2>6. QED
    BY <2>1, <2>5 DEF Following, OneSlot
<1>12. ASSUME NEW w \in Slot, SyncRead(w) PROVE Following'
  <2> DEFINE s == [slot[w] EXCEPT !.pc = "commit", !.seen = rows]
  <2>1. /\ At(w, "sync", "read") /\ slot' = [slot EXCEPT ![w] = s]
        /\ UNCHANGED <<remote, rows, fresh>>
    BY <1>12 DEF SyncRead
  <2>2. /\ s \in SlotState /\ s.pc = "commit" /\ s.command = slot[w].command
        /\ s.listing = slot[w].listing /\ s.seen = rows
    BY <1>0 DEF PoiTypeOK, SlotState
  <2> HIDE DEF s
  <2>3. /\ slot'[w].pc = "commit" /\ slot'[w].command = "sync"
        /\ slot'[w].listing = slot[w].listing /\ slot'[w].seen = rows
    <3>1. slot'[w] = s
      BY <1>0, <2>1, <2>2, SlotSet
    <3>2. QED
      BY <2>1, <2>2, <3>1 DEF At
  <2>4. PlatformList' = PlatformList
    BY <2>1 DEF PlatformList, Listed
  <2>5. SlotFollows(w)' /\ InSync(w)'
    BY <1>0, <2>1, <2>3, <2>4 DEF SlotFollows, InSync, At, OnRow
  <2>6. QED
    BY <2>1, <2>5 DEF Following, OneSlot
<1>13. ASSUME NEW w \in Slot, SyncCommit(w) PROVE Following'
  <2>1. PICK link \in Links(slot[w].seen, New(w)) : rows' = OldRows(w, link) \cup NewRows(w, link)
    BY <1>13, SyncParts
  <2>2. /\ Finish(w) /\ At(w, "sync", "commit") /\ UNCHANGED <<remote, fresh>>
    BY <1>13 DEF SyncCommit
  <2>3. slot'[w] = Idle
    BY <1>0, <2>2, Finished
  <2>4. /\ slot[w].seen = rows
        /\ fresh => slot[w].listing = PlatformList
    BY <1>0, <2>2 DEF SlotFollows, InSync, At
  <2>5. SlotFollows(w)' /\ ~InSync(w)'
    BY <2>3, FreshSlotFollows
  <2>6. \A r \in rows : ~r.linked => r.status = "under_review"
    BY DEF Following
  <2>7. fresh' => ListKept'
    BY <2>1, <2>2, <2>4, <2>6, SyncKeepsList
  <2>8. ASSUME NEW x \in rows', ~x.linked PROVE x.status = "under_review"
    <3>1. x \in OldRows(w, link)
      BY <2>1, <2>8 DEF NewRows, NewRow
    <3>2. PICK r \in rows : x = OldRow(w, link, r)
      BY <3>1 DEF OldRows
    <3>3. x = r
      BY <2>4, <2>8, <3>2, OldRowIs
    <3>4. QED
      BY <2>6, <2>8, <3>3
  <2>9. QED
    BY <2>5, <2>7, <2>8 DEF Following, OneSlot
<1>14. ASSUME NEW w \in Slot, Refused(w) PROVE Following'
  <2>1. slot[w].pc = "call" /\ Finish(w) /\ UNCHANGED <<remote, rows, fresh>>
    BY <1>14 DEF Refused
  <2>2. slot'[w] = Idle
    BY <1>0, <2>1, Finished
  <2>3. QED
    BY <2>1, <2>2, FollowsAnew DEF InSync
\* The platform answers about a row's store.
<1>15. ASSUME NEW w \in Slot, NEW command \in OnRow, NEW answer \in RowStatus,
              Answered(w, command, answer),
              fresh' => fresh /\ remote' = remote /\ answer = remote[slot[w].row.ticket].status
       PROVE  Following'
  <2>1. At(w, command, "call") /\ OnStore(w) /\ UNCHANGED rows
    BY <1>15 DEF Answered
  <2>2. slot[w].command # "none" /\ slot[w].command # "create" /\ slot[w].command # "sync"
    BY <2>1 DEF At, OnRow
  <2>3. CASE Restart(w)
    BY <1>15, <2>1, <2>2, <2>3, RestartFollows DEF InSync
  <2>4. CASE slot' = [slot EXCEPT ![w].pc = "commit", ![w].answer = answer]
    <3> DEFINE s == [slot[w] EXCEPT !.pc = "commit", !.answer = answer]
    <3>1. slot' = [slot EXCEPT ![w] = s]
      BY <2>4
    <3>2. /\ s \in SlotState /\ s.pc = "commit" /\ s.command = slot[w].command
          /\ s.row = slot[w].row /\ s.answer = answer
      BY <1>0 DEF SlotState
    <3> HIDE DEF s
    <3>3. slot'[w] = s
      BY <1>0, <3>1, <3>2, SlotSet
    <3>4. slot[w].row \in rows /\ slot[w].command \in OnRow
      BY <1>0, <2>1 DEF SlotFollows, At
    <3>5. fresh' => Listed' = Listed
      BY <1>15 DEF Listed
    <3>6. SlotFollows(w)'
      BY <1>15, <2>1, <2>2, <3>2, <3>3, <3>4, <3>5 DEF SlotFollows, InSync, At, OnStore
    <3>7. ~InSync(w)
      BY <2>2 DEF InSync
    <3>8. fresh' => ListKept'
      BY <1>15, <2>1, <3>7 DEF Following, OneSlot, ListKept, Listed, RowsOf
    <3>9. QED
      BY <2>1, <3>6, <3>8 DEF Following, OneSlot
  <2>5. QED
    BY <1>15, <2>3, <2>4 DEF Answered
<1>16. ASSUME NEW w \in Slot, UpdateCall(w) \/ DeleteCall(w) \/ RefreshCall(w) PROVE Following'
  <2>1. {"pending", "deleted"} \subseteq RowStatus /\ {"update", "delete", "refresh"} \subseteq OnRow
    BY DEF RowStatus, OnRow
  <2>2. CASE UpdateCall(w)
    BY <1>15, <2>1, <2>2 DEF UpdateCall
  <2>3. CASE DeleteCall(w)
    BY <1>15, <2>1, <2>3 DEF DeleteCall
  <2>4. CASE RefreshCall(w)
    <3>1. slot[w].row.ticket \in Ticket
      BY <1>0 DEF SlotState, RowRecord
    <3>2. remote[slot[w].row.ticket].status \in RowStatus
      BY <1>0, <3>1 DEF PoiTypeOK, RowStatus
    <3>3. QED
      BY <1>15, <2>1, <2>4, <3>2 DEF RefreshCall
  <2>5. QED
    BY <1>16, <2>2, <2>3, <2>4
<1>17. ASSUME NEW w \in Slot, RowCommit(w) PROVE Following'
  <2> DEFINE new(r) == IF r.id = slot[w].row.id
                       THEN Flushed(r, slot[w].row.status, slot[w].answer) ELSE r
  <2>1. /\ rows' = {new(r) : r \in rows} /\ slot[w].pc = "commit" /\ slot[w].command \in OnRow
        /\ Finish(w) /\ UNCHANGED <<remote, fresh>>
    BY <1>17 DEF RowCommit
  <2>2. slot'[w] = Idle
    BY <1>0, <2>1, Finished
  <2>3. SlotFollows(w)' /\ ~InSync(w)' /\ ~InSync(w)
    BY <2>1, <2>2, FreshSlotFollows DEF InSync, OnRow
  <2>4. /\ slot[w].row \in rows /\ slot[w].row.linked
        /\ fresh => /\ slot[w].row.ticket \in Listed
                    /\ slot[w].answer = remote[slot[w].row.ticket].status
    BY <1>0, <2>1 DEF SlotFollows
  <2>5. ASSUME NEW r \in rows
        PROVE  /\ new(r).linked = r.linked /\ new(r).ticket = r.ticket
               /\ IF r = slot[w].row THEN new(r).status = slot[w].answer ELSE new(r) = r
    <3>1. r \in RowRecord /\ (r.id = slot[w].row.id <=> r = slot[w].row)
      BY <1>0, <2>4 DEF PoiTypeOK
    <3>2. QED
      BY <3>1 DEF Flushed, RowRecord
  <2> HIDE DEF new
  <2>6. \A x \in rows' : ~x.linked => x.status = "under_review"
    BY <2>1, <2>4, <2>5 DEF Following
  <2>7. fresh' => ListKept'
    <3> SUFFICES ASSUME fresh PROVE ListKept'
      BY <2>1
    <3>1. ListKept
      BY <2>3 DEF Following, OneSlot
    <3>2. Listed' = Listed
      BY <2>1 DEF Listed
    <3>3. ASSUME NEW t \in Listed PROVE \E x \in rows' : x.linked /\ x.ticket = t /\ x.status = remote[t].status
      <4>1. PICK r \in rows : r.linked /\ r.ticket = t /\ r.status = remote[t].status
        BY <3>1 DEF ListKept, RowsOf
      <4>2. new(r) \in rows' /\ new(r).linked /\ new(r).ticket = t
        BY <2>1, <2>5, <4>1
      <4>3. new(r).status = remote[t].status
        BY <2>4, <2>5, <4>1
      <4>4. QED
        BY <4>2, <4>3
    <3>4. ASSUME NEW x \in rows'
          PROVE  IF x.linked THEN x.ticket \notin Listed => x.status = "deleted"
                 ELSE x.status # "deleted"
      BY <2>1, <2>4, <2>5, <3>1 DEF ListKept
    <3>5. QED
      BY <2>1, <3>2, <3>3, <3>4 DEF ListKept, RowsOf
  <2>8. QED
    BY <2>3, <2>6, <2>7 DEF Following, OneSlot
<1>18. QED
  BY <1>1, <1>2, <1>4, <1>5, <1>6, <1>7, <1>8, <1>9, <1>10, <1>11, <1>12, <1>13, <1>14,
     <1>16, <1>17 DEF PoiNext

(***************************************************************************)
(* With one slot, whenever no command is at work and the platform has not  *)
(* changed since it was listed, every listed store has its row with its    *)
(* status, every other store's row is deleted, and the row of an           *)
(* application is not (stores/service.py, sync_pois).                      *)
(***************************************************************************)
THEOREM MirrorIsTheList ==
  ASSUME OneSlot
  PROVE  PoiSpec => []MirrorsTheList
<1>1. PoiInit => PoiSound /\ Following
  BY InitSound, InitFollows
<1>2. PoiSound /\ Following /\ [PoiNext]_poiVars => (PoiSound /\ Following)'
  BY StepSound, StepFollows, OneSlot
<1>3. Following => MirrorsTheList
  <2>1. Idle.command # "sync"
    BY DEF Idle
  <2>2. (\A w \in Slot : slot[w] = Idle) => \A w \in Slot : ~InSync(w)
    BY <2>1 DEF InSync
  <2>3. QED
    BY <2>2 DEF Following, MirrorsTheList, Synchronized, ListKept
<1>4. QED
  BY <1>1, <1>2, <1>3, PTL DEF PoiSpec

-----------------------------------------------------------------------------
(* Applications *)

\* A creation at work is the only application at its place.
SlotCarries(w) ==
    /\ slot[w].command = "create" /\ slot[w].pc # "mark" =>
          /\ slot[w].row.place \in applied
          /\ \A r \in rows : ~r.linked => r.place # slot[w].row.place
    /\ At(w, "create", "commit") =>
          /\ remote[slot[w].row.ticket].place = slot[w].row.place
          /\ RowsOf(slot[w].row.ticket) = {}

\* While no creation has been executed again after its commit, one row waits at
\* a place, no other row has its store, and the present list does not have it.
Carried ==
    /\ \A r \in rows : ~r.linked =>
          /\ remote[r.ticket].place = r.place
          /\ r.place \in applied
          /\ RowsOf(r.ticket) = {}
    /\ \A r, q \in rows : ~r.linked /\ ~q.linked /\ r.place = q.place => r = q
    /\ \A w \in Slot : SlotCarries(w)
    /\ fresh /\ (\A w \in Slot : ~InSync(w)) => \A r \in rows : ~r.linked => r.ticket \notin Listed

LEMMA InitCarried == PoiInit => Carried
<1>1. Idle.command = "none"
  BY DEF Idle
<1>2. QED
  BY <1>1 DEF PoiInit, Carried, SlotCarries, At

\* A slot that has just begun or ended.
LEMMA FreshSlotCarries ==
  ASSUME NEW w \in Slot,
         slot'[w] = Idle \/ \E command \in OnRow \cup {"create", "sync"}, subject \in RowRecord :
                               /\ slot'[w] = Begun(command, subject)
                               /\ command = "create" =>
                                    /\ subject.place \in applied'
                                    /\ \A r \in rows' : ~r.linked => r.place # subject.place
  PROVE  SlotCarries(w)' /\ ~InSync(w)'
<1>1. CASE slot'[w] = Idle
  <2>1. slot'[w].command = "none"
    BY <1>1 DEF Idle
  <2>2. QED
    BY <2>1 DEF SlotCarries, InSync, At
<1>2. ASSUME NEW command \in OnRow \cup {"create", "sync"}, NEW subject \in RowRecord,
             slot'[w] = Begun(command, subject),
             command = "create" => /\ subject.place \in applied'
                                   /\ \A r \in rows' : ~r.linked => r.place # subject.place
      PROVE  SlotCarries(w)' /\ ~InSync(w)'
  <2>1. slot'[w].pc = "call" /\ slot'[w].command = command /\ slot'[w].row = subject
    BY <1>2, BegunSlot
  <2>2. QED
    BY <1>2, <2>1 DEF SlotCarries, InSync, At
<1>3. QED
  BY <1>1, <1>2

\* No row is written.
LEMMA CarriedWithSlot ==
  ASSUME OneSlot, PoiSound, Carried, NEW w \in Slot, UNCHANGED rows, applied \subseteq applied',
         \A t \in Ticket : Used(t) => remote'[t].place = remote[t].place,
         SlotCarries(w)',
         fresh' /\ ~InSync(w)' => fresh /\ ~InSync(w) /\ Listed' = Listed
  PROVE  Carried'
<1>1. \A r \in rows : r.ticket \in Ticket /\ Used(r.ticket)
  BY DEF PoiSound, PoiTypeOK, TicketsHeld, RowRecord
<1>2. \A r \in rows' : ~r.linked =>
          /\ remote'[r.ticket].place = r.place /\ r.place \in applied' /\ RowsOf(r.ticket)' = {}
  BY <1>1 DEF Carried, RowsOf
<1>3. \A v \in Slot : v = w
  BY DEF OneSlot
<1>4. fresh' /\ ~InSync(w)' => \A r \in rows' : ~r.linked => r.ticket \notin Listed'
  BY <1>3 DEF Carried
<1>5. QED
  BY <1>2, <1>3, <1>4 DEF Carried

\* The slot ends or begins anew.
LEMMA CarriedAnew ==
  ASSUME OneSlot, PoiSound, Carried, NEW w \in Slot, UNCHANGED rows, applied \subseteq applied',
         \A t \in Ticket : Used(t) => remote'[t].place = remote[t].place,
         slot'[w] = Idle \/ \E command \in OnRow \cup {"create", "sync"}, subject \in RowRecord :
                               /\ slot'[w] = Begun(command, subject)
                               /\ command = "create" =>
                                    /\ subject.place \in applied'
                                    /\ \A r \in rows' : ~r.linked => r.place # subject.place,
         fresh' => fresh /\ ~InSync(w) /\ remote' = remote
  PROVE  Carried'
<1>1. SlotCarries(w)' /\ ~InSync(w)'
  BY FreshSlotCarries
<1>2. remote' = remote => Listed' = Listed
  BY DEF Listed
<1>3. QED
  BY <1>1, <1>2, CarriedWithSlot

LEMMA RestartCarries ==
  ASSUME OneSlot, PoiSound, Carried, NEW w \in Slot, UNCHANGED <<rows, applied>>,
         slot[w].command # "none", Restart(w), slot[w].pc # "mark",
         \A t \in Ticket : Used(t) => remote'[t].place = remote[t].place,
         fresh' => fresh /\ ~InSync(w) /\ remote' = remote
  PROVE  Carried'
<1>1. PICK subject \in RowRecord :
        /\ IF slot[w].command \in OnRow
           THEN subject \in rows /\ subject.id = slot[w].row.id ELSE subject = slot[w].row
        /\ slot'[w] = Begun(slot[w].command, subject)
  BY Restarted DEF PoiSound
<1>2. slot[w].command \in OnRow \cup {"create", "sync"}
  BY DEF PoiSound, PoiTypeOK, SlotState
<1>3. slot[w].command = "create" =>
        subject.place \in applied' /\ \A r \in rows' : ~r.linked => r.place # subject.place
  BY <1>1 DEF Carried, SlotCarries, OnRow
<1>4. QED
  BY <1>1, <1>2, <1>3, CarriedAnew

\* A row that waits, and whose store the synchronization has listed, is taken over.
LEMMA WaitingIsTaken ==
  ASSUME PoiSound, Carried, NEW w \in Slot, slot[w].seen = rows,
         NEW link \in Links(slot[w].seen, New(w)),
         NEW r \in rows, ~r.linked, r.ticket \in {e.ticket : e \in slot[w].listing}
  PROVE  Takers(w, link, r) # {}
<1> DEFINE seen == slot[w].seen
           places == {p \in Place : /\ Cardinality(Pending(seen, p)) = 1
                                    /\ \E t \in New(w) : remote[t].place = p}
<1>1. DOMAIN link = places
  BY DEF Links
<1>2. r.place \in Place /\ remote[r.ticket].place = r.place /\ r.ticket \in New(w)
  BY DEF Carried, New, PoiSound, PoiTypeOK, RowRecord
<1>3. Pending(seen, r.place) = {r}
  BY DEF Pending, Carried
<1>4. Cardinality(Pending(seen, r.place)) = 1
  BY <1>3, FS_Singleton
<1>5. r.place \in DOMAIN link
  BY <1>1, <1>2, <1>4
<1>6. r \in Pending(slot[w].seen, r.place)
  BY <1>3
<1> HIDE DEF seen, places
<1>7. link[r.place] \in Takers(w, link, r)
  BY <1>5, <1>6 DEF Takers
<1>8. QED
  BY <1>7

\* The commit of a synchronization.
LEMMA SyncCarries ==
  ASSUME PoiSound, Carried, NEW w \in Slot, slot[w].seen = rows,
         NEW link \in Links(slot[w].seen, New(w)),
         rows' = OldRows(w, link) \cup NewRows(w, link)
  PROVE  \A x \in rows' : ~x.linked =>
            /\ x \in rows
            /\ x.ticket \notin {e.ticket : e \in slot[w].listing}
            /\ \A y \in rows' : y.linked => y.ticket # x.ticket
<1> SUFFICES ASSUME NEW x \in rows', ~x.linked
             PROVE  /\ x \in rows
                    /\ x.ticket \notin {e.ticket : e \in slot[w].listing}
                    /\ \A y \in rows' : y.linked => y.ticket # x.ticket
  OBVIOUS
<1>1. x \in OldRows(w, link)
  BY DEF NewRows, NewRow
<1>2. PICK r \in rows : x = OldRow(w, link, r)
  BY <1>1 DEF OldRows
<1>3. x = r /\ Takers(w, link, r) = {}
  BY <1>2, OldRowIs
<1>4. r.ticket \notin {e.ticket : e \in slot[w].listing}
  BY <1>3, WaitingIsTaken
<1>5. ASSUME NEW y \in NewRows(w, link) PROVE y.ticket \in {e.ticket : e \in slot[w].listing}
  BY DEF NewRows, NewRow
<1>6. ASSUME NEW y \in OldRows(w, link), y.linked, y.ticket = r.ticket PROVE FALSE
  <2>1. PICK q \in rows : y = OldRow(w, link, q)
    BY DEF OldRows
  <2>2. \/ q.linked /\ y.ticket = q.ticket
        \/ ~q.linked /\ (y = q \/ y.ticket \in Takers(w, link, q))
    BY <2>1, OldRowIs
  <2>3. ~(q.linked /\ y.ticket = q.ticket)
    BY <1>3, <1>6 DEF Carried, RowsOf
  <2>4. Takers(w, link, q) \subseteq {e.ticket : e \in slot[w].listing}
    BY LinksAre DEF New
  <2>5. QED
    BY <1>4, <1>6, <2>2, <2>3, <2>4
<1>7. QED
  BY <1>3, <1>4, <1>5, <1>6

LEMMA StepCarries ==
  ASSUME OneSlot, PoiSound, Following, reruns = 0, Carried, [PoiNext]_poiVars, reruns' = 0
  PROVE  Carried'
<1>0. PoiTypeOK /\ \A v \in Slot : SlotCarries(v) /\ SlotHolds(v) /\ SlotFollows(v) /\ slot[v] \in SlotState
  BY DEF PoiSound, PoiTypeOK, Carried, Following, TicketsHeld
<1>1. CASE UNCHANGED poiVars
  BY <1>1 DEF poiVars, Carried, SlotCarries, InSync, At, Listed, RowsOf
<1>2. ASSUME NEW t \in Ticket,
             (\E status \in Review : Publish(t, status)) \/ Approve(t) \/ Withdraw(t)
      PROVE  Carried'
  <2>1. /\ \A u \in Ticket : Used(u) => remote'[u].place = remote[u].place
        /\ fresh' = FALSE /\ UNCHANGED <<rows, slot, applied>>
    BY <1>0, <1>2, PlatformTyped
  <2>2. \A r \in rows : r.ticket \in Ticket /\ Used(r.ticket)
    BY DEF PoiSound, PoiTypeOK, TicketsHeld, RowRecord
  <2>3. \A v \in Slot : At(v, "create", "commit") =>
                slot[v].row.ticket \in Ticket /\ Used(slot[v].row.ticket)
    BY <1>0 DEF SlotHolds, SlotState, RowRecord
  <2>4. QED
    BY <1>0, <2>1, <2>2, <2>3 DEF Carried, SlotCarries, At, RowsOf
\* A command begins.
<1>3. ASSUME NEW w \in Slot, NEW command \in OnRow \cup {"create", "sync"},
             NEW subject \in RowRecord, StartCommand(w, command, subject), applied \subseteq applied',
             command = "create" => /\ subject.place \in applied'
                                   /\ \A r \in rows : ~r.linked => r.place # subject.place
      PROVE  Carried'
  <2>1. /\ slot'[w] = Begun(command, subject) /\ slot[w] = Idle
        /\ UNCHANGED <<remote, rows, fresh>>
    BY <1>0, <1>3, Started
  <2>2. ~InSync(w)
    BY <2>1 DEF InSync, Idle
  <2>3. QED
    BY <1>3, <2>1, <2>2, CarriedAnew
<1>4. ASSUME NEW w \in Slot, NEW place \in Place, StartCreate(w, place) PROVE Carried'
  <2> DEFINE subject == Application(1, 1, place)
  <2>1. 1 \in Ticket /\ 1 \in RowId
    BY PoiMirrorAssumption DEF Ticket, RowId
  <2>2. subject \in RowRecord /\ subject.place = place
    BY <2>1 DEF Application, RowRecord, RowStatus, Review
  <2> HIDE DEF subject
  <2>3. /\ place \notin applied /\ applied' = applied \cup {place}
        /\ StartCommand(w, "create", subject)
    BY <1>4 DEF StartCreate, subject
  <2>4. \A r \in rows : ~r.linked => r.place # place
    BY <2>3 DEF Carried
  <2>5. QED
    BY <1>3, <2>2, <2>3, <2>4
<1>5. ASSUME NEW w \in Slot, StartSync(w) PROVE Carried'
  <2>1. Idle.row \in RowRecord
    BY IdleTyped DEF SlotState
  <2>2. QED
    BY <1>3, <1>5, <2>1 DEF StartSync, OnRow
<1>6. ASSUME NEW w \in Slot, NEW command \in OnRow, NEW subject \in rows, StartOnRow(w, command, subject)
      PROVE  Carried'
  <2>1. subject \in RowRecord /\ command # "create"
    BY <1>0, <1>6 DEF PoiTypeOK, OnRow
  <2>2. QED
    BY <1>3, <1>6, <2>1 DEF StartOnRow
<1>7. ASSUME NEW w \in Slot, SlotDies(w) PROVE Carried'
  <2>1. /\ Restart(w) /\ UNCHANGED <<remote, rows, applied>>
        /\ fresh' => fresh /\ slot[w].command # "sync"
        /\ slot[w].command # "none" /\ slot[w].pc \in {"read", "commit"}
    BY <1>0, <1>7 DEF SlotDies, SlotHolds
  <2>2. QED
    BY <2>1, RestartCarries DEF InSync
<1>8. ASSUME NEW w \in Slot, CreateCall(w) PROVE Carried'
  <2>0. At(w, "create", "call")
    BY <1>8 DEF CreateCall
  <2>1. PICK t \in Ticket :
          /\ ~Used(t) /\ remote'[t].place = slot[w].row.place
          /\ \A u \in Ticket : u # t => remote'[u] = remote[u]
          /\ \/ slot' = [slot EXCEPT ![w] = [slot[w] EXCEPT !.pc = "commit", !.row.ticket = t]]
             \/ Restart(w)
          /\ fresh' = FALSE /\ UNCHANGED <<rows, applied>>
    BY <1>0, <1>8, CreateCallMakes
  <2>2. \A u \in Ticket : Used(u) => remote'[u].place = remote[u].place
    BY <2>1
  <2>3. CASE Restart(w)
    BY <2>0, <2>1, <2>2, <2>3, RestartCarries DEF At
  <2>4. CASE slot' = [slot EXCEPT ![w] = [slot[w] EXCEPT !.pc = "commit", !.row.ticket = t]]
    <3> DEFINE s == [slot[w] EXCEPT !.pc = "commit", !.row.ticket = t]
    <3>1. /\ s.row.place = slot[w].row.place /\ s.row.ticket = t
          /\ s.command = "create" /\ s \in SlotState
      BY <1>0, <2>0 DEF SlotState, RowRecord, At
    <3> HIDE DEF s
    <3>2. slot'[w] = s
      BY <1>0, <2>4, <3>1, SlotSet DEF s
    <3>3. /\ slot[w].row.place \in applied
          /\ \A r \in rows : ~r.linked => r.place # slot[w].row.place
      BY <1>0, <2>0 DEF SlotCarries, At
    <3>4. RowsOf(t)' = {}
      BY <2>1 DEF RowsOf, PoiSound, TicketsHeld
    <3>5. SlotCarries(w)'
      BY <2>1, <3>1, <3>2, <3>3, <3>4 DEF SlotCarries
    <3>6. QED
      BY <2>1, <2>2, <3>5, CarriedWithSlot
  <2>5. QED
    BY <2>1, <2>3, <2>4
<1>9. ASSUME NEW w \in Slot, CreateCommit(w) PROVE Carried'
  <2> DEFINE new == [slot[w].row EXCEPT !.id = Cardinality(rows) + 1]
  <2>1. /\ At(w, "create", "commit")
        /\ rows' = rows \cup {new}
        /\ Goto(w, "mark") /\ UNCHANGED <<remote, applied, fresh>>
    BY <1>9 DEF CreateCommit
  <2>2. /\ new.linked = slot[w].row.linked /\ new.place = slot[w].row.place
        /\ new.ticket = slot[w].row.ticket
    BY <1>0 DEF SlotState, RowRecord
  <2> HIDE DEF new
  <2>3. ~new.linked /\ ~fresh
    BY <1>0, <2>1, <2>2 DEF SlotHolds, SlotFollows, At
  <2>4. /\ new.place \in applied /\ \A r \in rows : ~r.linked => r.place # new.place
        /\ remote[new.ticket].place = new.place /\ RowsOf(new.ticket) = {}
    BY <1>0, <2>1, <2>2 DEF SlotCarries, At
  <2>5. \A t : RowsOf(t)' = RowsOf(t)
    BY <2>1, <2>3 DEF RowsOf
  <2>6. slot'[w] = [slot[w] EXCEPT !.pc = "mark"]
    BY <1>0, <2>1, Moved
  <2>7. slot'[w].pc = "mark"
    BY <1>0, <2>6 DEF SlotState
  <2>8. SlotCarries(w)'
    BY <2>7 DEF SlotCarries, At
  <2>9. \A r \in rows' : ~r.linked =>
            remote'[r.ticket].place = r.place /\ r.place \in applied' /\ RowsOf(r.ticket)' = {}
    BY <2>1, <2>4, <2>5 DEF Carried
  <2>10. \A r, q \in rows' : ~r.linked /\ ~q.linked /\ r.place = q.place => r = q
    BY <2>1, <2>4 DEF Carried
  <2>11. QED
    BY <2>1, <2>3, <2>8, <2>9, <2>10 DEF Carried, OneSlot
<1>10. ASSUME NEW w \in Slot, CreateMark(w) PROVE Carried'
  <2>1. Finish(w) /\ UNCHANGED <<remote, rows, applied, fresh>>
    BY <1>10 DEF CreateMark
  <2>2. slot'[w] = Idle /\ ~InSync(w)
    BY <1>0, <1>10, <2>1, Finished DEF CreateMark, InSync, At
  <2>3. QED
    BY <2>1, <2>2, CarriedAnew
<1>11. ASSUME NEW w \in Slot, SyncList(w) \/ SyncRead(w) PROVE Carried'
  <2>1. /\ slot[w].command = "sync" /\ UNCHANGED <<remote, rows, applied>>
        /\ \E s \in SlotState : /\ s.command = "sync" /\ s.pc \in {"read", "commit"}
                                /\ slot' = [slot EXCEPT ![w] = s]
    <3>1. CASE SyncList(w)
      <4> DEFINE s == [slot[w] EXCEPT !.pc = "read", !.listing = PlatformList]
      <4>1. At(w, "sync", "call") /\ slot' = [slot EXCEPT ![w] = s] /\ UNCHANGED <<remote, rows, applied>>
        BY <3>1 DEF SyncList, PlatformList
      <4>2. PlatformList \in SUBSET [ticket : Ticket, status : Review]
        BY <1>0 DEF PlatformList, Listed, PoiTypeOK
      <4>3. s \in SlotState /\ s.command = "sync" /\ s.pc = "read"
        BY <1>0, <4>1, <4>2 DEF SlotState, At
      <4>4. QED
        BY <4>1, <4>3 DEF At
    <3>2. CASE SyncRead(w)
      <4> DEFINE s == [slot[w] EXCEPT !.pc = "commit", !.seen = rows]
      <4>1. At(w, "sync", "read") /\ slot' = [slot EXCEPT ![w] = s] /\ UNCHANGED <<remote, rows, applied>>
        BY <3>2 DEF SyncRead
      <4>2. s \in SlotState /\ s.command = "sync" /\ s.pc = "commit"
        BY <1>0, <4>1 DEF SlotState, At, PoiTypeOK
      <4>3. QED
        BY <4>1, <4>2 DEF At
    <3>3. QED
      BY <1>11, <3>1, <3>2
  <2>2. PICK s \in SlotState : /\ s.command = "sync" /\ s.pc \in {"read", "commit"}
                               /\ slot' = [slot EXCEPT ![w] = s]
    BY <2>1
  <2>3. slot'[w] = s
    BY <1>0, <2>2, SlotSet
  <2>4. SlotCarries(w)' /\ InSync(w)'
    BY <2>2, <2>3 DEF SlotCarries, InSync, At
  <2>5. QED
    BY <2>1, <2>4, CarriedWithSlot
<1>12. ASSUME NEW w \in Slot, SyncCommit(w) PROVE Carried'
  <2>1. PICK link \in Links(slot[w].seen, New(w)) : rows' = OldRows(w, link) \cup NewRows(w, link)
    BY <1>12, SyncParts
  <2>2. /\ Finish(w) /\ At(w, "sync", "commit") /\ UNCHANGED <<remote, applied, fresh>>
    BY <1>12 DEF SyncCommit
  <2>3. slot'[w] = Idle
    BY <1>0, <2>2, Finished
  <2>4. slot[w].seen = rows /\ (fresh => slot[w].listing = PlatformList)
    BY <1>0, <2>2 DEF SlotFollows, InSync, At
  <2>5. \A x \in rows' : ~x.linked =>
            /\ x \in rows
            /\ x.ticket \notin {e.ticket : e \in slot[w].listing}
            /\ \A y \in rows' : y.linked => y.ticket # x.ticket
    BY <2>1, <2>4, SyncCarries
  <2>6. SlotCarries(w)'
    BY <2>3, FreshSlotCarries
  <2>7. ASSUME fresh, NEW x \in rows', ~x.linked PROVE x.ticket \notin Listed
    <3>1. ASSUME x.ticket \in Listed PROVE FALSE
      <4>1. [ticket |-> x.ticket, status |-> remote[x.ticket].status] \in slot[w].listing
        BY <2>4, <2>7, <3>1 DEF PlatformList
      <4>2. [ticket |-> x.ticket, status |-> remote[x.ticket].status].ticket = x.ticket
        OBVIOUS
      <4>3. QED
        BY <2>5, <2>7, <4>1, <4>2
    <3>2. QED
      BY <3>1
  <2>8. Listed' = Listed
    BY <2>2 DEF Listed
  <2>9. \A r \in rows' : ~r.linked =>
            remote'[r.ticket].place = r.place /\ r.place \in applied' /\ RowsOf(r.ticket)' = {}
    BY <2>2, <2>5 DEF Carried, RowsOf
  <2>10. \A r, q \in rows' : ~r.linked /\ ~q.linked /\ r.place = q.place => r = q
    BY <2>5 DEF Carried
  <2>11. QED
    BY <2>2, <2>6, <2>7, <2>8, <2>9, <2>10 DEF Carried, OneSlot
<1>13. ASSUME NEW w \in Slot, Refused(w) PROVE Carried'
  <2>1. slot[w].pc = "call" /\ Finish(w) /\ UNCHANGED <<remote, rows, applied, fresh>>
    BY <1>13 DEF Refused
  <2>2. slot'[w] = Idle /\ ~InSync(w)
    BY <1>0, <2>1, Finished DEF InSync
  <2>3. QED
    BY <2>1, <2>2, CarriedAnew
\* The platform answers about a row's store.
<1>14. ASSUME NEW w \in Slot, NEW command \in OnRow, NEW answer \in RowStatus,
              Answered(w, command, answer), fresh' => fresh /\ remote' = remote,
              \A t \in Ticket : Used(t) => remote'[t].place = remote[t].place
       PROVE  Carried'
  <2>1. At(w, command, "call") /\ UNCHANGED <<rows, applied>>
    BY <1>14 DEF Answered
  <2>2. /\ slot[w].command # "none" /\ slot[w].command # "create" /\ slot[w].command # "sync"
        /\ slot[w].pc = "call"
    BY <2>1 DEF At, OnRow
  <2>3. CASE Restart(w)
    BY <1>14, <2>1, <2>2, <2>3, RestartCarries DEF InSync
  <2>4. CASE slot' = [slot EXCEPT ![w].pc = "commit", ![w].answer = answer]
    <3> DEFINE s == [slot[w] EXCEPT !.pc = "commit", !.answer = answer]
    <3>1. slot' = [slot EXCEPT ![w] = s]
      BY <2>4
    <3>2. s \in SlotState /\ s.command = slot[w].command
      BY <1>0 DEF SlotState
    <3> HIDE DEF s
    <3>3. slot'[w] = s
      BY <1>0, <3>1, <3>2, SlotSet
    <3>4. SlotCarries(w)'
      BY <2>2, <3>2, <3>3 DEF SlotCarries, At
    <3>5. ~InSync(w) /\ (fresh' => Listed' = Listed)
      BY <1>14, <2>2 DEF InSync, Listed
    <3>6. QED
      BY <1>14, <2>1, <3>4, <3>5, CarriedWithSlot
  <2>5. QED
    BY <1>14, <2>3, <2>4 DEF Answered
<1>15. ASSUME NEW w \in Slot, UpdateCall(w) \/ DeleteCall(w) \/ RefreshCall(w) PROVE Carried'
  <2>1. {"pending", "deleted"} \subseteq RowStatus /\ {"update", "delete", "refresh"} \subseteq OnRow
    BY DEF RowStatus, OnRow
  <2>2. CASE UpdateCall(w)
    BY <1>14, <2>1, <2>2 DEF UpdateCall
  <2>3. CASE DeleteCall(w)
    <3>1. Answered(w, "delete", "deleted") /\ fresh' = FALSE
      BY <2>3 DEF DeleteCall
    <3>2. \A t \in Ticket : remote'[t].place = remote[t].place
      BY <1>0, <2>3 DEF DeleteCall, PoiTypeOK
    <3>3. QED
      BY <1>14, <2>1, <3>1, <3>2
  <2>4. CASE RefreshCall(w)
    <3>1. slot[w].row.ticket \in Ticket
      BY <1>0 DEF SlotState, RowRecord
    <3>2. remote[slot[w].row.ticket].status \in RowStatus
      BY <1>0, <3>1 DEF PoiTypeOK, RowStatus
    <3>3. QED
      BY <1>14, <2>1, <2>4, <3>2 DEF RefreshCall
  <2>5. QED
    BY <1>15, <2>2, <2>3, <2>4
<1>16. ASSUME NEW w \in Slot, RowCommit(w) PROVE Carried'
  <2> DEFINE new(r) == IF r.id = slot[w].row.id
                       THEN Flushed(r, slot[w].row.status, slot[w].answer) ELSE r
  <2>1. /\ rows' = {new(r) : r \in rows} /\ slot[w].command \in OnRow
        /\ Finish(w) /\ UNCHANGED <<remote, applied, fresh>>
    BY <1>16 DEF RowCommit
  <2>2. slot'[w] = Idle
    BY <1>0, <2>1, Finished
  <2>3. SlotCarries(w)' /\ ~InSync(w)
    BY <2>1, <2>2, FreshSlotCarries DEF InSync, OnRow
  <2>4. slot[w].row \in rows /\ slot[w].row.linked
    BY <1>0, <1>16 DEF SlotFollows, RowCommit
  <2>5. ASSUME NEW r \in rows
        PROVE  /\ new(r).linked = r.linked /\ new(r).ticket = r.ticket
               /\ ~r.linked => new(r) = r
    <3>1. r \in RowRecord /\ (r.id = slot[w].row.id <=> r = slot[w].row)
      BY <1>0, <2>4 DEF PoiTypeOK
    <3>2. QED
      BY <2>4, <3>1 DEF Flushed, RowRecord
  <2> HIDE DEF new
  <2>6. \A x \in rows' : ~x.linked => x \in rows
    BY <2>1, <2>5
  <2>7. ASSUME NEW x \in rows', ~x.linked PROVE RowsOf(x.ticket)' = {}
    <3>1. RowsOf(x.ticket) = {}
      BY <2>6, <2>7 DEF Carried
    <3>2. QED
      BY <2>1, <2>5, <3>1 DEF RowsOf
  <2>8. Listed' = Listed
    BY <2>1 DEF Listed
  <2>9. fresh' => \A r \in rows' : ~r.linked => r.ticket \notin Listed'
    BY <2>1, <2>3, <2>6, <2>8 DEF Carried, OneSlot
  <2>10. \A r \in rows' : ~r.linked =>
            remote'[r.ticket].place = r.place /\ r.place \in applied' /\ RowsOf(r.ticket)' = {}
    BY <2>1, <2>6, <2>7 DEF Carried
  <2>11. \A r, q \in rows' : ~r.linked /\ ~q.linked /\ r.place = q.place => r = q
    BY <2>6 DEF Carried
  <2>12. QED
    BY <2>3, <2>9, <2>10, <2>11 DEF Carried, OneSlot
<1>17. QED
  BY <1>1, <1>2, <1>4, <1>5, <1>6, <1>7, <1>8, <1>9, <1>10, <1>11, <1>12, <1>13, <1>15,
     <1>16 DEF PoiNext

\* Reruns are only counted up.
LEMMA RerunsGrow ==
  ASSUME PoiTypeOK, [PoiNext]_poiVars, reruns' = 0
  PROVE  reruns = 0
<1>1. reruns \in Nat
  BY PoiMirrorAssumption DEF PoiTypeOK
<1>2. reruns' = reruns \/ reruns' = reruns + 1
  BY DEF PoiNext, poiVars, Publish, Approve, Withdraw, Platform, StartCreate, StartSync,
         StartOnRow, StartCommand, SlotDies, CreateCall, CreateCommit, CreateMark, SyncList,
         SyncRead, SyncCommit, Refused, UpdateCall, DeleteCall, RefreshCall, Answered, RowCommit
<1>3. QED
  BY <1>1, <1>2

(***************************************************************************)
(* With one slot, and as long as no creation has been executed again after *)
(* its commit, a synchronization leaves no application waiting for a store *)
(* that the platform lists: the row that operators mapped is the one that  *)
(* becomes the store's (stores/service.py, the pending matches).           *)
(***************************************************************************)
THEOREM ApplicationsAreCarried ==
  ASSUME OneSlot
  PROVE  PoiSpec => []ApplicationsAreCarriedOver
<1> DEFINE CInv == PoiSound /\ Following /\ (reruns = 0 => Carried)
<1>1. PoiInit => CInv
  BY InitSound, InitFollows, InitCarried
<1>2. CInv /\ [PoiNext]_poiVars => CInv'
  <2> SUFFICES ASSUME CInv, [PoiNext]_poiVars PROVE CInv'
    OBVIOUS
  <2>1. PoiSound' /\ Following'
    BY StepSound, StepFollows, OneSlot
  <2>2. reruns' = 0 => Carried'
    BY RerunsGrow, StepCarries, OneSlot DEF PoiSound
  <2>3. QED
    BY <2>1, <2>2
<1>3. CInv => ApplicationsAreCarriedOver
  <2>1. Idle.command # "sync"
    BY DEF Idle
  <2>2. (\A w \in Slot : slot[w] = Idle) => \A w \in Slot : ~InSync(w)
    BY <2>1 DEF InSync
  <2>3. QED
    BY <2>2 DEF Carried, ApplicationsAreCarriedOver, Synchronized
<1> HIDE DEF CInv
<1>4. QED
  BY <1>1, <1>2, <1>3, PTL DEF PoiSpec
=============================================================================
