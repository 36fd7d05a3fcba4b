--------------------------- MODULE OperatorProofs ---------------------------
(***************************************************************************)
(* What ProductLifecycle and StoreMapping promise about what operators do  *)
(* with products and stores, for any number of slots and any budgets.      *)
(*                                                                         *)
(* Products.  Types hold for any clients.  The other two theorems need     *)
(* that the product has one client: its requests come one after another,   *)
(* so that at most one operation of the product is under way (Alone), what *)
(* that operation is to do is what the row desires (IntentsAreCurrent),    *)
(* and the row of a product that no operation is under way for tells what  *)
(* its last call has made of it (Unreported, for SettledMeansTrue).        *)
(*                                                                         *)
(* Stores.  Typed is inductive by itself and carries every other proof.    *)
(* The three properties need no further strengthening: each rests on what  *)
(* one commit compares with the database at the moment it is made (the     *)
(* unique indexes on active mappings, the version in the WHERE of an       *)
(* UPDATE, the columns that a flush leaves alone), and on nothing a        *)
(* request has read before.  The bounds on versions and on the numbers of  *)
(* rows do: that a request under way has been paid for (WithinBudget), and *)
(* that no row of a mapping is ever deleted (RowsNumbered).                *)
(***************************************************************************)
EXTENDS ProductLifecycle, StoreMapping, FiniteSetTheorems, TLAPS

-----------------------------------------------------------------------------
(* Products *)

OpRecord == [status : OpStatus, kind : Kind, source : Status, target : Status, version : Nat]

LEMMA TargetIsStatus ==
  ASSUME NEW kind \in Kind, NEW s \in Status
  PROVE  Target(kind, s) \in Status
  BY DEF Kind, Action, Target, Status

LEMMA InitTyped == Init => TypeOK
<1> SUFFICES ASSUME Init PROVE TypeOK
  OBVIOUS
<1>1. remote \in {"pending_create", "listed"}
  BY ProductAssumption DEF Init
<1>2. 0 \in Operation
  BY ProductAssumption DEF Operation
<1>3. op \in [Operation -> OpRecord]
  BY DEF Init, Queued, OpRecord, OpStatus, Kind, Status
<1>4. QED
  BY <1>1, <1>2, <1>3, ProductAssumption
     DEF Init, TypeOK, Status, Row, NoRow, NoEdit, NoHook, OpRecord, Kind

\* Writing the status of an operation keeps the rest of it.
LEMMA MarkTyped ==
  ASSUME TypeOK, NEW o \in Operation, NEW s \in OpStatus, op' = [op EXCEPT ![o].status = s]
  PROVE  /\ op' \in [Operation -> OpRecord]
         /\ op'[o] = [op[o] EXCEPT !.status = s]
         /\ \A p \in Operation : p # o => op'[p] = op[p]
  BY DEF TypeOK, OpRecord

LEMMA LeaveTyped ==
  ASSUME TypeOK, NEW w \in Worker, Leave(w)
  PROVE  /\ phase' \in [Worker -> {"idle", "calling", "called", "done"}]
         /\ job' \in [Worker -> Operation]
         /\ base' \in [Worker -> Row]
         /\ answer' \in [Worker -> Status]
         /\ phase'[w] = "idle"
         /\ \A v \in Worker : v # w =>
               /\ phase'[v] = phase[v] /\ job'[v] = job[v]
               /\ base'[v] = base[v] /\ answer'[v] = answer[v]
  BY ProductAssumption DEF TypeOK, Leave, Row, NoRow, Status, Operation

\* A call makes of the product a status, or leaves it.
LEMMA EffectIsStatus ==
  ASSUME TypeOK, NEW o \in Operation, NEW s \in Effects(op[o].kind, platform, op[o].target)
  PROVE  /\ s \in Status \cup {"absent"}
         /\ s # platform => s \in Status
         /\ op[o].kind = "create" => s \in Status
<1>1. op[o].target \in Status
  BY DEF TypeOK
<1>2. s = platform \/ s = op[o].target \/ s = "under_review"
  BY DEF Effects
<1>3. op[o].kind = "create" => s \in Status
  BY DEF Effects, TypeOK, Status
<1>4. QED
  BY <1>1, <1>2, <1>3 DEF TypeOK, Status

LEMMA ReportTyped ==
  ASSUME TypeOK, NEW s \in Status, Report(s)
  PROVE  /\ event' \subseteq [nr : 1..EventBudget, status : Status]
         /\ reports' \in 0..EventBudget
<1>1. reports \in Nat /\ reports < EventBudget /\ reports' = reports + 1 /\ EventBudget \in Nat
  BY ProductAssumption DEF TypeOK, Report
<1>2. [nr |-> reports + 1, status |-> s] \in [nr : 1..EventBudget, status : Status]
  BY <1>1
<1>3. QED
  BY <1>1, <1>2 DEF Report, TypeOK

LEMMA StepTyped ==
  ASSUME TypeOK, [Next]_vars
  PROVE  TypeOK'
<1> USE DEF row, slots, hooks, budgets
<1>0. Loaded \in Row /\ NoRow \in Row
  BY DEF Loaded, Row, NoRow, TypeOK, Status
<1>1. CASE UNCHANGED vars
  BY <1>1 DEF vars, TypeOK
<1>2. ASSUME NEW c \in Client, NEW kind \in Kind, Check(c, kind) PROVE TypeOK'
  <2>1. edit' \in [Client -> [open : BOOLEAN, kind : Kind, row : Row]]
    BY <1>0, <1>2 DEF Check, TypeOK
  <2>2. QED
    BY <1>2, <2>1 DEF Check, TypeOK
<1>3. ASSUME NEW c \in Client, Accept(c) PROVE TypeOK'
  <2> DEFINE e == edit[c]
             target == Target(e.kind, e.row.remote)
             new == Queued(e.kind, e.row.remote, target, e.row.version + 1)
  <2>1. e.kind \in Kind /\ e.row.remote \in Status /\ e.row.version \in Nat
    BY DEF TypeOK, Row
  <2>2. target \in Status
    BY <2>1, TargetIsStatus
  <2>3. new \in OpRecord
    BY <2>1, <2>2 DEF Queued, OpRecord, OpStatus
  <2>4. accepted + 1 \in Operation /\ accepted' \in 0..OperationBudget
    BY <1>3, ProductAssumption DEF Accept, TypeOK, Operation
  <2>5. op' = [op EXCEPT ![accepted + 1] = new]
    BY <1>3 DEF Accept
  <2>6. op' \in [Operation -> OpRecord]
    BY <2>3, <2>5 DEF TypeOK, OpRecord
  <2>7. NoEdit \in [open : BOOLEAN, kind : Kind, row : Row]
    BY <1>0 DEF NoEdit, Kind
  <2>8. edit' \in [Client -> [open : BOOLEAN, kind : Kind, row : Row]]
    BY <1>3, <2>7 DEF Accept, TypeOK
  <2>9. version' \in Nat /\ desired' \in Status
    BY <1>3, <2>1, <2>2 DEF Accept, TypeOK
  <2>10. UNCHANGED <<remote, created, platform, phase, job, base, answer, event, hook,
                     reports, faults, retries>>
    BY <1>3 DEF Accept
  <2>11. QED
    BY <2>4, <2>6, <2>8, <2>9, <2>10 DEF TypeOK, OpRecord
<1>4. CASE PlatformActs
  <2>1. platform' \in Status
    BY <1>4 DEF PlatformActs, Status
  <2>2. QED
    BY <1>4, <2>1, ReportTyped DEF PlatformActs, TypeOK
<1>5. CASE LoadForEvent
  <2>1. PICK e \in event : hook' = [open |-> TRUE, status |-> e.status, row |-> Loaded]
                           /\ event' = event \ {e}
    BY <1>5 DEF LoadForEvent
  <2>2. e.status \in Status
    BY DEF TypeOK
  <2>3. hook' \in [open : BOOLEAN, status : Status, row : Row]
    BY <1>0, <2>1, <2>2
  <2>4. QED
    BY <1>5, <2>1, <2>3 DEF LoadForEvent, TypeOK
<1>6. CASE CommitEvent
  <2>1. hook.row.version \in Nat /\ hook.status \in Status
    BY DEF TypeOK, Row
  <2>2. NoHook \in [open : BOOLEAN, status : Status, row : Row]
    BY <1>0 DEF NoHook, Status
  <2>3. remote' \in Status /\ version' \in Nat /\ hook' = NoHook
    BY <1>6, <2>1 DEF CommitEvent, TypeOK
  <2>4. QED
    BY <1>6, <2>2, <2>3 DEF CommitEvent, TypeOK
<1>7. CASE DropEvent
  BY <1>7 DEF DropEvent, TypeOK
<1>8. ASSUME NEW o \in Operation, ManualRetry(o) PROVE TypeOK'
  <2>1. op' \in [Operation -> OpRecord]
    BY <1>8, MarkTyped DEF ManualRetry, OpStatus
  <2>2. retries' \in 0..RetryBudget
    BY <1>8, ProductAssumption DEF ManualRetry, TypeOK
  <2>3. QED
    BY <1>8, <2>1, <2>2 DEF ManualRetry, TypeOK, OpRecord
<1>9. ASSUME NEW w \in Worker, NEW o \in Operation, Start(w, o) PROVE TypeOK'
  <2>1. op' \in [Operation -> OpRecord]
    BY <1>9, MarkTyped DEF Start, OpStatus
  <2>2. /\ phase' \in [Worker -> {"idle", "calling", "called", "done"}]
        /\ job' \in [Worker -> Operation] /\ base' \in [Worker -> Row]
    BY <1>0, <1>9 DEF Start, TypeOK
  <2>3. QED
    BY <1>9, <2>1, <2>2 DEF Start, TypeOK, OpRecord
<1>10. ASSUME NEW w \in Worker, Call(w) PROVE TypeOK'
  <2> DEFINE o == job[w]
  <2>0. o \in Operation
    BY DEF TypeOK
  <2>1. PICK s \in Effects(op[o].kind, platform, op[o].target) :
          /\ platform' = s
          /\ \E r \in Reported(op[o].kind, s) :
                IF op[o].kind = "create" \/ r = op[o].target
                THEN /\ answer' = [answer EXCEPT ![w] = r]
                     /\ phase'  = [phase EXCEPT ![w] = "called"]
                     /\ UNCHANGED <<op, job, base>>
                ELSE /\ op' = [op EXCEPT ![o].status = "failed"]
                     /\ Leave(w)
          /\ \/ s # platform /\ Report(s)
             \/ UNCHANGED <<event, reports>>
    BY <1>10 DEF Call
  <2>2. /\ s \in Status \cup {"absent"} /\ (s # platform => s \in Status)
        /\ op[o].kind = "create" => s \in Status
    BY <2>0, EffectIsStatus
  <2>3. PICK r \in Reported(op[o].kind, s) :
                IF op[o].kind = "create" \/ r = op[o].target
                THEN /\ answer' = [answer EXCEPT ![w] = r]
                     /\ phase'  = [phase EXCEPT ![w] = "called"]
                     /\ UNCHANGED <<op, job, base>>
                ELSE /\ op' = [op EXCEPT ![o].status = "failed"]
                     /\ Leave(w)
    BY <2>1
  <2>4. /\ event' \subseteq [nr : 1..EventBudget, status : Status]
        /\ reports' \in 0..EventBudget
    BY <2>1, <2>2, ReportTyped DEF TypeOK
  <2>5. UNCHANGED <<remote, desired, version, created, accepted, edit, hook, faults, retries>>
    BY <1>10 DEF Call
  <2>6. CASE op[o].kind = "create" \/ r = op[o].target
    <3>1. r \in Status
      BY <2>0, <2>2, <2>6 DEF Reported, TypeOK, Status
    <3>2. answer' \in [Worker -> Status] /\ phase' \in [Worker -> {"idle", "calling", "called", "done"}]
      BY <2>3, <2>6, <3>1 DEF TypeOK
    <3>3. QED
      BY <2>1, <2>2, <2>3, <2>4, <2>5, <2>6, <3>2 DEF TypeOK
  <2>7. CASE ~(op[o].kind = "create" \/ r = op[o].target)
    <3>1. op' = [op EXCEPT ![o].status = "failed"] /\ Leave(w)
      BY <2>3, <2>7
    <3>2. op' \in [Operation -> OpRecord]
      BY <2>0, <3>1, MarkTyped DEF OpStatus
    <3>3. QED
      BY <2>1, <2>2, <2>4, <2>5, <3>1, <3>2, LeaveTyped DEF TypeOK, OpRecord
  <2>8. QED
    BY <2>6, <2>7
<1>11. ASSUME NEW w \in Worker, NEW t \in OpStatus, op' = [op EXCEPT ![job[w]].status = t], Leave(w),
              platform' \in Status \cup {"absent"}, faults' \in 0..FaultBudget,
              UNCHANGED <<remote, desired, version, created, accepted, edit, event, hook, reports, retries>>
       PROVE  TypeOK'
  <2>1. op' \in [Operation -> OpRecord]
    BY <1>11, MarkTyped DEF TypeOK
  <2>2. QED
    BY <1>11, <2>1, LeaveTyped DEF TypeOK, OpRecord
<1>12. ASSUME NEW w \in Worker, CallFails(w) PROVE TypeOK'
  <2>1. PICK s \in {platform} \cup Effects(op[job[w]].kind, platform, op[job[w]].target) :
          platform' = s
    BY <1>12 DEF CallFails
  <2>2. s \in Status \cup {"absent"}
    BY EffectIsStatus DEF TypeOK
  <2>3. faults' \in 0..FaultBudget
    BY <1>12, ProductAssumption DEF CallFails, TypeOK
  <2>4. PICK t \in {"queued", "failed"} : op' = [op EXCEPT ![job[w]].status = t]
    BY <1>12 DEF CallFails
  <2>5. QED
    BY <1>11, <1>12, <2>1, <2>2, <2>3, <2>4 DEF CallFails, OpStatus
<1>13. ASSUME NEW w \in Worker, CallRefused(w) \/ MarkSucceeded(w) PROVE TypeOK'
  <2>1. PICK t \in {"succeeded", "failed"} : op' = [op EXCEPT ![job[w]].status = t]
    BY <1>13 DEF CallRefused, MarkSucceeded
  <2>2. QED
    BY <1>11, <1>13, <2>1 DEF CallRefused, MarkSucceeded, OpStatus, TypeOK
<1>14. ASSUME NEW w \in Worker, Commit(w) PROVE TypeOK'
  <2>1. remote' \in Status /\ desired' \in Status /\ created' \in BOOLEAN
        /\ phase' \in [Worker -> {"idle", "calling", "called", "done"}]
    BY <1>14 DEF Commit, TypeOK
  <2>2. QED
    BY <1>14, <2>1 DEF Commit, TypeOK
<1>15. ASSUME NEW w \in Worker, Crash(w) PROVE TypeOK'
  <2>1. faults' \in 0..FaultBudget
    BY <1>15, ProductAssumption DEF Crash, TypeOK
  <2>2. QED
    BY <1>11, <1>15, <2>1 DEF Crash, OpStatus, TypeOK
<1>16. QED
  BY <1>1, <1>2, <1>3, <1>4, <1>5, <1>6, <1>7, <1>8, <1>9, <1>10, <1>12, <1>13, <1>14, <1>15
     DEF Next

(***************************************************************************)
(* The row of the product, its operations, the requests, the callback and  *)
(* what the slots hold keep their types, whatever interleaves              *)
(* (local_life/products.py and the handlers registered there).             *)
(***************************************************************************)
THEOREM ProductTypesHold == Spec => []TypeOK
<1>1. TypeOK /\ [Next]_vars => TypeOK'
  BY StepTyped
<1>2. QED
  BY <1>1, InitTyped, PTL DEF Spec

-----------------------------------------------------------------------------
\* What is known of operations, requests and slots whatever the platform does.
AtWork(w) == phase[w] \in {"calling", "called"}

Grounded ==
    /\ op[0].kind = "create"
    /\ \A o \in Operation : o > accepted /\ o # 0 => op[o].status = "absent"
    /\ \A o \in Operation : o # 0 /\ o <= accepted =>
          /\ op[o].kind # "create"
          /\ op[o].source \in AllowedFrom(op[o].kind)
          /\ op[o].target = Target(op[o].kind, op[o].source)
    /\ \A c \in Client : edit[c].open =>
          created /\ edit[c].kind # "create" /\ edit[c].row.remote \in AllowedFrom(edit[c].kind)
    /\ ~created => accepted = 0 /\ desired = "under_review"
    /\ platform = "absent" => ~created /\ \A w \in Worker : phase[w] # "called"
    /\ \A w \in Worker : phase[w] # "idle" => op[job[w]].status = "running"
    /\ \A v, w \in Worker : phase[v] # "idle" /\ phase[w] # "idle" /\ job[v] = job[w] => v = w

Held == TypeOK /\ Grounded

LEMMA InitGrounded == Init => Grounded
<1> SUFFICES ASSUME Init PROVE Grounded
  OBVIOUS
<1>1. 0 \in Operation /\ \A o \in Operation : ~(o # 0 /\ o <= 0)
  BY ProductAssumption DEF Operation
<1>2. remote \in {"pending_create", "listed"}
  BY ProductAssumption DEF Init
<1>3. \A o \in Operation : op[o].kind = "create" /\ (o # 0 => op[o].status = "absent")
  BY DEF Init, Queued
<1>4. QED
  BY <1>1, <1>2, <1>3 DEF Init, Grounded, NoEdit

LEMMA Numbers ==
  /\ 0 \in Operation
  /\ \A o, n \in Operation : /\ o \in Nat /\ (o # 0 => o > 0)
                             /\ ~(o > n) <=> o <= n
  BY ProductAssumption DEF Operation

\* Accepted operations stay what they are, and slots are at work on running ones.
LEMMA GroundedStays ==
  ASSUME Held,
         \A o \in Operation : /\ op'[o].kind = op[o].kind /\ op'[o].source = op[o].source
                              /\ op'[o].target = op[o].target
                              /\ op[o].status = "absent" => op'[o].status = "absent",
         UNCHANGED <<desired, accepted, edit>>, created => created',
         ~created' => ~created,
         platform' = "absent" => platform = "absent" /\ \A w \in Worker : phase'[w] # "called",
         platform' = "absent" => ~created',
         \A w \in Worker : phase'[w] # "idle" => op'[job'[w]].status = "running",
         \A v, w \in Worker :
            phase'[v] # "idle" /\ phase'[w] # "idle" /\ job'[v] = job'[w] => v = w
  PROVE  Grounded'
<1>1. 0 \in Operation
  BY Numbers
<1>2. QED
  BY <1>1 DEF Held, Grounded

LEMMA ProductGrounded ==
  ASSUME Held, [Next]_vars
  PROVE  Grounded'
<1> USE DEF row, slots, hooks, budgets
<1>0. TypeOK /\ Grounded
  BY DEF Held
<1>1. CASE UNCHANGED vars
  BY <1>0, <1>1 DEF vars, Grounded
<1>2. ASSUME NEW c \in Client, NEW kind \in Kind \ {"create"}, Check(c, kind) PROVE Grounded'
  <2>1. /\ UNCHANGED <<desired, created, platform, accepted, op, phase, job>>
        /\ edit' = [edit EXCEPT ![c] = [open |-> TRUE, kind |-> kind, row |-> Loaded]]
        /\ created /\ remote \in AllowedFrom(kind)
    BY <1>2 DEF Check
  <2>2. \A d \in Client : edit'[d] = edit[d] \/ edit'[d] = [open |-> TRUE, kind |-> kind, row |-> Loaded]
    BY <1>0, <2>1 DEF TypeOK
  <2>3. \A d \in Client : edit'[d].open =>
          created' /\ edit'[d].kind # "create" /\ edit'[d].row.remote \in AllowedFrom(edit'[d].kind)
    BY <1>0, <2>1, <2>2 DEF Grounded, Loaded
  <2>4. QED
    BY <1>0, <2>1, <2>3 DEF Grounded
<1>3. ASSUME NEW c \in Client, Accept(c) PROVE Grounded'
  <2> DEFINE e == edit[c]
             new == Queued(e.kind, e.row.remote, Target(e.kind, e.row.remote), e.row.version + 1)
  <2>1. /\ UNCHANGED <<created, platform, phase, job>>
        /\ accepted' = accepted + 1 /\ accepted < OperationBudget
        /\ op' = [op EXCEPT ![accepted + 1] = new]
        /\ edit' = [edit EXCEPT ![c] = NoEdit]
        /\ e.open
    BY <1>3 DEF Accept
  <2>2. created /\ e.kind # "create" /\ e.row.remote \in AllowedFrom(e.kind)
    BY <1>0, <2>1 DEF Grounded
  <2>3. accepted \in Nat /\ accepted + 1 \in Operation /\ accepted + 1 # 0
    BY <1>0, <2>1, ProductAssumption DEF TypeOK, Operation
  <2>4. \A o \in Operation : IF o = accepted + 1 THEN op'[o] = new ELSE op'[o] = op[o]
    BY <1>0, <2>1, <2>3 DEF TypeOK
  <2>5. \A o \in Operation : o # accepted + 1 => (o > accepted + 1 => o > accepted)
                                                 /\ (o <= accepted + 1 => o <= accepted)
    BY <2>3, Numbers
  <2>6. \A d \in Client : edit'[d].open => edit'[d] = edit[d]
    BY <1>0, <2>1 DEF TypeOK, NoEdit
  <2>7. \A w \in Worker : phase'[w] # "idle" => op'[job'[w]].status = "running"
    <3> SUFFICES ASSUME NEW w \in Worker, phase'[w] # "idle"
                 PROVE  op'[job'[w]].status = "running"
      OBVIOUS
    <3>1. job[w] \in Operation /\ op[job[w]].status = "running"
      BY <1>0, <2>1 DEF TypeOK, Grounded
    <3>2. job[w] # accepted + 1
      BY <1>0, <2>3, <3>1 DEF Grounded
    <3>3. QED
      BY <2>1, <2>4, <3>1, <3>2
  <2>8. /\ op'[0].kind = "create"
        /\ \A o \in Operation : o > accepted' /\ o # 0 => op'[o].status = "absent"
    BY <1>0, <2>1, <2>3, <2>4, <2>5, Numbers DEF Grounded
  <2>9. \A o \in Operation : o # 0 /\ o <= accepted' =>
          /\ op'[o].kind # "create"
          /\ op'[o].source \in AllowedFrom(op'[o].kind)
          /\ op'[o].target = Target(op'[o].kind, op'[o].source)
    BY <1>0, <2>1, <2>2, <2>4, <2>5 DEF Grounded, Queued
  <2>10. QED
    BY <1>0, <2>1, <2>2, <2>6, <2>7, <2>8, <2>9 DEF Grounded
<1>4. CASE PlatformActs
  <2>1. platform' # "absent" /\ UNCHANGED <<desired, created, accepted, op, edit, phase, job>>
    BY <1>4 DEF PlatformActs
  <2>2. QED
    BY <2>1, GroundedStays DEF Held, Grounded
<1>5. CASE LoadForEvent \/ CommitEvent \/ DropEvent
  <2>1. UNCHANGED <<desired, created, platform, accepted, op, edit, phase, job>>
    BY <1>5 DEF LoadForEvent, CommitEvent, DropEvent
  <2>2. QED
    BY <1>0, <2>1, GroundedStays DEF Grounded
\* The status of one operation is written.
<1>6. ASSUME NEW o \in Operation, NEW s \in OpStatus, op' = [op EXCEPT ![o].status = s],
             op[o].status # "absent"
      PROVE  /\ \A p \in Operation : /\ op'[p].kind = op[p].kind /\ op'[p].source = op[p].source
                                     /\ op'[p].target = op[p].target
                                     /\ op[p].status = "absent" => op'[p].status = "absent"
             /\ op'[o].status = s /\ \A p \in Operation : p # o => op'[p] = op[p]
  <2>1. /\ op'[o] = [op[o] EXCEPT !.status = s]
        /\ \A p \in Operation : p # o => op'[p] = op[p]
    BY <1>0, <1>6, MarkTyped
  <2>2. op[o] \in OpRecord
    BY <1>0 DEF TypeOK, OpRecord
  <2>3. op'[o].kind = op[o].kind /\ op'[o].source = op[o].source /\ op'[o].target = op[o].target
        /\ op'[o].status = s
    BY <2>1, <2>2 DEF OpRecord
  <2>4. QED
    BY <1>6, <2>1, <2>3
<1>7. ASSUME NEW o \in Operation, ManualRetry(o) PROVE Grounded'
  <2>1. /\ op' = [op EXCEPT ![o].status = "queued"] /\ op[o].status = "failed"
        /\ UNCHANGED <<desired, created, platform, accepted, edit, phase, job>>
    BY <1>7 DEF ManualRetry
  <2>2. \A w \in Worker : phase'[w] # "idle" => op'[job'[w]].status = "running"
    BY <1>0, <1>6, <2>1 DEF Grounded, TypeOK, OpStatus
  <2>3. QED
    BY <1>0, <1>6, <2>1, <2>2, GroundedStays DEF Grounded, OpStatus
<1>8. ASSUME NEW w \in Worker, NEW o \in Operation, Start(w, o) PROVE Grounded'
  <2>0. phase[w] = "idle" /\ op[o].status = "queued"
        /\ UNCHANGED <<desired, created, platform, accepted, edit>>
    BY <1>8 DEF Start
  <2>1. CASE op' = [op EXCEPT ![o].status = "failed"] /\ UNCHANGED <<phase, job>>
    <3>1. \A v \in Worker : phase'[v] # "idle" => op'[job'[v]].status = "running"
      BY <1>0, <1>6, <2>0, <2>1 DEF Grounded, TypeOK, OpStatus
    <3>2. QED
      BY <1>0, <1>6, <2>0, <2>1, <3>1, GroundedStays DEF Grounded, OpStatus
  <2>2. ASSUME op' = [op EXCEPT ![o].status = "running"], job' = [job EXCEPT ![w] = o],
               NEW x \in {"done", "calling"}, phase' = [phase EXCEPT ![w] = x]
        PROVE  Grounded'
    <3>1. \A v \in Worker : /\ v # w => phase'[v] = phase[v] /\ job'[v] = job[v]
                            /\ phase[v] # "idle" => job[v] # o /\ job[v] \in Operation
      BY <1>0, <2>0, <2>2 DEF Grounded, TypeOK
    <3>2. phase'[w] = x /\ job'[w] = o
      BY <1>0, <2>2 DEF TypeOK
    <3>3. op'[o].status = "running" /\ \A p \in Operation : p # o => op'[p] = op[p]
      BY <1>6, <2>0, <2>2 DEF OpStatus
    <3>4. \A v \in Worker : phase'[v] # "idle" => op'[job'[v]].status = "running"
      BY <1>0, <3>1, <3>2, <3>3 DEF Grounded
    <3>5. \A u, v \in Worker :
            phase'[u] # "idle" /\ phase'[v] # "idle" /\ job'[u] = job'[v] => u = v
      BY <1>0, <3>1, <3>2 DEF Grounded
    <3>6. \A v \in Worker : phase'[v] = "called" => phase[v] = "called"
      BY <2>2, <3>1, <3>2
    <3>7. QED
      BY <1>0, <1>6, <2>0, <2>2, <3>4, <3>5, <3>6, GroundedStays DEF Grounded, OpStatus
  <2>3. QED
    BY <1>8, <2>1, <2>2 DEF Start
\* A slot leaves its operation.
<1>9. ASSUME NEW w \in Worker, phase[w] # "idle", Leave(w),
             NEW s \in OpStatus, op' = [op EXCEPT ![job[w]].status = s],
             UNCHANGED <<desired, created, accepted, edit>>,
             platform' = "absent" => platform = "absent"
      PROVE  Grounded'
  <2>1. /\ phase'[w] = "idle"
        /\ \A v \in Worker : v # w => phase'[v] = phase[v] /\ job'[v] = job[v]
        /\ \A v \in Worker : phase'[v] # "idle" => v # w
    BY <1>0, <1>9, LeaveTyped
  <2>2. \A v \in Worker : job[v] \in Operation /\ (v # w /\ phase[v] # "idle" => job[v] # job[w])
    BY <1>0, <1>9 DEF Grounded, TypeOK
  <2>3. op[job[w]].status # "absent"
    BY <1>0, <1>9 DEF Grounded
  <2>4. \A v \in Worker : phase'[v] # "idle" => op'[job'[v]].status = "running"
    BY <1>0, <1>6, <1>9, <2>1, <2>2, <2>3 DEF Grounded
  <2>5. \A u, v \in Worker :
            phase'[u] # "idle" /\ phase'[v] # "idle" /\ job'[u] = job'[v] => u = v
    BY <1>0, <2>1 DEF Grounded
  <2>6. \A v \in Worker : phase'[v] = "called" => phase[v] = "called"
    BY <2>1
  <2>7. QED
    BY <1>0, <1>6, <1>9, <2>2, <2>3, <2>4, <2>5, <2>6, GroundedStays DEF Grounded
<1>10. ASSUME NEW w \in Worker, NEW s \in Effects(op[job[w]].kind, platform, op[job[w]].target),
              phase[w] # "idle"
       PROVE  /\ s = "absent" => platform = "absent" /\ op[job[w]].kind # "create"
              /\ op[job[w]].kind # "create" => created
  <2>1. job[w] \in Operation /\ op[job[w]].target \in Status /\ op[job[w]].status = "running"
    BY <1>0, <1>10 DEF TypeOK, Grounded
  <2>2. s = "absent" => platform = "absent" /\ op[job[w]].kind # "create"
    BY <1>10, <2>1 DEF Effects, Status
  <2>3. op[job[w]].kind # "create" => created
    <3>1. ASSUME op[job[w]].kind # "create" PROVE job[w] # 0 /\ ~(job[w] > accepted)
      BY <1>0, <2>1, <3>1 DEF Grounded
    <3>2. ASSUME ~created PROVE accepted = 0
      BY <1>0, <3>2 DEF Grounded
    <3>3. QED
      BY <2>1, <3>1, <3>2, Numbers
  <2>4. QED
    BY <2>2, <2>3
<1>11. ASSUME NEW w \in Worker, Call(w) PROVE Grounded'
  <2> DEFINE o == job[w]
  <2>0. PICK s \in Effects(op[o].kind, platform, op[o].target) :
          /\ platform' = s
          /\ \E r \in Reported(op[o].kind, s) :
                IF op[o].kind = "create" \/ r = op[o].target
                THEN /\ answer' = [answer EXCEPT ![w] = r]
                     /\ phase'  = [phase EXCEPT ![w] = "called"]
                     /\ UNCHANGED <<op, job, base>>
                ELSE /\ op' = [op EXCEPT ![o].status = "failed"]
                     /\ Leave(w)
    BY <1>11 DEF Call
  <2>1. PICK r \in Reported(op[o].kind, s) :
             IF op[o].kind = "create" \/ r = op[o].target
             THEN /\ answer' = [answer EXCEPT ![w] = r]
                  /\ phase'  = [phase EXCEPT ![w] = "called"]
                  /\ UNCHANGED <<op, job, base>>
             ELSE /\ op' = [op EXCEPT ![o].status = "failed"]
                  /\ Leave(w)
    BY <2>0
  <2>2. phase[w] = "calling" /\ UNCHANGED <<desired, created, accepted, edit>>
    BY <1>11 DEF Call
  <2>3. s = "absent" => FALSE
    BY <1>0, <1>10, <2>0, <2>2 DEF Grounded
  <2>4. CASE op[o].kind = "create" \/ r = op[o].target
    <3>1. \A v \in Worker : phase'[v] # "idle" => phase[v] # "idle"
      BY <1>0, <2>1, <2>2, <2>4 DEF TypeOK
    <3>2. UNCHANGED <<op, job>>
      BY <2>1, <2>4
    <3>3. QED
      BY <1>0, <2>0, <2>1, <2>2, <2>3, <3>1, <3>2, GroundedStays DEF Grounded
  <2>5. CASE ~(op[o].kind = "create" \/ r = op[o].target)
    BY <1>9, <2>0, <2>1, <2>2, <2>3, <2>5 DEF OpStatus
  <2>6. QED
    BY <2>4, <2>5
<1>12. ASSUME NEW w \in Worker, CallFails(w) PROVE Grounded'
  <2>1. PICK s \in {platform} \cup Effects(op[job[w]].kind, platform, op[job[w]].target) :
          platform' = s
    BY <1>12 DEF CallFails
  <2>2. PICK t \in {"queued", "failed"} : op' = [op EXCEPT ![job[w]].status = t]
    BY <1>12 DEF CallFails
  <2>3. platform' = "absent" => platform = "absent"
    BY <1>10, <1>12, <2>1 DEF CallFails
  <2>4. QED
    BY <1>9, <1>12, <2>2, <2>3 DEF CallFails, OpStatus
<1>13. ASSUME NEW w \in Worker, CallRefused(w) PROVE Grounded'
  BY <1>9, <1>13 DEF CallRefused, OpStatus
<1>14. ASSUME NEW w \in Worker, MarkSucceeded(w) PROVE Grounded'
  BY <1>9, <1>14 DEF MarkSucceeded, OpStatus
<1>15. ASSUME NEW w \in Worker, Crash(w) PROVE Grounded'
  BY <1>9, <1>15 DEF Crash, OpStatus
<1>16. ASSUME NEW w \in Worker, Commit(w) PROVE Grounded'
  <2> DEFINE o == job[w]
  <2>1. /\ phase' = [phase EXCEPT ![w] = "done"] /\ phase[w] = "called" /\ created' = TRUE
        /\ op[o].kind = "create" => desired' = desired
        /\ UNCHANGED <<platform, accepted, op, edit, job>>
    BY <1>16 DEF Commit
  <2>2. platform # "absent"
    BY <1>0, <2>1 DEF Grounded
  <2>3. \A v \in Worker : phase'[v] # "idle" => phase[v] # "idle"
    BY <1>0, <2>1 DEF TypeOK
  <2>4. QED
    BY <1>0, <2>1, <2>2, <2>3 DEF Grounded
<1>17. QED
  BY <1>1, <1>2, <1>3, <1>4, <1>5, <1>7, <1>8, <1>11, <1>12, <1>13, <1>14, <1>15, <1>16 DEF Next

-----------------------------------------------------------------------------
(* One client, no manual retry *)

OneClient == \A c, d \in Client : c = d

Underway(o) == op[o].status \in Active

\* One operation is under way at a time, its target is what the row desires, and
\* a client that is about to queue the next one has found none.
Alone ==
    retries = 0 =>
      /\ \A o, p \in Operation : Underway(o) /\ Underway(p) => o = p
      /\ \A c \in Client : edit[c].open =>
            /\ \A o \in Operation : ~Underway(o)
            /\ edit[c].row.desired = desired
      /\ \A w \in Worker : AtWork(w) /\ op[job[w]].kind # "create" =>
            /\ desired = op[job[w]].target
            /\ phase[w] = "called" => answer[w] = op[job[w]].target

LEMMA InitAlone == Init => Alone
<1> SUFFICES ASSUME Init PROVE Alone
  OBVIOUS
<1>1. \A o \in Operation : Underway(o) => o = 0
  BY DEF Init, Queued, Underway, Active
<1>2. QED
  BY <1>1 DEF Init, Alone, AtWork, NoEdit

\* Statuses are written, and none becomes active; slots go on with what they
\* hold or leave.
LEMMA AloneStays ==
  ASSUME Held, Alone, UNCHANGED <<desired, edit, retries>>,
         \A o \in Operation : /\ op'[o].kind = op[o].kind /\ op'[o].target = op[o].target
                              /\ Underway(o)' => Underway(o),
         \A v \in Worker : AtWork(v)' => /\ AtWork(v) /\ job'[v] = job[v]
                                         /\ answer'[v] = answer[v]
                                         /\ phase'[v] = "called" => phase[v] = "called"
  PROVE  Alone'
<1> SUFFICES ASSUME retries = 0 PROVE Alone'
  BY DEF Alone
<1>1. \A v \in Worker : job[v] \in Operation
  BY DEF Held, TypeOK
<1>2. /\ \A o, p \in Operation : Underway(o)' /\ Underway(p)' => o = p
      /\ \A c \in Client : edit'[c].open =>
            (\A o \in Operation : ~Underway(o)') /\ edit'[c].row.desired = desired'
  BY DEF Alone
<1>3. \A w \in Worker : AtWork(w)' /\ op'[job'[w]].kind # "create" =>
            /\ desired' = op'[job'[w]].target
            /\ phase'[w] = "called" => answer'[w] = op'[job'[w]].target
  BY <1>1 DEF Alone
<1>4. QED
  BY <1>2, <1>3 DEF Alone

\* What marking an operation leaves.
LEMMA MarkKeeps ==
  ASSUME TypeOK, NEW o \in Operation, NEW s \in OpStatus, op' = [op EXCEPT ![o].status = s]
  PROVE  /\ \A p \in Operation : /\ op'[p].kind = op[p].kind /\ op'[p].source = op[p].source
                                 /\ op'[p].target = op[p].target
                                 /\ op'[p].version = op[p].version
         /\ op'[o].status = s /\ \A p \in Operation : p # o => op'[p] = op[p]
<1>1. /\ op'[o] = [op[o] EXCEPT !.status = s]
      /\ \A p \in Operation : p # o => op'[p] = op[p]
  BY MarkTyped
<1>2. op[o] \in OpRecord
  BY DEF TypeOK, OpRecord
<1>3. /\ op'[o].kind = op[o].kind /\ op'[o].source = op[o].source
      /\ op'[o].target = op[o].target /\ op'[o].version = op[o].version /\ op'[o].status = s
  BY <1>1, <1>2 DEF OpRecord
<1>4. QED
  BY <1>1, <1>3

\* What no step takes back.
LEMMA Budgets ==
  ASSUME TypeOK, [Next]_vars
  PROVE  /\ retries' \in {retries, retries + 1}
         /\ reports' \in {reports, reports + 1}
<1> USE DEF row, slots, hooks, budgets
<1>1. CASE UNCHANGED vars
  BY <1>1 DEF vars
<1>2. ASSUME NEW c \in Client, Accept(c) \/ \E kind \in Kind \ {"create"} : Check(c, kind)
      PROVE  UNCHANGED <<retries, reports>>
  BY <1>2 DEF Accept, Check
<1>3. CASE PlatformActs \/ LoadForEvent \/ CommitEvent \/ DropEvent
  BY <1>3 DEF PlatformActs, LoadForEvent, CommitEvent, DropEvent, Report
<1>4. ASSUME NEW o \in Operation, ManualRetry(o)
      PROVE  retries' = retries + 1 /\ reports' = reports
  BY <1>4 DEF ManualRetry
<1>5. ASSUME NEW o \in Operation, NEW w \in Worker, Start(w, o)
      PROVE  UNCHANGED <<retries, reports>>
  BY <1>5 DEF Start
<1>6. ASSUME NEW w \in Worker, Call(w)
      PROVE  retries' = retries /\ reports' \in {reports, reports + 1}
  <2>1. retries' = retries
    BY <1>6 DEF Call
  <2>2. reports' \in {reports, reports + 1}
    BY <1>6 DEF Call, Report
  <2>3. QED
    BY <2>1, <2>2
<1>7. ASSUME NEW w \in Worker,
             \/ CallFails(w) \/ CallRefused(w) \/ Commit(w) \/ MarkSucceeded(w) \/ Crash(w)
      PROVE  UNCHANGED <<retries, reports>>
  BY <1>7 DEF CallFails, CallRefused, Commit, MarkSucceeded, Crash
<1>8. QED
  BY <1>1, <1>2, <1>3, <1>4, <1>5, <1>6, <1>7 DEF Next

LEMMA StepAlone ==
  ASSUME OneClient, Held, Alone, [Next]_vars
  PROVE  Alone'
<1> USE DEF row, slots, hooks, budgets
<1>0. TypeOK /\ Grounded
  BY DEF Held
<1>1. CASE UNCHANGED vars
  BY <1>1 DEF vars, Alone, AtWork, Underway
<1>2. ASSUME NEW c \in Client, NEW kind \in Kind \ {"create"}, Check(c, kind) PROVE Alone'
  <2>1. /\ UNCHANGED <<desired, op, phase, job, answer, retries>>
        /\ edit' = [edit EXCEPT ![c] = [open |-> TRUE, kind |-> kind, row |-> Loaded]]
        /\ ~Pending
    BY <1>2 DEF Check, MayStart
  <2>2. \A o \in Operation : ~Underway(o)
    BY <2>1 DEF Pending, Underway
  <2>3. \A d \in Client : edit'[d] = [open |-> TRUE, kind |-> kind, row |-> Loaded]
    BY <1>0, <2>1 DEF TypeOK, OneClient
  <2>4. QED
    BY <2>1, <2>2, <2>3 DEF Alone, AtWork, Underway, Loaded
<1>3. ASSUME NEW c \in Client, Accept(c), retries = 0 PROVE Alone'
  <2> DEFINE e == edit[c]
             target == Target(e.kind, e.row.remote)
             new == Queued(e.kind, e.row.remote, target, e.row.version + 1)
  <2>1. /\ UNCHANGED <<phase, job, answer, retries>>
        /\ op' = [op EXCEPT ![accepted + 1] = new]
        /\ edit' = [edit EXCEPT ![c] = NoEdit] /\ e.open
        /\ accepted + 1 \in Operation
    BY <1>0, <1>3, ProductAssumption DEF Accept, TypeOK, Operation
  <2>2. \A o \in Operation : ~Underway(o)
    BY <1>3, <2>1 DEF Alone
  <2>3. \A o \in Operation : Underway(o)' => o = accepted + 1
    BY <1>0, <2>1, <2>2 DEF TypeOK, Underway
  <2>4. \A d \in Client : ~edit'[d].open
    BY <1>0, <2>1 DEF TypeOK, OneClient, NoEdit
  <2>5. \A v \in Worker : ~AtWork(v)'
    BY <1>0, <2>1, <2>2 DEF Grounded, AtWork, Underway, Active, TypeOK
  <2>6. QED
    BY <2>3, <2>4, <2>5 DEF Alone
<1>4. CASE PlatformActs \/ LoadForEvent \/ CommitEvent \/ DropEvent
  <2>1. UNCHANGED <<desired, op, edit, phase, job, answer, retries>>
    BY <1>4 DEF PlatformActs, LoadForEvent, CommitEvent, DropEvent
  <2>2. QED
    BY <2>1, AloneStays DEF AtWork, Underway
<1>5. ASSUME NEW o \in Operation, ManualRetry(o) PROVE Alone'
  <2>1. retries' # 0
    BY <1>0, <1>5 DEF ManualRetry, TypeOK
  <2>2. QED
    BY <2>1 DEF Alone
<1>6. ASSUME NEW w \in Worker, NEW o \in Operation, Start(w, o), retries = 0 PROVE Alone'
  <2>1. /\ UNCHANGED <<desired, edit, retries>>
        /\ op[o].status = "queued" /\ Underway(o)
    BY <1>6 DEF Start, Underway, Active
  <2>2. CASE op' = [op EXCEPT ![o].status = "failed"] /\ UNCHANGED <<phase, job, answer>>
    BY <1>0, <2>1, <2>2, MarkKeeps, AloneStays DEF Underway, Active, AtWork, OpStatus
  <2>3. ASSUME op[o].kind = "create" \/ Valid(o),
               op' = [op EXCEPT ![o].status = "running"], job' = [job EXCEPT ![w] = o],
               NEW x \in {"done", "calling"}, phase' = [phase EXCEPT ![w] = x]
        PROVE  Alone'
    <3>1. /\ \A p \in Operation : /\ op'[p].kind = op[p].kind /\ op'[p].target = op[p].target
                                  /\ Underway(p)' => Underway(p)
      BY <1>0, <2>1, <2>3, MarkKeeps DEF Underway, OpStatus
    <3>2. \A v \in Worker : v # w => phase[v] = "idle"
      <4> SUFFICES ASSUME NEW v \in Worker, phase[v] # "idle" PROVE FALSE
        BY DEF Grounded
      <4>1. op[job[v]].status = "running" /\ job[v] \in Operation
        BY <1>0 DEF Grounded, TypeOK
      <4>2. job[v] = o
        BY <1>6, <2>1, <4>1 DEF Alone, Underway, Active
      <4>3. QED
        BY <2>1, <4>1, <4>2
    <3>3. /\ phase'[w] = x /\ job'[w] = o
          /\ \A v \in Worker : v # w => ~AtWork(v)'
      BY <1>0, <2>3, <3>2 DEF TypeOK, AtWork
    <3>4. op[o].kind # "create" => desired = op[o].target
      BY <2>3 DEF Valid
    <3>5. QED
      BY <1>6, <2>1, <3>1, <3>3, <3>4 DEF Alone, AtWork
  <2>4. QED
    BY <1>6, <2>2, <2>3 DEF Start
\* A slot leaves its operation.
<1>7. ASSUME NEW w \in Worker, phase[w] # "idle", Leave(w),
             NEW s \in OpStatus, op' = [op EXCEPT ![job[w]].status = s],
             UNCHANGED <<desired, edit, retries>>
      PROVE  Alone'
  <2>1. job[w] \in Operation /\ Underway(job[w])
    BY <1>0, <1>7 DEF Grounded, TypeOK, Underway, Active
  <2>2. \A o \in Operation : /\ op'[o].kind = op[o].kind /\ op'[o].target = op[o].target
                             /\ Underway(o)' => Underway(o)
    BY <1>0, <1>7, <2>1, MarkKeeps DEF Underway
  <2>3. \A v \in Worker : AtWork(v)' => v # w
    BY <1>0, <1>7, LeaveTyped DEF AtWork
  <2>4. \A v \in Worker : AtWork(v)' => /\ AtWork(v) /\ job'[v] = job[v] /\ answer'[v] = answer[v]
                                        /\ phase'[v] = "called" => phase[v] = "called"
    BY <1>0, <1>7, <2>3, LeaveTyped DEF AtWork
  <2>5. QED
    BY <1>7, <2>2, <2>4, AloneStays
<1>8. ASSUME NEW w \in Worker, Call(w) PROVE Alone'
  <2> DEFINE o == job[w]
  <2>0. PICK s \in Effects(op[o].kind, platform, op[o].target) :
          \E r \in Reported(op[o].kind, s) :
             IF op[o].kind = "create" \/ r = op[o].target
             THEN /\ answer' = [answer EXCEPT ![w] = r]
                  /\ phase'  = [phase EXCEPT ![w] = "called"]
                  /\ UNCHANGED <<op, job, base>>
             ELSE /\ op' = [op EXCEPT ![o].status = "failed"]
                  /\ Leave(w)
    BY <1>8 DEF Call
  <2>1. PICK r \in Reported(op[o].kind, s) :
             IF op[o].kind = "create" \/ r = op[o].target
             THEN /\ answer' = [answer EXCEPT ![w] = r]
                  /\ phase'  = [phase EXCEPT ![w] = "called"]
                  /\ UNCHANGED <<op, job, base>>
             ELSE /\ op' = [op EXCEPT ![o].status = "failed"]
                  /\ Leave(w)
    BY <2>0
  <2>2. phase[w] = "calling" /\ UNCHANGED <<desired, edit, retries>>
    BY <1>8 DEF Call
  <2>3. CASE op[o].kind = "create" \/ r = op[o].target
    <3>1. /\ UNCHANGED <<op, job>>
          /\ phase'[w] = "called" /\ answer'[w] = r
          /\ \A v \in Worker : v # w => phase'[v] = phase[v] /\ answer'[v] = answer[v]
      BY <1>0, <2>1, <2>3 DEF TypeOK
    <3>2. ASSUME retries = 0 PROVE Alone'
      BY <2>2, <2>3, <3>1, <3>2 DEF Alone, AtWork, Underway
    <3>3. QED
      BY <2>2, <3>2 DEF Alone
  <2>4. CASE ~(op[o].kind = "create" \/ r = op[o].target)
    BY <1>7, <2>1, <2>2, <2>4 DEF OpStatus
  <2>5. QED
    BY <2>3, <2>4
<1>9. ASSUME NEW w \in Worker, CallFails(w) PROVE Alone'
  <2>1. PICK t \in {"queued", "failed"} : op' = [op EXCEPT ![job[w]].status = t]
    BY <1>9 DEF CallFails
  <2>2. QED
    BY <1>7, <1>9, <2>1 DEF CallFails, OpStatus
<1>10. ASSUME NEW w \in Worker, CallRefused(w) PROVE Alone'
  BY <1>7, <1>10 DEF CallRefused, OpStatus
<1>11. ASSUME NEW w \in Worker, MarkSucceeded(w) PROVE Alone'
  BY <1>7, <1>11 DEF MarkSucceeded, OpStatus
<1>12. ASSUME NEW w \in Worker, Crash(w) PROVE Alone'
  BY <1>7, <1>12 DEF Crash, OpStatus
<1>13. ASSUME NEW w \in Worker, Commit(w), retries = 0 PROVE Alone'
  <2> DEFINE o == job[w]
  <2>1. /\ phase' = [phase EXCEPT ![w] = "done"] /\ phase[w] = "called"
        /\ desired' = IF op[o].kind # "create" /\ answer[w] # base[w].desired
                      THEN answer[w] ELSE desired
        /\ UNCHANGED <<op, edit, job, answer, retries>>
    BY <1>13 DEF Commit
  <2>2. desired' = desired
    BY <1>13, <2>1 DEF Alone, AtWork
  <2>3. \A v \in Worker : AtWork(v)' => AtWork(v) /\ (phase'[v] = "called" => phase[v] = "called")
    BY <1>0, <2>1 DEF TypeOK, AtWork
  <2>4. QED
    BY <2>1, <2>2, <2>3, AloneStays DEF Underway
<1>14. ASSUME retries # 0 PROVE Alone'
  <2>1. retries' # 0
    BY <1>0, <1>14, Budgets DEF TypeOK
  <2>2. QED
    BY <2>1 DEF Alone
<1>15. QED
  BY <1>1, <1>2, <1>3, <1>4, <1>5, <1>6, <1>8, <1>9, <1>10, <1>11, <1>12, <1>13, <1>14 DEF Next

(***************************************************************************)
(* With one client and no manual retry, a call changes the product only to *)
(* the state its row desires at that moment, whatever callbacks, crashes   *)
(* and attempts come in between (validate_intent, and the check for        *)
(* pending operations).                                                    *)
(***************************************************************************)
THEOREM IntentsAreCurrent ==
  ASSUME OneClient
  PROVE  Spec => IntentIsCurrent
<1>1. Init => Held /\ Alone
  BY InitTyped, InitGrounded, InitAlone DEF Held
<1>2. Held /\ Alone /\ [Next]_vars => (Held /\ Alone)'
  BY StepTyped, ProductGrounded, StepAlone, OneClient DEF Held
<1>3. ASSUME Held, Alone, NEW w \in Worker, retries = 0, Call(w), platform' # platform
      PROVE  platform' = desired
  <2> DEFINE o == job[w]
  <2>1. platform' \in Effects(op[o].kind, platform, op[o].target) /\ AtWork(w)
    BY <1>3 DEF Call, AtWork
  <2>2. CASE op[o].kind = "create"
    <3>1. platform = "absent" /\ platform' = "under_review"
      BY <1>3, <2>1, <2>2 DEF Effects
    <3>2. QED
      BY <1>3, <3>1 DEF Held, Grounded
  <2>3. CASE op[o].kind # "create"
    <3>1. platform' = op[o].target
      BY <1>3, <2>1, <2>3 DEF Effects
    <3>2. QED
      BY <1>3, <2>1, <2>3, <3>1 DEF Alone
  <2>4. QED
    BY <2>2, <2>3
<1>4. Held /\ Alone /\ [Next]_vars =>
        [\A w \in Worker : retries = 0 /\ Call(w) /\ platform' # platform => platform' = desired]_vars
  BY <1>3
<1>5. QED
  BY <1>1, <1>2, <1>4, PTL DEF Spec, IntentIsCurrent

-----------------------------------------------------------------------------
(* One client, no callback sent *)

\* Operation o is the one that leads from the row's state to the desired one, and
\* the platform is at one end of it.
Moving(o) ==
    /\ op[o].kind # "audit_free"
    /\ remote = op[o].source /\ desired = op[o].target
    /\ platform \in {op[o].source, op[o].target}

\* The row tells what the platform has, or which operation may have changed it.
RowTells ==
    /\ event = {} /\ ~hook.open
    /\ version = accepted + 1
    /\ \A o \in Operation : o # 0 /\ o <= accepted => op[o].version = o + 1
    /\ created /\ remote = desired => platform = remote
    /\ accepted # 0 /\ remote # desired => Moving(accepted)
    /\ ~created => remote = "pending_create" /\ platform \in {"absent", "under_review"}

\* A slot that is going to commit the answer of a call.
Creating(w) ==
    /\ ~created /\ base[w].remote = "pending_create"
    /\ phase[w] = "called" =>
          platform = "under_review" /\ answer[w] \in {"under_review", "draft"}

Keeping(w) ==
    /\ base[w].remote = op[job[w]].target /\ base[w].desired = op[job[w]].target
    /\ phase[w] = "called" => answer[w] = op[job[w]].target

Changing(w) ==
    /\ job[w] = accepted /\ Moving(accepted)
    /\ base[w].remote = remote /\ base[w].desired = desired
    /\ phase[w] = "called" => platform = desired /\ answer[w] = desired

Working(w) ==
    /\ op[job[w]].kind = "create" => Creating(w)
    /\ op[job[w]].kind = "audit_free" => Keeping(w)
    /\ op[job[w]].kind \notin {"create", "audit_free"} => Changing(w)

Unreported ==
    reports = 0 =>
      /\ RowTells
      /\ \A c \in Client : edit[c].open => remote = desired /\ edit[c].row = Loaded
      /\ \A w \in Worker : AtWork(w) => Working(w)

\* An operation other than the two leads somewhere else.
LEMMA TargetIsElsewhere ==
  ASSUME NEW kind \in Kind \ {"create", "audit_free"}, NEW s \in AllowedFrom(kind)
  PROVE  Target(kind, s) # s
  BY DEF Kind, Action, AllowedFrom, Target

LEMMA InitUnreported == Init => Unreported
<1> SUFFICES ASSUME Init PROVE Unreported
  OBVIOUS
<1>1. remote \in {"pending_create", "listed"}
  BY ProductAssumption DEF Init
<1>2. \A o \in Operation : ~(o # 0 /\ o <= accepted)
  BY Numbers DEF Init
<1>3. CASE remote = "listed"
  <2>1. /\ created /\ desired = "listed" /\ platform = "listed"
        /\ event = {} /\ ~hook.open /\ version = 1 /\ accepted = 0
    BY <1>3 DEF Init, NoHook
  <2>2. RowTells
    BY <1>2, <1>3, <2>1 DEF RowTells
  <2>3. QED
    BY <2>2 DEF Init, Unreported, AtWork, NoEdit
<1>4. CASE remote = "pending_create"
  <2>1. /\ ~created /\ desired = "under_review" /\ platform = "absent"
        /\ event = {} /\ ~hook.open /\ version = 1 /\ accepted = 0
    BY <1>4 DEF Init, NoHook
  <2>2. RowTells
    BY <1>2, <1>4, <2>1 DEF RowTells
  <2>3. QED
    BY <2>2 DEF Init, Unreported, AtWork, NoEdit
<1>5. QED
  BY <1>1, <1>3, <1>4

\* The operation at work in a slot.
LEMMA JobAtWork ==
  ASSUME Held, NEW w \in Worker, AtWork(w)
  PROVE  /\ job[w] \in Operation /\ op[job[w]].status = "running"
         /\ job[w] = 0 <=> op[job[w]].kind = "create"
         /\ job[w] # 0 => /\ job[w] <= accepted /\ created
                          /\ op[job[w]].source \in AllowedFrom(op[job[w]].kind)
                          /\ op[job[w]].target = Target(op[job[w]].kind, op[job[w]].source)
         /\ op[job[w]].kind \in Kind
<1>1. job[w] \in Operation /\ op[job[w]].status = "running" /\ op[job[w]].kind \in Kind
  BY DEF Held, TypeOK, Grounded, AtWork
<1>2. job[w] # 0 => job[w] <= accepted /\ accepted # 0
  BY <1>1, Numbers DEF Held, Grounded, TypeOK
<1>3. job[w] # 0 => created
  BY <1>2 DEF Held, Grounded
<1>4. QED
  BY <1>1, <1>2, <1>3 DEF Held, Grounded

\* Two slots at work on operations that change the product are one.
LEMMA OneAtWork ==
  ASSUME Held, Unreported, reports = 0, NEW v \in Worker, NEW w \in Worker,
         AtWork(v), AtWork(w),
         op[job[v]].kind # "audit_free", op[job[w]].kind # "audit_free"
  PROVE  v = w
<1>1. \A u \in Worker : AtWork(u) /\ op[job[u]].kind = "create" => job[u] = 0 /\ ~created
  BY JobAtWork DEF Unreported, Working, Creating
<1>2. \A u \in Worker : AtWork(u) /\ op[job[u]].kind \notin {"create", "audit_free"} =>
                        job[u] = accepted /\ created
  BY JobAtWork DEF Unreported, Working, Changing
<1>3. job[v] = job[w]
  BY <1>1, <1>2
<1>4. QED
  BY <1>3 DEF Held, Grounded, AtWork

\* Nothing but statuses is written, and no slot gets to work.
LEMMA UnreportedStays ==
  ASSUME Held, Unreported,
         UNCHANGED <<row, platform, accepted, edit, hooks>>,
         \A o \in Operation : /\ op'[o].kind = op[o].kind /\ op'[o].source = op[o].source
                              /\ op'[o].target = op[o].target /\ op'[o].version = op[o].version,
         \A v \in Worker : AtWork(v)' => /\ AtWork(v) /\ phase'[v] = phase[v] /\ job'[v] = job[v]
                                         /\ base'[v] = base[v] /\ answer'[v] = answer[v]
  PROVE  Unreported'
<1> SUFFICES ASSUME reports = 0 PROVE Unreported'
  BY DEF Unreported, hooks
<1> USE DEF row, hooks
<1>1. accepted \in Operation /\ \A v \in Worker : job[v] \in Operation
  BY DEF Held, TypeOK, Operation
<1>2. \A o \in Operation : Moving(o) => Moving(o)'
  BY DEF Moving
<1>3. RowTells'
  BY <1>1, <1>2 DEF Unreported, RowTells
<1>4. ASSUME NEW v \in Worker, AtWork(v)' PROVE Working(v)'
  <2>1. AtWork(v) /\ Working(v) /\ job[v] \in Operation
    BY <1>1, <1>4 DEF Unreported
  <2>2. op'[job'[v]].kind = op[job[v]].kind /\ op'[job'[v]].target = op[job[v]].target
    BY <1>4, <2>1
  <2>3. Creating(v) => Creating(v)'
    BY <1>4 DEF Creating
  <2>4. Keeping(v) => Keeping(v)'
    BY <1>4, <2>2 DEF Keeping
  <2>5. Changing(v) => Changing(v)'
    BY <1>1, <1>2, <1>4 DEF Changing
  <2>6. QED
    BY <2>1, <2>2, <2>3, <2>4, <2>5 DEF Working
<1>5. QED
  BY <1>3, <1>4 DEF Unreported, Loaded

\* The row stays; what a call of w does to the platform, on which no other slot
\* counts.
LEMMA UnreportedCall ==
  ASSUME Held, Unreported, reports = 0, UNCHANGED <<row, accepted, edit, hooks>>,
         \A o \in Operation : /\ op'[o].kind = op[o].kind /\ op'[o].source = op[o].source
                              /\ op'[o].target = op[o].target /\ op'[o].version = op[o].version,
         NEW w \in Worker, phase[w] = "calling",
         platform' \in {platform} \cup Effects(op[job[w]].kind, platform, op[job[w]].target),
         \A v \in Worker : v # w /\ AtWork(v)' =>
             /\ AtWork(v) /\ phase'[v] = phase[v] /\ job'[v] = job[v]
             /\ base'[v] = base[v] /\ answer'[v] = answer[v],
         AtWork(w)' => /\ phase'[w] = "called" /\ job'[w] = job[w] /\ base'[w] = base[w]
                       /\ op[job[w]].kind = "create" =>
                             platform' = "under_review" /\ answer'[w] \in {"under_review", "draft"}
                       /\ op[job[w]].kind = "audit_free" => answer'[w] = op[job[w]].target
                       /\ op[job[w]].kind \notin {"create", "audit_free"} =>
                             platform' = op[job[w]].target /\ answer'[w] = op[job[w]].target
  PROVE  Unreported'
<1> DEFINE k == op[job[w]].kind
<1> USE DEF row, hooks
<1>0. /\ AtWork(w) /\ Working(w) /\ RowTells
      /\ accepted \in Operation /\ \A v \in Worker : job[v] \in Operation
  BY DEF Held, TypeOK, Operation, Unreported, AtWork
<1>1. k = "create" => ~created /\ accepted = 0 /\ platform' \in {platform, "under_review"}
                      /\ platform' \in {"absent", "under_review"}
  BY <1>0 DEF Working, Creating, Held, Grounded, RowTells, Effects
<1>2. k = "audit_free" => platform' = platform
  BY DEF Effects
<1>3. k \notin {"create", "audit_free"} =>
        /\ job[w] = accepted /\ Moving(accepted) /\ remote # desired /\ created
        /\ platform' \in {op[accepted].source, op[accepted].target}
        /\ op[accepted].kind = k /\ op[accepted].target = desired
  <2> SUFFICES ASSUME k \notin {"create", "audit_free"}
               PROVE  /\ job[w] = accepted /\ Moving(accepted) /\ remote # desired /\ created
                      /\ platform' \in {op[accepted].source, op[accepted].target}
                      /\ op[accepted].kind = k /\ op[accepted].target = desired
    OBVIOUS
  <2>1. job[w] = accepted /\ Moving(accepted)
    BY <1>0 DEF Working, Changing
  <2>2. op[accepted].target # op[accepted].source /\ created
    BY <1>0, <2>1, JobAtWork, TargetIsElsewhere
  <2>3. platform' \in {platform, op[accepted].target}
    BY <2>1 DEF Effects
  <2>4. QED
    BY <2>1, <2>2, <2>3 DEF Moving
<1>4. k \in {"create", "audit_free"} \/ k \notin {"create", "audit_free"}
  OBVIOUS
<1>5. RowTells'
  <2>1. created' /\ remote' = desired' => platform' = remote'
    BY <1>0, <1>1, <1>2, <1>3, <1>4 DEF RowTells
  <2>2. accepted' # 0 /\ remote' # desired' => Moving(accepted)'
    <3>1. op'[accepted].kind = op[accepted].kind /\ op'[accepted].source = op[accepted].source
          /\ op'[accepted].target = op[accepted].target
      BY <1>0
    <3>2. QED
      BY <1>0, <1>1, <1>2, <1>3, <1>4, <3>1 DEF RowTells, Moving
  <2>3. ~created' => remote' = "pending_create" /\ platform' \in {"absent", "under_review"}
    BY <1>0, <1>1, <1>2, <1>3, <1>4 DEF RowTells
  <2>4. QED
    BY <1>0, <2>1, <2>2, <2>3 DEF RowTells
<1>6. ASSUME AtWork(w)' PROVE Working(w)'
  <2>1. op'[job'[w]].kind = k /\ op'[job'[w]].target = op[job[w]].target
    BY <1>0, <1>6
  <2>2. k = "create" => Creating(w)'
    BY <1>0, <1>6 DEF Working, Creating
  <2>3. k = "audit_free" => Keeping(w)'
    BY <1>0, <1>6, <2>1 DEF Working, Keeping
  <2>4. k \notin {"create", "audit_free"} => Changing(w)'
    <3>1. op'[accepted].kind = op[accepted].kind /\ op'[accepted].source = op[accepted].source
          /\ op'[accepted].target = op[accepted].target
      BY <1>0
    <3>2. QED
      BY <1>0, <1>3, <1>6, <3>1 DEF Working, Changing, Moving
  <2>5. QED
    BY <2>1, <2>2, <2>3, <2>4 DEF Working
<1>7. ASSUME NEW v \in Worker, v # w, AtWork(v)' PROVE Working(v)'
  <2>1. AtWork(v) /\ Working(v) /\ job[v] \in Operation
    BY <1>0, <1>7 DEF Unreported
  <2>2. op'[job'[v]].kind = op[job[v]].kind /\ op'[job'[v]].target = op[job[v]].target
    BY <1>7, <2>1
  <2>3. Keeping(v) => Keeping(v)'
    BY <1>7, <2>2 DEF Keeping
  <2>4. CASE op[job[v]].kind = "audit_free"
    BY <2>1, <2>2, <2>3, <2>4 DEF Working
  <2>5. CASE op[job[v]].kind # "audit_free"
    <3>1. k = "audit_free"
      BY <1>0, <1>7, <2>1, <2>5, OneAtWork
    <3>2. Creating(v) => Creating(v)'
      BY <1>2, <1>7, <3>1 DEF Creating
    <3>3. Changing(v) => Changing(v)'
      BY <1>0, <1>2, <1>7, <3>1 DEF Changing, Moving
    <3>4. QED
      BY <2>1, <2>2, <2>5, <3>2, <3>3 DEF Working
  <2>6. QED
    BY <2>4, <2>5
<1>8. QED
  BY <1>0, <1>5, <1>6, <1>7 DEF Unreported, Loaded

LEMMA StepUnreported ==
  ASSUME OneClient, Held, Unreported, [Next]_vars
  PROVE  Unreported'
<1>0. TypeOK /\ Grounded
  BY DEF Held
<1> SUFFICES ASSUME reports = 0, reports' = 0 PROVE Unreported'
  BY <1>0, Budgets DEF Unreported, TypeOK
<1> USE DEF row, slots, hooks, budgets
<1>1. CASE UNCHANGED vars
  BY <1>1, UnreportedStays DEF vars, AtWork
<1>2. ASSUME NEW c \in Client, NEW kind \in Kind \ {"create"}, Check(c, kind) PROVE Unreported'
  <2>1. /\ UNCHANGED <<row, platform, accepted, op, slots, hooks>>
        /\ edit' = [edit EXCEPT ![c] = [open |-> TRUE, kind |-> kind, row |-> Loaded]]
        /\ remote = desired
    BY <1>2 DEF Check, MayStart
  <2>2. \A d \in Client : edit'[d] = [open |-> TRUE, kind |-> kind, row |-> Loaded]
    BY <1>0, <2>1 DEF TypeOK, OneClient
  <2>3. RowTells' /\ \A w \in Worker : AtWork(w)' => Working(w)'
    BY <2>1 DEF Unreported, RowTells, Moving, AtWork, Working, Creating, Keeping, Changing
  <2>4. QED
    BY <2>1, <2>2, <2>3 DEF Unreported, Loaded
<1>3. ASSUME NEW c \in Client, Accept(c) PROVE Unreported'
  <2> DEFINE e == edit[c]
             target == Target(e.kind, e.row.remote)
             new == Queued(e.kind, e.row.remote, target, e.row.version + 1)
  <2>1. /\ e.open /\ accepted' = accepted + 1 /\ version' = e.row.version + 1
        /\ desired' = IF target # e.row.desired THEN target ELSE desired
        /\ op' = [op EXCEPT ![accepted + 1] = new]
        /\ edit' = [edit EXCEPT ![c] = NoEdit]
        /\ UNCHANGED <<remote, created, platform, slots, hooks>>
        /\ accepted \in Operation /\ accepted + 1 \in Operation /\ accepted \in Nat
    BY <1>0, <1>3, ProductAssumption DEF Accept, TypeOK, Operation
  <2>2. /\ remote = desired /\ e.row = Loaded /\ created /\ e.kind # "create"
        /\ e.row.remote \in AllowedFrom(e.kind) /\ e.kind \in Kind
    BY <1>0, <2>1 DEF Unreported, Grounded, TypeOK
  <2>3. /\ platform = remote /\ version = accepted + 1
        /\ e.row.remote = remote /\ e.row.desired = desired /\ e.row.version = version
    BY <2>2 DEF Unreported, RowTells, Loaded
  <2>4. desired' = target /\ version' = accepted + 2
    BY <2>1, <2>3
  <2>5. /\ op'[accepted + 1] = new
        /\ \A o \in Operation : o # accepted + 1 => op'[o] = op[o]
    BY <1>0, <2>1 DEF TypeOK
  <2>6. e.kind = "audit_free" => target = remote
    BY <2>3 DEF Target
  <2>7. RowTells'
    <3>1. \A o \in Operation : o # 0 /\ o <= accepted' => op'[o].version = o + 1
      <4> SUFFICES ASSUME NEW o \in Operation, o # 0, o <= accepted'
                   PROVE  op'[o].version = o + 1
        OBVIOUS
      <4>1. CASE o = accepted + 1
        BY <2>1, <2>3, <2>5, <4>1 DEF Queued
      <4>2. CASE o # accepted + 1
        <5>1. o <= accepted + 1
          BY <2>1
        <5>2. o <= accepted
          BY <2>1, <4>2, <5>1, Numbers
        <5>3. QED
          BY <2>5, <4>2, <5>2 DEF Unreported, RowTells
      <4>3. QED
        BY <4>1, <4>2
    <3>2. created' /\ remote' = desired' => platform' = remote'
      BY <2>1, <2>3
    <3>3. remote' # desired' => Moving(accepted)'
      BY <2>1, <2>3, <2>4, <2>5, <2>6 DEF Moving, Queued
    <3>4. event' = {} /\ ~hook'.open /\ created'
      BY <2>1, <2>2 DEF Unreported, RowTells
    <3>5. version' = accepted' + 1
      BY <2>1, <2>4
    <3>6. QED
      BY <3>1, <3>2, <3>3, <3>4, <3>5 DEF RowTells
  <2>8. ASSUME NEW w \in Worker, AtWork(w)' PROVE Working(w)'
    <3>1. AtWork(w) /\ Working(w)
      BY <2>1, <2>8 DEF Unreported, AtWork
    <3>2. job[w] \in Operation /\ job[w] <= accepted /\ op[job[w]].kind # "create"
      BY <1>0, <2>2, <2>1, <3>1, JobAtWork, Numbers DEF Working, Creating
    <3>3. op'[job[w]] = op[job[w]] /\ job' = job
      BY <2>1, <2>5, <3>2, Numbers
    <3>4. op[job[w]].kind = "audit_free"
      <4>1. Changing(w) => op[accepted].target # op[accepted].source
        BY <3>1, <3>2, JobAtWork, TargetIsElsewhere DEF Changing, Moving
      <4>2. ~Changing(w)
        BY <2>2, <4>1 DEF Changing, Moving
      <4>3. QED
        BY <3>1, <3>2, <4>2 DEF Working
    <3>5. QED
      BY <2>1, <3>1, <3>3, <3>4 DEF Working, Keeping
  <2>9. \A d \in Client : ~edit'[d].open
    BY <1>0, <2>1 DEF TypeOK, OneClient, NoEdit
  <2>10. QED
    BY <2>7, <2>8, <2>9 DEF Unreported
<1>4. CASE PlatformActs
  BY <1>0, <1>4 DEF PlatformActs, Report, TypeOK
<1>5. CASE LoadForEvent \/ CommitEvent \/ DropEvent
  BY <1>5 DEF LoadForEvent, CommitEvent, DropEvent, Unreported, RowTells
<1>6. ASSUME NEW o \in Operation, ManualRetry(o) PROVE Unreported'
  <2>1. /\ op' = [op EXCEPT ![o].status = "queued"]
        /\ UNCHANGED <<row, platform, accepted, edit, slots, hooks>>
    BY <1>6 DEF ManualRetry
  <2>2. QED
    BY <1>0, <2>1, MarkKeeps, UnreportedStays DEF AtWork, OpStatus
<1>7. ASSUME NEW w \in Worker, NEW o \in Operation, Start(w, o) PROVE Unreported'
  <2>0. /\ UNCHANGED <<row, platform, accepted, edit, hooks>>
        /\ phase[w] = "idle" /\ op[o].status = "queued"
    BY <1>7 DEF Start
  <2>1. CASE op' = [op EXCEPT ![o].status = "failed"] /\ UNCHANGED slots
    BY <1>0, <2>0, <2>1, MarkKeeps, UnreportedStays DEF AtWork, OpStatus
  <2>2. CASE /\ op[o].kind = "create" \/ Valid(o)
             /\ op'    = [op EXCEPT ![o].status = "running"]
             /\ job'   = [job EXCEPT ![w] = o]
             /\ base'  = [base EXCEPT ![w] = Loaded]
             /\ phase' = [phase EXCEPT ![w] = IF Reached(o) THEN "done" ELSE "calling"]
             /\ UNCHANGED answer
    <3>1. /\ \A p \in Operation : /\ op'[p].kind = op[p].kind /\ op'[p].source = op[p].source
                                  /\ op'[p].target = op[p].target
                                  /\ op'[p].version = op[p].version
      BY <1>0, <2>2, MarkKeeps DEF OpStatus
    <3>2. /\ job'[w] = o /\ base'[w] = Loaded
          /\ phase'[w] = IF Reached(o) THEN "done" ELSE "calling"
          /\ \A v \in Worker : v # w => /\ phase'[v] = phase[v] /\ job'[v] = job[v]
                                        /\ base'[v] = base[v] /\ answer'[v] = answer[v]
      BY <1>0, <2>2 DEF TypeOK
    <3>3. CASE Reached(o)
      BY <2>0, <3>1, <3>2, <3>3, UnreportedStays DEF AtWork
    <3>4. CASE ~Reached(o)
      <4>1. op[o].kind = "create" => ~created /\ remote = "pending_create"
        BY <3>4 DEF Reached, Unreported, RowTells
      <4>2. op[o].kind # "create" =>
              /\ o = accepted /\ o # 0 /\ remote \in {op[o].source, op[o].target}
              /\ desired = op[o].target
              /\ op[o].target = Target(op[o].kind, op[o].source)
        <5> SUFFICES ASSUME op[o].kind # "create"
                     PROVE  /\ o = accepted /\ o # 0 /\ remote \in {op[o].source, op[o].target}
                            /\ desired = op[o].target
                            /\ op[o].target = Target(op[o].kind, op[o].source)
          OBVIOUS
        <5>1. /\ version = op[o].version /\ desired = op[o].target
              /\ remote \in {op[o].source, op[o].target}
          BY <2>2 DEF Valid
        <5>2. o # 0 /\ accepted \in Operation
          BY <1>0 DEF Grounded, TypeOK, Operation
        <5>3. ~(o > accepted)
          BY <1>0, <2>0, <5>2 DEF Grounded
        <5>4. o <= accepted
          BY <5>2, <5>3, Numbers
        <5>5. op[o].version = o + 1 /\ version = accepted + 1
          BY <5>2, <5>4 DEF Unreported, RowTells
        <5>6. o \in Nat /\ accepted \in Nat
          BY <5>2, ProductAssumption DEF Operation
        <5>7. o = accepted
          BY <5>1, <5>5, <5>6
        <5>8. QED
          BY <1>0, <5>1, <5>2, <5>4, <5>7 DEF Grounded
      <4>3. op[o].kind = "audit_free" => remote = op[o].target /\ desired = op[o].target
        BY <4>2 DEF Target
      <4>4. op[o].kind \notin {"create", "audit_free"} => Moving(o)
        BY <3>4, <4>2 DEF Reached, Unreported, RowTells
      <4>5. RowTells'
        BY <2>0, <3>1, ProductAssumption, <1>0 DEF Unreported, RowTells, Moving, TypeOK, Operation
      <4>6. Working(w)'
        <5>1. op'[job'[w]].kind = op[o].kind /\ op'[job'[w]].target = op[o].target
          BY <3>1, <3>2
        <5>2. phase'[w] = "calling" /\ base'[w].remote = remote /\ base'[w].desired = desired
          BY <3>2, <3>4 DEF Loaded
        <5>3. op[o].kind = "create" => Creating(w)'
          BY <2>0, <4>1, <5>2 DEF Creating
        <5>4. op[o].kind = "audit_free" => Keeping(w)'
          BY <4>3, <5>1, <5>2 DEF Keeping
        <5>5. op[o].kind \notin {"create", "audit_free"} => Changing(w)'
          BY <2>0, <3>1, <3>2, <4>2, <4>4, <5>2 DEF Changing, Moving
        <5>6. QED
          BY <5>1, <5>3, <5>4, <5>5 DEF Working
      <4>7. ASSUME NEW v \in Worker, v # w, AtWork(v)' PROVE Working(v)'
        <5>1. AtWork(v) /\ Working(v) /\ job[v] \in Operation /\ accepted \in Operation
          BY <1>0, <3>2, <4>7 DEF Unreported, AtWork, TypeOK, Operation
        <5>2. QED
          BY <2>0, <3>1, <3>2, <4>7, <5>1 DEF Working, Creating, Keeping, Changing, Moving
      <4>8. QED
        BY <2>0, <4>5, <4>6, <4>7 DEF Unreported, Loaded
    <3>5. QED
      BY <3>3, <3>4
  <2>3. QED
    BY <1>7, <2>1, <2>2 DEF Start
\* A slot leaves its operation, after a call or without one.
<1>8. ASSUME NEW w \in Worker, phase[w] # "idle", Leave(w),
             NEW s \in OpStatus, op' = [op EXCEPT ![job[w]].status = s],
             UNCHANGED <<row, accepted, edit, hooks>>,
             \/ platform' = platform
             \/ /\ phase[w] = "calling"
                /\ platform' \in Effects(op[job[w]].kind, platform, op[job[w]].target)
      PROVE  Unreported'
  <2>1. /\ job[w] \in Operation
        /\ \A p \in Operation : /\ op'[p].kind = op[p].kind /\ op'[p].source = op[p].source
                                /\ op'[p].target = op[p].target
                                /\ op'[p].version = op[p].version
    BY <1>0, <1>8, MarkKeeps DEF TypeOK
  <2>2. /\ ~AtWork(w)'
        /\ \A v \in Worker : v # w => /\ phase'[v] = phase[v] /\ job'[v] = job[v]
                                      /\ base'[v] = base[v] /\ answer'[v] = answer[v]
    BY <1>0, <1>8, LeaveTyped DEF AtWork
  <2>3. CASE platform' = platform
    BY <1>8, <2>1, <2>2, <2>3, UnreportedStays DEF AtWork
  <2>4. CASE /\ phase[w] = "calling"
             /\ platform' \in Effects(op[job[w]].kind, platform, op[job[w]].target)
    BY <1>8, <2>1, <2>2, <2>4, UnreportedCall DEF AtWork
  <2>5. QED
    BY <1>8, <2>3, <2>4
<1>9. ASSUME NEW w \in Worker, Call(w) PROVE Unreported'
  <2> DEFINE o == job[w]
  <2>0. PICK s \in Effects(op[o].kind, platform, op[o].target) :
          /\ platform' = s
          /\ \E r \in Reported(op[o].kind, s) :
                IF op[o].kind = "create" \/ r = op[o].target
                THEN /\ answer' = [answer EXCEPT ![w] = r]
                     /\ phase'  = [phase EXCEPT ![w] = "called"]
                     /\ UNCHANGED <<op, job, base>>
                ELSE /\ op' = [op EXCEPT ![o].status = "failed"]
                     /\ Leave(w)
          /\ \/ s # platform /\ Report(s)
             \/ UNCHANGED <<event, reports>>
    BY <1>9 DEF Call
  <2>1. PICK r \in Reported(op[o].kind, s) :
             IF op[o].kind = "create" \/ r = op[o].target
             THEN /\ answer' = [answer EXCEPT ![w] = r]
                  /\ phase'  = [phase EXCEPT ![w] = "called"]
                  /\ UNCHANGED <<op, job, base>>
             ELSE /\ op' = [op EXCEPT ![o].status = "failed"]
                  /\ Leave(w)
    BY <2>0
  <2>2. phase[w] = "calling" /\ UNCHANGED <<row, accepted, edit, hooks>>
    <3>1. phase[w] = "calling" /\ UNCHANGED <<row, accepted, edit, hook>>
      BY <1>9 DEF Call
    <3>2. UNCHANGED <<event, reports>>
      BY <2>0 DEF Report
    <3>3. QED
      BY <3>1, <3>2
  <2>3. CASE op[o].kind = "create" \/ r = op[o].target
    <3>1. /\ UNCHANGED <<op, job, base>>
          /\ phase'[w] = "called" /\ answer'[w] = r
          /\ \A v \in Worker : v # w => phase'[v] = phase[v] /\ answer'[v] = answer[v]
      BY <1>0, <2>1, <2>3 DEF TypeOK
    <3>2. AtWork(w) /\ Working(w) /\ RowTells
      BY <2>2 DEF AtWork, Unreported
    <3>3. op[o].kind = "create" => s = "under_review" /\ r \in {"under_review", "draft"}
      BY <2>1, <3>2 DEF Working, Creating, RowTells, Effects, Reported
    <3>4. op[o].kind = "audit_free" => r = op[o].target
      BY <2>3
    <3>5. op[o].kind \notin {"create", "audit_free"} => s = op[o].target /\ r = op[o].target
      <4> SUFFICES ASSUME op[o].kind \notin {"create", "audit_free"}
                   PROVE  s = op[o].target /\ r = op[o].target
        OBVIOUS
      <4>1. r = op[o].target
        BY <2>3
      <4>2. CASE op[o].kind = "update"
        <5>1. op[o].target = "under_review" /\ r \in {s, "draft"}
          <6>1. o # 0
            BY <3>2, <4>2, JobAtWork
          <6>2. QED
            BY <2>1, <3>2, <4>2, <6>1, JobAtWork DEF Target, Reported
        <5>2. QED
          BY <4>1, <5>1
      <4>3. CASE op[o].kind # "update"
        BY <2>0, <4>1, <4>3 DEF Effects
      <4>4. QED
        BY <4>2, <4>3
    <3>6. QED
      BY <2>0, <2>2, <3>1, <3>3, <3>4, <3>5, UnreportedCall DEF AtWork
  <2>4. CASE ~(op[o].kind = "create" \/ r = op[o].target)
    BY <1>8, <2>0, <2>1, <2>2, <2>4 DEF OpStatus
  <2>5. QED
    BY <2>3, <2>4
<1>10. ASSUME NEW w \in Worker, CallFails(w) PROVE Unreported'
  <2>1. PICK t \in {"queued", "failed"} : op' = [op EXCEPT ![job[w]].status = t]
    BY <1>10 DEF CallFails
  <2>2. /\ phase[w] = "calling" /\ Leave(w) /\ UNCHANGED <<row, accepted, edit, hooks>>
        /\ platform' \in {platform} \cup Effects(op[job[w]].kind, platform, op[job[w]].target)
    BY <1>10 DEF CallFails
  <2>3. QED
    BY <1>8, <2>1, <2>2 DEF OpStatus
<1>11. ASSUME NEW w \in Worker, CallRefused(w) PROVE Unreported'
  BY <1>8, <1>11 DEF CallRefused, OpStatus
<1>12. ASSUME NEW w \in Worker, MarkSucceeded(w) PROVE Unreported'
  BY <1>8, <1>12 DEF MarkSucceeded, OpStatus
<1>13. ASSUME NEW w \in Worker, Crash(w) PROVE Unreported'
  BY <1>8, <1>13 DEF Crash, OpStatus
<1>14. ASSUME NEW w \in Worker, Commit(w) PROVE Unreported'
  <2> DEFINE o == job[w]
  <2>1. /\ phase[w] = "called" /\ phase' = [phase EXCEPT ![w] = "done"] /\ created' = TRUE
        /\ remote'  = IF answer[w] # base[w].remote THEN answer[w] ELSE remote
        /\ desired' = IF op[o].kind # "create" /\ answer[w] # base[w].desired
                      THEN answer[w] ELSE desired
        /\ UNCHANGED <<version, platform, accepted, op, edit, job, base, answer, hooks>>
    BY <1>14 DEF Commit
  <2>2. AtWork(w) /\ Working(w) /\ RowTells
    BY <2>1 DEF AtWork, Unreported
  <2>3. /\ ~AtWork(w)'
        /\ \A v \in Worker : v # w => phase'[v] = phase[v]
    BY <1>0, <2>1 DEF TypeOK, AtWork
  <2>4. CASE op[o].kind = "create"
    <3>1. ~created /\ accepted = 0 /\ desired = "under_review" /\ platform = "under_review"
      BY <1>0, <2>1, <2>2, <2>4 DEF Working, Creating, Grounded
    <3>2. desired' = "under_review" /\ remote' = answer[w]
      BY <2>1, <2>2, <2>4, <3>1 DEF Working, Creating
    <3>3. RowTells'
      BY <2>1, <2>2, <3>1, <3>2 DEF RowTells
    <3>4. \A c \in Client : ~edit'[c].open
      BY <1>0, <2>1, <3>1 DEF Grounded
    <3>5. ASSUME NEW v \in Worker, AtWork(v)' PROVE FALSE
      <4>1. AtWork(v) /\ v # w
        BY <2>3, <3>5 DEF AtWork
      <4>2. op[job[v]].kind = "create"
        BY <3>1, <4>1, JobAtWork
      <4>3. QED
        BY <2>2, <2>4, <4>1, <4>2, OneAtWork
    <3>6. QED
      BY <3>3, <3>4, <3>5 DEF Unreported
  <2>5. CASE op[o].kind = "audit_free"
    <3>1. UNCHANGED row
      BY <2>1, <2>2, <2>5, JobAtWork DEF Working, Keeping
    <3>2. QED
      BY <2>1, <2>3, <3>1, UnreportedStays DEF AtWork
  <2>6. CASE op[o].kind \notin {"create", "audit_free"}
    <3>1. /\ remote # desired /\ created
      BY <2>2, <2>6, JobAtWork, TargetIsElsewhere DEF Working, Changing, Moving
    <3>2. remote' = platform /\ desired' = platform
      BY <2>1, <2>2, <2>6, <3>1 DEF Working, Changing
    <3>3. RowTells'
      BY <2>1, <2>2, <3>1, <3>2 DEF RowTells
    <3>4. \A c \in Client : ~edit'[c].open
      BY <2>1, <3>1 DEF Unreported
    <3>5. ASSUME NEW v \in Worker, AtWork(v)' PROVE Working(v)'
      <4>1. AtWork(v) /\ v # w /\ Working(v)
        BY <2>3, <3>5 DEF AtWork, Unreported
      <4>2. op[job[v]].kind = "audit_free"
        BY <2>2, <2>6, <4>1, OneAtWork
      <4>3. QED
        BY <2>1, <2>3, <4>1, <4>2 DEF Working, Keeping
    <3>6. QED
      BY <3>3, <3>4, <3>5 DEF Unreported
  <2>7. QED
    BY <2>4, <2>5, <2>6
<1>15. QED
  BY <1>1, <1>2, <1>3, <1>4, <1>5, <1>6, <1>7, <1>9, <1>10, <1>11, <1>12, <1>13, <1>14 DEF Next

(***************************************************************************)
(* With one client, a product of which no callback has been sent is on the *)
(* platform what its row says, whenever the row is settled: lost answers,  *)
(* crashes, attempts and manual retries leave it unsettled rather than     *)
(* wrong (validate_intent, and the commit of an answer).                   *)
(***************************************************************************)
THEOREM SettledMeansTrue ==
  ASSUME OneClient
  PROVE  Spec => []SettledIsTrue
<1>1. Init => Held /\ Unreported
  BY InitTyped, InitGrounded, InitUnreported DEF Held
<1>2. Held /\ Unreported /\ [Next]_vars => (Held /\ Unreported)'
  BY StepTyped, ProductGrounded, StepUnreported, OneClient DEF Held
<1>3. Unreported => SettledIsTrue
  BY DEF Unreported, RowTells, SettledIsTrue
<1>4. QED
  BY <1>1, <1>2, <1>3, PTL DEF Spec

-----------------------------------------------------------------------------
(* Stores and mappings *)

Typed ==
    /\ store \in [Store -> StoreRow]
    /\ mapping \subseteq Mapping /\ IsFiniteSet(mapping)
    /\ candidate \in [Pair -> {"none", "open", "dismissed"}]
    /\ request \in [User -> Request]
    /\ edits \in [Store -> Nat]

-----------------------------------------------------------------------------
\* A request at rest is a request.
LEMMA NoRequestTyped == NoRequest \in Request
<1>1. (CHOOSE s \in Store : TRUE) \in Store /\ (CHOOSE p \in Poi : TRUE) \in Poi
  BY StoreMappingAssumption
<1> QED
  BY <1>1 DEF NoRequest, Request

\* An answer, and a further step of a request, keep the types of requests.
LEMMA RequestTyped ==
  ASSUME Typed, NEW c \in User, NEW r \in Request,
         NEW pc \in {"idle", "insert store", "write store", "insert mapping", "unbind"},
         NEW reply \in {"none", "ok", "conflict", "limit"}
  PROVE  /\ Answer(c, reply) => request' \in [User -> Request]
         /\ Continue(c, pc, r) => request' \in [User -> Request]
<1>1. [NoRequest EXCEPT !.answer = reply] \in Request
  BY NoRequestTyped DEF Request
<1>2. [r EXCEPT !.pc = pc] \in Request
  BY DEF Request
<1> QED
  BY <1>1, <1>2 DEF Typed, Answer, Continue

\* Unbinding changes who has ended a mapping and nothing else.
LEMMA UnboundTyped ==
  ASSUME Typed, NEW c \in User, NEW m \in mapping
  PROVE  /\ Unbound(m, c) \in Mapping
         /\ Unbound(m, c).id = m.id
         /\ ~IsActive(Unbound(m, c))
  BY StoreMappingAssumption DEF Typed, Unbound, IsActive, Mapping

\* Unbinding some of the mappings keeps the table's types.
LEMMA MappingsTyped ==
  ASSUME Typed, NEW c \in User, NEW gone \in SUBSET mapping,
         mapping' = {IF m \in gone THEN Unbound(m, c) ELSE m : m \in mapping}
  PROVE  mapping' \subseteq Mapping /\ IsFiniteSet(mapping')
<1>1. mapping' \subseteq Mapping
  BY UnboundTyped DEF Typed
<1>2. IsFiniteSet(mapping')
  <2> DEFINE f == [m \in mapping |-> IF m \in gone THEN Unbound(m, c) ELSE m]
  <2>1. f \in [mapping -> mapping'] /\ \A n \in mapping' : \E m \in mapping : f[m] = n
    OBVIOUS
  <2> HIDE DEF f
  <2>2. f \in Surjection(mapping, mapping')
    BY <2>1 DEF Surjection
  <2>3. IsFiniteSet(mapping)
    BY DEF Typed
  <2> QED
    BY <2>2, <2>3, FS_Surjection
<1> QED
  BY <1>1, <1>2

\* An edit keeps the types of stores and counts the version of one of them.
LEMMA EditTyped ==
  ASSUME Typed, NEW s \in Store, NEW status \in {"active", "inactive"},
         NEW v0, Matches(s, v0), Edit(s, status, v0)
  PROVE  /\ store' \in [Store -> StoreRow] /\ edits' \in [Store -> Nat]
         /\ \A x \in Store : store'[x].version = edits'[x] + 1
              <=> store[x].version = edits[x] + 1
<1>1. v0 \in Nat /\ v0 = store[s].version
  BY DEF Typed, Matches, StoreRow
<1>2. [status |-> status, version |-> v0 + 1] \in StoreRow
  BY <1>1 DEF StoreRow
<1>3. store' \in [Store -> StoreRow] /\ edits' \in [Store -> Nat]
  BY <1>2 DEF Typed, Edit
<1>4. ASSUME NEW x \in Store
      PROVE store'[x].version = edits'[x] + 1 <=> store[x].version = edits[x] + 1
  <2>1. edits[x] \in Nat /\ store[x].version \in Nat
    BY DEF Typed, StoreRow
  <2>2. CASE x = s
    <3>1. store'[x].version = v0 + 1 /\ edits'[x] = edits[x] + 1
      BY <2>2 DEF Edit, Typed
    <3> QED
      BY <3>1, <1>1, <2>1, <2>2
  <2>3. CASE x # s
    BY <2>3 DEF Edit, Typed
  <2> QED
    BY <2>2, <2>3
<1> QED
  BY <1>3, <1>4

-----------------------------------------------------------------------------
\* The types hold at the start.
LEMMA StoreInitTyped == StoreInit => Typed
<1> SUFFICES ASSUME StoreInit PROVE Typed
  OBVIOUS
<1>1. store \in [Store -> StoreRow]
  BY DEF StoreInit, StoreRow
<1>2. request \in [User -> Request]
  BY NoRequestTyped DEF StoreInit
<1>3. mapping \subseteq Mapping /\ IsFiniteSet(mapping)
  BY FS_EmptySet DEF StoreInit
<1> QED
  BY <1>1, <1>2, <1>3 DEF StoreInit, Typed

\* The requests that edit stores keep the types.
LEMMA StoreStepTyped ==
  ASSUME Typed, NEW c \in User, NEW s \in Store
  PROVE  /\ CreateCheck(c, s) => Typed'
         /\ CreateInsert(c) => Typed'
         /\ \A v \in 1..RequestBudget, st \in {"active", "inactive"} :
              UpdateRead(c, s, v, st) => Typed'
         /\ UpdateWrite(c) => Typed'
         /\ \A v \in 1..RequestBudget : Archive(c, s, v) => Typed'
<1>1. ASSUME CreateCheck(c, s) PROVE Typed'
  <2>1. [NoRequest EXCEPT !.store = s] \in Request
    BY NoRequestTyped DEF Request
  <2>2. request' \in [User -> Request]
    BY <1>1, <2>1, RequestTyped DEF CreateCheck
  <2> QED
    BY <1>1, <2>2 DEF CreateCheck, Typed
<1>2. ASSUME CreateInsert(c) PROVE Typed'
  <2>1. request' \in [User -> Request]
    BY <1>2, RequestTyped, NoRequestTyped DEF CreateInsert
  <2>2. store' \in [Store -> StoreRow]
    <3>1. request[c].store \in Store
      BY DEF Typed, Request
    <3>2. [store[request[c].store] EXCEPT !.status = "active"] \in StoreRow
      BY <3>1 DEF Typed, StoreRow
    <3>3. \/ store' = store
          \/ store' = [store EXCEPT ![request[c].store].status = "active"]
      BY <1>2 DEF CreateInsert
    <3> QED
      BY <3>1, <3>2, <3>3 DEF Typed
  <2> QED
    BY <1>2, <2>1, <2>2 DEF CreateInsert, Typed
<1>3. ASSUME NEW v \in 1..RequestBudget, NEW st \in {"active", "inactive"},
             UpdateRead(c, s, v, st)
      PROVE  Typed'
  <2>1. [NoRequest EXCEPT !.store = s, !.version = v, !.status = st] \in Request
    <3>1. v \in Nat
      BY StoreMappingAssumption
    <3> QED
      BY <3>1, NoRequestTyped DEF Request
  <2>2. request' \in [User -> Request]
    BY <1>3, <2>1, RequestTyped DEF UpdateRead
  <2> QED
    BY <1>3, <2>2 DEF UpdateRead, Typed
<1>4. ASSUME UpdateWrite(c) PROVE Typed'
  <2>1. request' \in [User -> Request]
    BY <1>4, RequestTyped, NoRequestTyped DEF UpdateWrite
  <2>2. store' \in [Store -> StoreRow] /\ edits' \in [Store -> Nat]
    <3>1. request[c].store \in Store /\ request[c].status \in {"active", "inactive"}
      BY DEF Typed, Request
    <3>2. CASE Matches(request[c].store, request[c].version)
      BY <1>4, <3>1, <3>2, EditTyped DEF UpdateWrite
    <3>3. CASE ~Matches(request[c].store, request[c].version)
      BY <1>4, <3>3 DEF UpdateWrite, Typed
    <3> QED
      BY <3>2, <3>3
  <2> QED
    BY <1>4, <2>1, <2>2 DEF UpdateWrite, Typed
<1>5. ASSUME NEW v \in 1..RequestBudget, Archive(c, s, v) PROVE Typed'
  <2>1. request' \in [User -> Request]
    BY <1>5, RequestTyped, NoRequestTyped DEF Archive
  <2>2. CASE Matches(s, v)
    <3>1. store' \in [Store -> StoreRow] /\ edits' \in [Store -> Nat]
      BY <1>5, <2>2, EditTyped DEF Archive
    <3>2. mapping' \subseteq Mapping /\ IsFiniteSet(mapping')
      <4> DEFINE gone == {m \in mapping : m.store = s /\ IsActive(m)}
      <4>1. mapping' = {IF m \in gone THEN Unbound(m, c) ELSE m : m \in mapping}
        BY <1>5, <2>2 DEF Archive
      <4> HIDE DEF gone
      <4>2. gone \in SUBSET mapping
        BY DEF gone
      <4> QED
        BY <4>1, <4>2, MappingsTyped
    <3> QED
      BY <1>5, <2>1, <3>1, <3>2 DEF Archive, Typed
  <2>3. CASE ~Matches(s, v)
    BY <1>5, <2>1, <2>3 DEF Archive, Typed
  <2> QED
    BY <2>2, <2>3
<1> QED
  BY <1>1, <1>2, <1>3, <1>4, <1>5

\* The requests that map stores and judge candidates keep the types.
LEMMA MappingStepTyped ==
  ASSUME Typed, NEW c \in User, NEW pair \in Pair
  PROVE  /\ Dismiss(c, pair) => Typed'
         /\ MapRead(c, pair) => Typed'
         /\ MapInsert(c) => Typed'
         /\ \A m \in mapping : UnbindRead(c, m) => Typed'
         /\ UnbindWrite(c) => Typed'
<1>1. ASSUME Dismiss(c, pair) PROVE Typed'
  <2>1. request' \in [User -> Request]
    BY <1>1, RequestTyped, NoRequestTyped DEF Dismiss
  <2> QED
    BY <1>1, <2>1 DEF Dismiss, Typed
<1>2. ASSUME MapRead(c, pair) PROVE Typed'
  <2>1. [NoRequest EXCEPT !.store = pair[1], !.poi = pair[2]] \in Request
    BY NoRequestTyped DEF Request, Pair
  <2>2. request' \in [User -> Request]
    BY <1>2, <2>1, RequestTyped DEF MapRead
  <2> QED
    BY <1>2, <2>2 DEF MapRead, Typed
<1>3. ASSUME MapInsert(c) PROVE Typed'
  <2>1. request' \in [User -> Request]
    BY <1>3, RequestTyped, NoRequestTyped DEF MapInsert
  <2>2. mapping' \subseteq Mapping /\ IsFiniteSet(mapping')
    <3> DEFINE new == [id |-> Cardinality(mapping) + 1, store |-> request[c].store,
                       poi |-> request[c].poi, by |-> "nobody"]
    <3>1. new \in Mapping
      <4>1. Cardinality(mapping) \in Nat
        BY FS_CardinalityType DEF Typed
      <4>2. request[c].store \in Store /\ request[c].poi \in Poi
        BY DEF Typed, Request
      <4> QED
        BY <4>1, <4>2 DEF Mapping
    <3>2. mapping' = mapping \/ mapping' = mapping \cup {new}
      BY <1>3 DEF MapInsert
    <3> HIDE DEF new
    <3> QED
      BY <3>1, <3>2, FS_AddElement DEF Typed
  <2> QED
    BY <1>3, <2>1, <2>2 DEF MapInsert, Typed
<1>4. ASSUME NEW m \in mapping, UnbindRead(c, m) PROVE Typed'
  <2>1. [NoRequest EXCEPT !.mapping = m.id] \in Request
    BY NoRequestTyped DEF Request, Typed, Mapping
  <2>2. request' \in [User -> Request]
    BY <1>4, <2>1, RequestTyped DEF UnbindRead
  <2> QED
    BY <1>4, <2>2 DEF UnbindRead, Typed
<1>5. ASSUME UnbindWrite(c) PROVE Typed'
  <2>1. request' \in [User -> Request]
    BY <1>5, RequestTyped, NoRequestTyped DEF UnbindWrite
  <2>2. mapping' \subseteq Mapping /\ IsFiniteSet(mapping')
    <3> DEFINE gone == {m \in mapping : m.id = request[c].mapping}
    <3>1. mapping' = {IF m \in gone THEN Unbound(m, c) ELSE m : m \in mapping}
      BY <1>5 DEF UnbindWrite
    <3>2. gone \in SUBSET mapping
      OBVIOUS
    <3> HIDE DEF gone
    <3> QED
      BY <3>1, <3>2, MappingsTyped
  <2> QED
    BY <1>5, <2>1, <2>2 DEF UnbindWrite, Typed
<1> QED
  BY <1>1, <1>2, <1>3, <1>4, <1>5

\* The generation of candidates keeps the types.
LEMMA GenerateTyped ==
  ASSUME Typed, NEW w \in Generator, GenerateRead(w) \/ GenerateCommit(w)
  PROVE  Typed'
  BY DEF GenerateRead, GenerateCommit, Scored, Typed

\* Every step keeps the types.
LEMMA TypedStep == Typed /\ [StoreNext]_storeVars => Typed'
<1> SUFFICES ASSUME Typed, [StoreNext]_storeVars PROVE Typed'
  OBVIOUS
<1>1. PICK s0 \in Store, p0 \in Poi : TRUE
  BY StoreMappingAssumption
<1>2. <<s0, p0>> \in Pair
  BY DEF Pair
<1>3. CASE UNCHANGED storeVars
  BY <1>3 DEF storeVars, Typed
<1>4. ASSUME NEW c \in User,
             \/ \E s \in Store : CreateCheck(c, s)
             \/ CreateInsert(c)
             \/ \E s \in Store, v \in 1..RequestBudget, st \in {"active", "inactive"} :
                  UpdateRead(c, s, v, st)
             \/ UpdateWrite(c)
             \/ \E s \in Store, v \in 1..RequestBudget : Archive(c, s, v)
      PROVE  Typed'
  BY <1>4, StoreStepTyped, StoreMappingAssumption
<1>5. ASSUME NEW c \in User,
             \/ \E pair \in Pair : Dismiss(c, pair) \/ MapRead(c, pair)
             \/ MapInsert(c)
             \/ \E m \in mapping : UnbindRead(c, m)
             \/ UnbindWrite(c)
      PROVE  Typed'
  BY <1>5, <1>2, MappingStepTyped
<1> QED
  BY <1>3, <1>4, <1>5, GenerateTyped DEF StoreNext

\* The database's tables and the requests keep their types.
LEMMA TypesAreKept == StoreSpec => []Typed
<1> QED
  BY StoreInitTyped, TypedStep, PTL DEF StoreSpec

-----------------------------------------------------------------------------
\* What a step can do to the table of mappings: end some, or add one for a
\* store and a POI that have none.
LEMMA MappingChanges ==
  ASSUME Typed, [StoreNext]_storeVars
  PROVE  \/ mapping' = mapping
         \/ \E c \in User, gone \in SUBSET mapping :
              mapping' = {IF m \in gone THEN Unbound(m, c) ELSE m : m \in mapping}
         \/ \E s \in Store, p \in Poi, i \in Nat :
              /\ i = Cardinality(mapping) + 1
              /\ ActiveFor(s, p) = {}
              /\ mapping' = mapping \cup {[id |-> i, store |-> s, poi |-> p, by |-> "nobody"]}
<1>1. ASSUME NEW c \in User, NEW s \in Store, NEW v, Archive(c, s, v), mapping' # mapping
      PROVE  \E gone \in SUBSET mapping :
               mapping' = {IF m \in gone THEN Unbound(m, c) ELSE m : m \in mapping}
  <2> DEFINE gone == {m \in mapping : m.store = s /\ IsActive(m)}
  <2>1. mapping' = {IF m \in gone THEN Unbound(m, c) ELSE m : m \in mapping}
    BY <1>1 DEF Archive
  <2>2. gone \in SUBSET mapping
    OBVIOUS
  <2> HIDE DEF gone
  <2> QED
    BY <2>1, <2>2
<1>2. ASSUME NEW c \in User, UnbindWrite(c)
      PROVE  \E gone \in SUBSET mapping :
               mapping' = {IF m \in gone THEN Unbound(m, c) ELSE m : m \in mapping}
  <2> DEFINE gone == {m \in mapping : m.id = request[c].mapping}
  <2>1. mapping' = {IF m \in gone THEN Unbound(m, c) ELSE m : m \in mapping}
    BY <1>2 DEF UnbindWrite
  <2>2. gone \in SUBSET mapping
    OBVIOUS
  <2> HIDE DEF gone
  <2> QED
    BY <2>1, <2>2
<1>3. ASSUME NEW c \in User, MapInsert(c), mapping' # mapping
      PROVE  \E s \in Store, p \in Poi, i \in Nat :
               /\ i = Cardinality(mapping) + 1
               /\ ActiveFor(s, p) = {}
               /\ mapping' = mapping \cup {[id |-> i, store |-> s, poi |-> p, by |-> "nobody"]}
  <2> DEFINE s == request[c].store
             p == request[c].poi
             i == Cardinality(mapping) + 1
  <2>1. ActiveFor(s, p) = {}
    BY <1>3 DEF MapInsert, Free
  <2>2. mapping' = mapping \cup {[id |-> i, store |-> s, poi |-> p, by |-> "nobody"]}
    BY <1>3 DEF MapInsert
  <2>3. s \in Store /\ p \in Poi
    BY DEF Typed, Request
  <2>4. Cardinality(mapping) \in Nat
    BY FS_CardinalityType DEF Typed
  <2>5. i \in Nat
    BY <2>4
  <2>6. i = Cardinality(mapping) + 1
    OBVIOUS
  <2> HIDE DEF s, p, i
  <2> QED
    BY <2>1, <2>2, <2>3, <2>5, <2>6
<1>4. mapping' = mapping \/ \E c \in User :
        \/ \E s \in Store, v \in 1..RequestBudget : Archive(c, s, v)
        \/ MapInsert(c)
        \/ UnbindWrite(c)
  BY DEF StoreNext, storeVars, CreateCheck, CreateInsert, UpdateRead, UpdateWrite, Dismiss,
         MapRead, UnbindRead, GenerateRead, GenerateCommit
<1> QED
  BY <1>1, <1>2, <1>3, <1>4

\* A store has at most one active mapping, and so has a POI.
THEOREM MappingsAreUnique == StoreSpec => []OneActiveMapping
<1>1. StoreInit => OneActiveMapping
  BY DEF StoreInit, OneActiveMapping
<1>2. ASSUME Typed, OneActiveMapping, [StoreNext]_storeVars
      PROVE  OneActiveMapping'
  <2>1. CASE mapping' = mapping
    BY <1>2, <2>1 DEF OneActiveMapping, IsActive
  <2>2. ASSUME NEW c \in User, NEW gone \in SUBSET mapping,
               mapping' = {IF m \in gone THEN Unbound(m, c) ELSE m : m \in mapping}
        PROVE  OneActiveMapping'
    <3>1. \A m \in mapping' : IsActive(m) => m \in mapping
      BY <1>2, <2>2, UnboundTyped
    <3> QED
      BY <1>2, <3>1 DEF OneActiveMapping, IsActive
  <2>3. ASSUME NEW s \in Store, NEW p \in Poi, NEW i \in Nat, ActiveFor(s, p) = {},
               mapping' = mapping \cup {[id |-> i, store |-> s, poi |-> p, by |-> "nobody"]}
        PROVE  OneActiveMapping'
    <3>1. \A m \in mapping : IsActive(m) => m.store # s /\ m.poi # p
      BY <2>3 DEF ActiveFor
    <3> DEFINE new == [id |-> i, store |-> s, poi |-> p, by |-> "nobody"]
    <3>2. mapping' = mapping \cup {new} /\ new.store = s /\ new.poi = p
      BY <2>3
    <3> HIDE DEF new
    <3> QED
      BY <1>2, <3>1, <3>2 DEF OneActiveMapping, IsActive
  <2> QED
    BY <1>2, <2>1, <2>2, <2>3, MappingChanges
<1> QED
  BY <1>1, <1>2, TypesAreKept, PTL DEF StoreSpec

-----------------------------------------------------------------------------
\* No edit is lost: a store's version counts the edits that succeeded.
THEOREM EditsAreCounted == StoreSpec => []EveryEditCounts
<1>1. StoreInit => EveryEditCounts
  BY DEF StoreInit, EveryEditCounts
<1>2. ASSUME Typed, EveryEditCounts, [StoreNext]_storeVars
      PROVE  EveryEditCounts'
  <2>1. CASE UNCHANGED <<store, edits>>
    BY <1>2, <2>1 DEF EveryEditCounts
  <2>2. ASSUME NEW c \in User, CreateInsert(c) PROVE EveryEditCounts'
    <3>1. edits' = edits /\ \A x \in Store : store'[x].version = store[x].version
      <4>1. edits' = edits /\ \/ store' = store
                              \/ store' = [store EXCEPT ![request[c].store].status = "active"]
        BY <2>2 DEF CreateInsert
      <4>2. request[c].store \in Store
        BY <1>2 DEF Typed, Request
      <4>3. \A x \in Store : store[x] \in StoreRow
        BY <1>2 DEF Typed
      <4>4. ASSUME store' = [store EXCEPT ![request[c].store].status = "active"], NEW x \in Store
            PROVE  store'[x].version = store[x].version
        BY <1>2, <4>2, <4>3, <4>4 DEF Typed, StoreRow
      <4> QED
        BY <4>1, <4>4
    <3> QED
      BY <1>2, <3>1 DEF EveryEditCounts
  <2>3. ASSUME NEW s \in Store, NEW status \in {"active", "inactive"}, NEW v0,
               Matches(s, v0), Edit(s, status, v0)
        PROVE  EveryEditCounts'
    BY <1>2, <2>3, EditTyped DEF EveryEditCounts
  <2>4. ASSUME NEW c \in User, UpdateWrite(c) PROVE EveryEditCounts'
    <3>1. request[c].store \in Store /\ request[c].status \in {"active", "inactive"}
      BY <1>2 DEF Typed, Request
    <3> QED
      BY <2>1, <2>3, <2>4, <3>1 DEF UpdateWrite
  <2>5. ASSUME NEW c \in User, NEW s \in Store, NEW v, Archive(c, s, v)
        PROVE  EveryEditCounts'
    BY <2>1, <2>3, <2>5 DEF Archive
  <2>6. \/ UNCHANGED <<store, edits>>
        \/ \E c \in User :
             \/ CreateInsert(c) \/ UpdateWrite(c)
             \/ \E s \in Store, v \in 1..RequestBudget : Archive(c, s, v)
    BY <1>2 DEF StoreNext, storeVars, CreateCheck, UpdateRead, Dismiss, MapRead, MapInsert,
                UnbindRead, UnbindWrite, GenerateRead, GenerateCommit
  <2> QED
    BY <2>1, <2>2, <2>4, <2>5, <2>6
<1> QED
  BY <1>1, <1>2, TypesAreKept, PTL DEF StoreSpec

\* A dismissed suggestion stays dismissed.
THEOREM DismissalsAreKept == StoreSpec => DismissalIsKept
<1> DEFINE Kept == \A c \in Pair : candidate[c] = "dismissed" => candidate'[c] = "dismissed"
<1>1. ASSUME Typed, [StoreNext]_storeVars PROVE Kept
  <2>1. CASE candidate' = candidate
    BY <2>1
  <2>2. ASSUME NEW c \in User, NEW pair \in Pair, Dismiss(c, pair) PROVE Kept
    BY <1>1, <2>2 DEF Dismiss, Typed
  <2>3. ASSUME NEW w \in Generator, GenerateCommit(w) PROVE Kept
    BY <1>1, <2>3 DEF GenerateCommit, Scored, Typed
  <2>4. \/ candidate' = candidate
        \/ \E c \in User, pair \in Pair : Dismiss(c, pair)
        \/ \E w \in Generator : GenerateCommit(w)
    BY <1>1 DEF StoreNext, storeVars, CreateCheck, CreateInsert, UpdateRead, UpdateWrite, Archive,
                MapRead, MapInsert, UnbindRead, UnbindWrite, GenerateRead
  <2> QED
    BY <2>1, <2>2, <2>3, <2>4
<1>2. Typed /\ [StoreNext]_storeVars => [Kept]_storeVars
  BY <1>1
<1> QED
  BY <1>2, TypesAreKept, PTL DEF StoreSpec, DismissalIsKept

-----------------------------------------------------------------------------
\* Rows are numbered in the order they are inserted, and none is deleted.
RowsNumbered ==
    /\ \A m \in mapping : m.id <= Cardinality(mapping)
    /\ \A m, n \in mapping : m.id = n.id => m = n

LEMMA NumberedStep ==
  ASSUME Typed, RowsNumbered, [StoreNext]_storeVars
  PROVE  RowsNumbered'
<1>0. IsFiniteSet(mapping) /\ Cardinality(mapping) \in Nat /\ \A m \in mapping : m.id \in Nat
  BY FS_CardinalityType DEF Typed, Mapping
<1>1. CASE mapping' = mapping
  BY <1>1 DEF RowsNumbered
<1>2. ASSUME NEW c \in User, NEW gone \in SUBSET mapping,
             mapping' = {IF m \in gone THEN Unbound(m, c) ELSE m : m \in mapping}
      PROVE  RowsNumbered'
  <2> DEFINE f == [m \in mapping |-> IF m \in gone THEN Unbound(m, c) ELSE m]
  <2>1. \A m \in mapping : f[m].id = m.id
    BY UnboundTyped
  <2>2. mapping' = {f[m] : m \in mapping} /\ f = [m \in mapping |-> f[m]]
    BY <1>2
  <2> HIDE DEF f
  <2>3. \A m, n \in mapping : f[m] = f[n] => m = n
    BY <2>1 DEF RowsNumbered
  <2>4. f \in Bijection(mapping, mapping')
    <3>1. f \in [mapping -> mapping']
      BY <2>2
    <3>2. \A n \in mapping' : \E m \in mapping : f[m] = n
      BY <2>2
    <3>3. QED
      BY <2>3, <3>1, <3>2 DEF Bijection, Injection, IsInjective, Surjection
  <2>5. Cardinality(mapping') = Cardinality(mapping)
    BY <1>0, <2>4, FS_Bijection DEF ExistsBijection
  <2>6. \A n \in mapping' : \E m \in mapping : n = f[m] /\ n.id = m.id
    BY <2>1, <2>2
  <2>7. QED
    BY <2>5, <2>6 DEF RowsNumbered
<1>3. ASSUME NEW s \in Store, NEW p \in Poi, NEW i \in Nat, i = Cardinality(mapping) + 1,
             mapping' = mapping \cup {[id |-> i, store |-> s, poi |-> p, by |-> "nobody"]}
      PROVE  RowsNumbered'
  <2> DEFINE new == [id |-> i, store |-> s, poi |-> p, by |-> "nobody"]
  <2>1. mapping' = mapping \cup {new} /\ new.id = i
    BY <1>3
  <2> HIDE DEF new
  <2>2. new \notin mapping
    BY <1>0, <1>3, <2>1 DEF RowsNumbered
  <2>3. Cardinality(mapping') = i
    BY <1>0, <1>3, <2>1, <2>2, FS_AddElement
  <2>4. QED
    BY <1>0, <1>3, <2>1, <2>3 DEF RowsNumbered
<1>4. QED
  BY <1>1, <1>2, <1>3, MappingChanges

\* The requests under way.
Busy == {c \in User : request[c].pc # "idle"}

\* Every edit, and every request under way, has been paid for.
WithinBudget ==
    /\ requests \in 0..RequestBudget /\ runs \in 0..RunBudget
    /\ run \in [Generator -> Run]
    /\ IsFiniteSet(Busy)
    /\ \A s \in Store : edits[s] + Cardinality(Busy) <= requests

\* A user's step begins a request, ends one, or does both; only one that ends a
\* request edits a store.
LEMMA UserSteps ==
  ASSUME Typed, NEW c \in User,
         \/ \E s \in Store : CreateCheck(c, s)
         \/ CreateInsert(c)
         \/ \E s \in Store, v \in 1..RequestBudget, st \in {"active", "inactive"} :
              UpdateRead(c, s, v, st)
         \/ UpdateWrite(c)
         \/ \E s \in Store, v \in 1..RequestBudget : Archive(c, s, v)
         \/ \E pair \in Pair : Dismiss(c, pair) \/ MapRead(c, pair)
         \/ MapInsert(c)
         \/ \E m \in mapping : UnbindRead(c, m)
         \/ UnbindWrite(c)
  PROVE  /\ UNCHANGED <<run, runs>>
         /\ \A s \in Store : edits'[s] = edits[s] \/ edits'[s] = edits[s] + 1
         /\ \A d \in User : d # c => request'[d].pc = request[d].pc
         /\ \/ Begin(c) /\ request'[c].pc = "idle"
            \/ Begin(c) /\ request'[c].pc # "idle" /\ edits' = edits
            \/ request[c].pc # "idle" /\ request'[c].pc = "idle" /\ UNCHANGED requests
<1>1. ASSUME NEW reply, Answer(c, reply)
      PROVE  request'[c].pc = "idle" /\ \A d \in User : d # c => request'[d].pc = request[d].pc
  BY <1>1 DEF Answer, NoRequest, Typed
<1>2. ASSUME NEW r \in Request, NEW pc, Continue(c, pc, r)
      PROVE  request'[c].pc = pc /\ \A d \in User : d # c => request'[d].pc = request[d].pc
  BY <1>2 DEF Continue, Request, Typed
<1>3. ASSUME NEW s \in Store, NEW status, NEW v0, Edit(s, status, v0)
      PROVE  \A x \in Store : edits'[x] = edits[x] \/ edits'[x] = edits[x] + 1
  BY <1>3 DEF Edit, Typed
<1>4. ASSUME NEW s \in Store, CreateCheck(c, s)
      PROVE  /\ Begin(c) /\ UNCHANGED <<run, runs, edits>>
             /\ \A d \in User : d # c => request'[d].pc = request[d].pc
  <2>1. [NoRequest EXCEPT !.store = s] \in Request
    BY NoRequestTyped DEF Request
  <2>2. QED
    BY <1>1, <1>2, <1>4, <2>1 DEF CreateCheck
<1>5. ASSUME NEW s \in Store, NEW v \in 1..RequestBudget, NEW st \in {"active", "inactive"},
             UpdateRead(c, s, v, st)
      PROVE  /\ Begin(c) /\ UNCHANGED <<run, runs, edits>>
             /\ \A d \in User : d # c => request'[d].pc = request[d].pc
  <2>1. v \in Nat
    BY StoreMappingAssumption
  <2>2. [NoRequest EXCEPT !.store = s, !.version = v, !.status = st] \in Request
    BY <2>1, NoRequestTyped DEF Request
  <2>3. QED
    BY <1>1, <1>2, <1>5, <2>2 DEF UpdateRead
<1>6. ASSUME NEW pair \in Pair, MapRead(c, pair)
      PROVE  /\ Begin(c) /\ UNCHANGED <<run, runs, edits>>
             /\ \A d \in User : d # c => request'[d].pc = request[d].pc
  <2>1. [NoRequest EXCEPT !.store = pair[1], !.poi = pair[2]] \in Request
    BY NoRequestTyped DEF Request, Pair
  <2>2. QED
    BY <1>1, <1>2, <1>6, <2>1 DEF MapRead
<1>7. ASSUME NEW m \in mapping, UnbindRead(c, m)
      PROVE  /\ Begin(c) /\ UNCHANGED <<run, runs, edits>>
             /\ \A d \in User : d # c => request'[d].pc = request[d].pc
  <2>1. [NoRequest EXCEPT !.mapping = m.id] \in Request
    BY NoRequestTyped DEF Request, Typed, Mapping
  <2>2. QED
    BY <1>1, <1>2, <1>7, <2>1 DEF UnbindRead
<1>8. ASSUME NEW pair \in Pair, Dismiss(c, pair)
      PROVE  /\ Begin(c) /\ UNCHANGED <<run, runs, edits>>
             /\ \A d \in User : d # c => request'[d].pc = request[d].pc
  BY <1>1, <1>8 DEF Dismiss
<1>9. ASSUME NEW s \in Store, NEW v \in 1..RequestBudget, Archive(c, s, v)
      PROVE  /\ Begin(c) /\ UNCHANGED <<run, runs>> /\ request'[c].pc = "idle"
             /\ \A x \in Store : edits'[x] = edits[x] \/ edits'[x] = edits[x] + 1
             /\ \A d \in User : d # c => request'[d].pc = request[d].pc
  BY <1>1, <1>3, <1>9 DEF Archive
<1>10. ASSUME CreateInsert(c) \/ UpdateWrite(c) \/ MapInsert(c) \/ UnbindWrite(c)
       PROVE  /\ UNCHANGED <<run, runs, requests>>
              /\ request[c].pc # "idle" /\ request'[c].pc = "idle"
              /\ \A x \in Store : edits'[x] = edits[x] \/ edits'[x] = edits[x] + 1
              /\ \A d \in User : d # c => request'[d].pc = request[d].pc
  <2>1. request[c].store \in Store
    BY DEF Typed, Request
  <2>2. CASE CreateInsert(c)
    BY <1>1, <2>2 DEF CreateInsert
  <2>3. CASE UpdateWrite(c)
    BY <1>1, <1>3, <2>1, <2>3 DEF UpdateWrite
  <2>4. CASE MapInsert(c)
    BY <1>1, <2>4 DEF MapInsert
  <2>5. CASE UnbindWrite(c)
    BY <1>1, <2>5 DEF UnbindWrite
  <2>6. QED
    BY <1>10, <2>2, <2>3, <2>4, <2>5
<1>11. QED
  BY <1>4, <1>5, <1>6, <1>7, <1>8, <1>9, <1>10

\* Only the store's own budget is spent by a user's step.
LEMMA UserWithinBudget ==
  ASSUME Typed, Typed', WithinBudget, NEW c \in User,
         UNCHANGED <<run, runs>>,
         \A s \in Store : edits'[s] = edits[s] \/ edits'[s] = edits[s] + 1,
         \A d \in User : d # c => request'[d].pc = request[d].pc,
         \/ Begin(c) /\ request'[c].pc = "idle"
         \/ Begin(c) /\ request'[c].pc # "idle" /\ edits' = edits
         \/ request[c].pc # "idle" /\ request'[c].pc = "idle" /\ UNCHANGED requests
  PROVE  WithinBudget'
<1>0. /\ IsFiniteSet(Busy) /\ Cardinality(Busy) \in Nat /\ requests \in Nat
      /\ \A s \in Store : edits[s] \in Nat /\ edits'[s] \in Nat
      /\ RequestBudget \in Nat
  BY StoreMappingAssumption, FS_CardinalityType DEF WithinBudget, Typed
<1>1. Begin(c) => /\ c \notin Busy /\ requests' = requests + 1 /\ requests' \in 0..RequestBudget
  BY <1>0 DEF Begin, Busy
<1>2. CASE Begin(c) /\ request'[c].pc = "idle"
  <2>1. Busy' = Busy
    BY <1>1, <1>2 DEF Busy
  <2>2. QED
    BY <1>0, <1>1, <1>2, <2>1 DEF WithinBudget
<1>3. CASE Begin(c) /\ request'[c].pc # "idle" /\ edits' = edits
  <2>1. Busy' = Busy \cup {c}
    BY <1>1, <1>3 DEF Busy
  <2>2. IsFiniteSet(Busy') /\ Cardinality(Busy') = Cardinality(Busy) + 1
    BY <1>0, <1>1, <1>3, <2>1, FS_AddElement
  <2>3. QED
    BY <1>0, <1>1, <1>3, <2>2 DEF WithinBudget
<1>4. CASE request[c].pc # "idle" /\ request'[c].pc = "idle" /\ UNCHANGED requests
  <2>1. c \in Busy /\ Busy' = Busy \ {c}
    BY <1>4 DEF Busy
  <2>2. IsFiniteSet(Busy') /\ Cardinality(Busy') = Cardinality(Busy) - 1
    BY <1>0, <2>1, FS_RemoveElement
  <2>3. QED
    BY <1>0, <1>4, <2>2 DEF WithinBudget
<1>5. QED
  BY <1>2, <1>3, <1>4

LEMMA BudgetStep ==
  ASSUME Typed, Typed', WithinBudget, [StoreNext]_storeVars
  PROVE  WithinBudget'
<1>1. CASE UNCHANGED storeVars
  BY <1>1 DEF storeVars, WithinBudget, Busy
<1>2. ASSUME NEW c \in User,
             \/ \E s \in Store : CreateCheck(c, s)
             \/ CreateInsert(c)
             \/ \E s \in Store, v \in 1..RequestBudget, st \in {"active", "inactive"} :
                  UpdateRead(c, s, v, st)
             \/ UpdateWrite(c)
             \/ \E s \in Store, v \in 1..RequestBudget : Archive(c, s, v)
             \/ \E pair \in Pair : Dismiss(c, pair) \/ MapRead(c, pair)
             \/ MapInsert(c)
             \/ \E m \in mapping : UnbindRead(c, m)
             \/ UnbindWrite(c)
      PROVE  WithinBudget'
  BY <1>2, UserSteps, UserWithinBudget
<1>3. ASSUME NEW w \in Generator, GenerateRead(w) \/ GenerateCommit(w) PROVE WithinBudget'
  <2>1. UNCHANGED <<request, edits, requests>>
    BY <1>3 DEF GenerateRead, GenerateCommit
  <2>2. runs' \in 0..RunBudget
    BY <1>3, StoreMappingAssumption DEF GenerateRead, GenerateCommit, WithinBudget
  <2>3. run' \in [Generator -> Run]
    <3>1. \A r \in Run : run' = [run EXCEPT ![w] = r] => run' \in [Generator -> Run]
      BY DEF WithinBudget
    <3>2. CASE GenerateRead(w)
      <4>1. PICK pairs, seen : /\ pairs \in SUBSET Pair /\ seen \in SUBSET Pair
                               /\ run' = [run EXCEPT ![w] = [busy |-> TRUE, seen |-> seen,
                                                            pairs |-> pairs]]
        BY <3>2 DEF GenerateRead
      <4>2. [busy |-> TRUE, seen |-> seen, pairs |-> pairs] \in Run
        BY <4>1 DEF Run
      <4>3. QED
        BY <3>1, <4>1, <4>2
    <3>3. CASE GenerateCommit(w)
      <4>1. NoRun \in Run
        BY DEF NoRun, Run
      <4>2. QED
        BY <3>1, <3>3, <4>1 DEF GenerateCommit
    <3>4. QED
      BY <1>3, <3>2, <3>3
  <2>4. QED
    BY <2>1, <2>2, <2>3 DEF WithinBudget, Busy
<1>4. QED
  BY <1>1, <1>2, <1>3 DEF StoreNext

(***************************************************************************)
(* The tables, the requests and what the slots hold keep their types:      *)
(* mappings have numbers of their own, and a store is edited at most once  *)
(* by each request.                                                        *)
(***************************************************************************)
THEOREM StoreTypesHold == StoreSpec => []StoreTypeOK
<1>1. StoreInit => RowsNumbered /\ WithinBudget
  <2> SUFFICES ASSUME StoreInit PROVE RowsNumbered /\ WithinBudget
    OBVIOUS
  <2>1. RowsNumbered
    BY DEF StoreInit, RowsNumbered
  <2>2. Busy = {}
    BY DEF StoreInit, Busy, NoRequest
  <2>3. IsFiniteSet(Busy) /\ Cardinality(Busy) = 0
    BY <2>2, FS_EmptySet
  <2>4. WithinBudget
    BY <2>3, StoreMappingAssumption DEF StoreInit, WithinBudget, Run, NoRun
  <2>5. QED
    BY <2>1, <2>4
<1>2. Typed /\ Typed' /\ RowsNumbered /\ WithinBudget /\ [StoreNext]_storeVars
        => (RowsNumbered /\ WithinBudget)'
  BY NumberedStep, BudgetStep
<1>3. Typed /\ EveryEditCounts /\ RowsNumbered /\ WithinBudget => StoreTypeOK
  <2> SUFFICES ASSUME Typed, EveryEditCounts, RowsNumbered, WithinBudget PROVE StoreTypeOK
    OBVIOUS
  <2>1. Cardinality(Busy) \in Nat /\ requests \in Nat /\ RequestBudget \in Nat
    BY StoreMappingAssumption, FS_CardinalityType DEF WithinBudget
  <2>2. ASSUME NEW s \in Store
        PROVE  edits[s] \in 0..RequestBudget /\ store[s].version \in 1..(RequestBudget + 1)
    BY <2>1 DEF WithinBudget, Typed, EveryEditCounts
  <2>3. store \in [Store -> [status : {"absent", "active", "inactive"},
                             version : 1..(RequestBudget + 1)]]
    BY <2>2 DEF Typed, StoreRow
  <2>4. edits \in [Store -> 0..RequestBudget]
    BY <2>2 DEF Typed
  <2>5. QED
    BY <2>3, <2>4 DEF Typed, RowsNumbered, WithinBudget, StoreTypeOK
<1>4. QED
  BY <1>1, <1>2, <1>3, TypesAreKept, EditsAreCounted, PTL DEF StoreSpec
=============================================================================
