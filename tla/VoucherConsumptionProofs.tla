---------------------- MODULE VoucherConsumptionProofs ----------------------
(***************************************************************************)
(* What VoucherConsumption promises, for any stores, slots and budgets,    *)
(* when the platform's answers carry the voucher and its store.            *)
(*                                                                         *)
(* ConsumedAtOneStore is about vouchers that were never revoked: then the  *)
(* first consumption decides the store for good, and an attempt goes on    *)
(* only if it is of that store.  MirrorIsTrue is about commands that ran   *)
(* one at a time: the slot at work is then the only one that changes the   *)
(* platform, and a sync that writes an answer from after the last change   *)
(* can only make the row truer.                                            *)
(***************************************************************************)
EXTENDS VoucherConsumption, Integers, TLAPS

Row == [status : OpStatus, kind : Kind, store : Store, consumed_by : Operation \cup {None}]

Phase == {"idle", "calling", "asking", "answered", "reconciled", "done"}

SyncRow == [phase : {"idle", "calling", "answered", "found"},
            base : State, got : State, fresh : BOOLEAN]

\* Only operations that were accepted are called, under way, or not absent.
Known ==
    /\ \A o \in done \cup late : o <= accepted
    /\ \A o \in Operation : op[o].status # "absent" => o <= accepted
    /\ \A w \in Worker : phase[w] # "idle" => job[w] <= accepted

Sound == TypeOK /\ Known

-----------------------------------------------------------------------------
(* Types *)

LEMMA OperationIsNat == Operation \subseteq Nat /\ 1 \in Operation /\ None \notin Operation
  BY VoucherAssumption DEF Operation, None

LEMMA InitSound == Init => Sound
<1> SUFFICES ASSUME Init PROVE Sound
  OBVIOUS
<1>1. remote.store \in Store
  BY DEF Init
<1>2. op \in [Operation -> Row]
  BY <1>1 DEF Init, Row, OpStatus, Kind
<1>3. TypeOK
  <2>1. Unsynced \in SyncRow
    BY DEF Unsynced, SyncRow, State
  <2>2. sync \in [Sync -> SyncRow]
    BY <2>1 DEF Init
  <2>3. QED
    BY <1>2, <2>2, OperationIsNat, VoucherAssumption
       DEF Init, TypeOK, Row, SyncRow, State, Unloaded
<1>4. Known
  BY DEF Init, Known
<1>5. QED
  BY <1>3, <1>4 DEF Sound

LEMMA LeaveTyped ==
  ASSUME TypeOK, NEW w \in Worker, Leave(w)
  PROVE  /\ phase' \in [Worker -> Phase]
         /\ job' \in [Worker -> Operation]
         /\ base' \in [Worker -> [state : State, request : Operation \cup {None}]]
         /\ answer' \in [Worker -> State]
         /\ phase'[w] = "idle"
         /\ \A v \in Worker : v # w =>
               /\ phase'[v] = phase[v] /\ job'[v] = job[v]
               /\ base'[v] = base[v] /\ answer'[v] = answer[v]
  BY OperationIsNat DEF TypeOK, Leave, Phase, State, Unloaded

\* Writing the status of an operation keeps the rest of it.
LEMMA StatusTyped ==
  ASSUME TypeOK, NEW o \in Operation, NEW s \in OpStatus, op' = [op EXCEPT ![o].status = s]
  PROVE  /\ op' \in [Operation -> Row]
         /\ op'[o].status = s
         /\ \A p \in Operation : /\ p # o => op'[p] = op[p]
                                 /\ op'[p].kind = op[p].kind /\ op'[p].store = op[p].store
  BY DEF TypeOK, Row

\* A call that arrives, or changes nothing.
LEMMA ArrivesTyped ==
  ASSUME TypeOK, NEW o \in Operation, Arrives(o)
  PROVE  /\ remote' \in [state : State, store : Store, by : Operation \cup {None}]
         /\ done' \subseteq Operation
         /\ done' \subseteq done \cup {o}
         /\ sync' \in [Sync -> SyncRow]
<1>1. op[o].store \in Store
  BY DEF TypeOK
<1>2. [state |-> "consumed", store |-> op[o].store, by |-> o]
         \in [state : State, store : Store, by : Operation \cup {None}]
  BY <1>1 DEF State
<1>3. [remote EXCEPT !.state = "available", !.by = None]
         \in [state : State, store : Store, by : Operation \cup {None}]
  BY DEF TypeOK, State
<1>4. CASE o \notin done /\ Fits(o)
  <2>1. done' = done \cup {o}
    BY <1>4 DEF Arrives
  <2>2. \/ remote' = [state |-> "consumed", store |-> op[o].store, by |-> o]
        \/ remote' = [remote EXCEPT !.state = "available", !.by = None]
    BY <1>4 DEF Arrives
  <2>3. sync' \in [Sync -> SyncRow]
    <3>1. ASSUME NEW y \in Sync PROVE [sync[y] EXCEPT !.fresh = FALSE] \in SyncRow
      <4>1. sync[y] \in SyncRow
        BY DEF TypeOK, SyncRow
      <4>2. QED
        BY <4>1 DEF SyncRow
    <3>2. QED
      BY <1>4, <3>1 DEF Arrives
  <2>4. QED
    BY <1>2, <1>3, <2>1, <2>2, <2>3 DEF TypeOK
<1>5. CASE ~(o \notin done /\ Fits(o))
  BY <1>5 DEF Arrives, TypeOK, SyncRow
<1>6. QED
  BY <1>4, <1>5

\* An accepted request takes the next number.
LEMMA EnqueueSound ==
  ASSUME Sound, NEW kind \in Kind, NEW store \in Store,
         NEW consumed_by \in Operation \cup {None}, Enqueue(kind, store, consumed_by)
  PROVE  Sound'
<1> DEFINE n == accepted + 1
           new == [status |-> "queued", kind |-> kind, store |-> store,
                   consumed_by |-> consumed_by]
<1>1. accepted \in Nat /\ accepted < RequestBudget /\ n \in Operation /\ accepted' = n
      /\ n \in 0..RequestBudget
  BY VoucherAssumption DEF Sound, TypeOK, Enqueue, Operation
<1>2. op' = [op EXCEPT ![n] = new] /\ new \in Row
  BY DEF Enqueue, Row, OpStatus
<1>3. op' \in [Operation -> Row]
  BY <1>1, <1>2 DEF Sound, TypeOK, Row
<1>4. UNCHANGED <<state, request, remote, done, late, phase, job, base, answer,
                  hook, faults, sync, calm>>
  BY DEF Enqueue, row, slots
<1>5. TypeOK'
  BY <1>1, <1>3, <1>4 DEF Sound, TypeOK, Row
<1>6. ASSUME NEW o \in Operation, o <= accepted PROVE o <= accepted'
  BY <1>1, <1>6, OperationIsNat
<1>7. ASSUME NEW o \in Operation, op'[o].status # "absent" PROVE o <= accepted'
  <2>1. CASE o = n
    BY <1>1, <2>1
  <2>2. CASE o # n
    BY <1>1, <1>2, <1>6, <1>7, <2>2 DEF Sound, TypeOK, Known
  <2>3. QED
    BY <2>1, <2>2
<1>8. \A o \in done' \cup late' : o <= accepted'
  BY <1>4, <1>6 DEF Sound, TypeOK, Known
<1>9. \A w \in Worker : phase'[w] # "idle" => job'[w] <= accepted'
  BY <1>4, <1>6 DEF Sound, TypeOK, Known
<1>10. QED
  BY <1>5, <1>7, <1>8, <1>9 DEF Sound, Known

\* A slot changes what it is at, and perhaps its operation's status and what
\* has arrived at the platform.
LEMMA SlotSound ==
  ASSUME Sound, NEW w \in Worker, NEW o \in Operation, o <= accepted,
         op' = op \/ (\E s \in OpStatus : op' = [op EXCEPT ![o].status = s]),
         Arrives(o) \/ UNCHANGED <<remote, done, sync>>,
         late' = late \/ late' = late \cup {o},
         phase' \in [Worker -> Phase], job' \in [Worker -> Operation],
         base' \in [Worker -> [state : State, request : Operation \cup {None}]],
         answer' \in [Worker -> State],
         \A v \in Worker : v # w => phase'[v] = phase[v] /\ job'[v] = job[v],
         phase'[w] # "idle" => job'[w] = o,
         state' \in State, request' \in Operation \cup {None},
         faults' \in 0..FaultBudget, calm' \in BOOLEAN,
         UNCHANGED <<accepted, hook>>
  PROVE  Sound'
<1>1. op' \in [Operation -> Row]
      /\ \A p \in Operation : op'[p].status # "absent" => p = o \/ op[p].status # "absent"
  <2>1. CASE op' = op
    BY <2>1 DEF Sound, TypeOK, Row
  <2>2. CASE \E s \in OpStatus : op' = [op EXCEPT ![o].status = s]
    BY <2>2, StatusTyped DEF Sound
  <2>3. QED
    BY <2>1, <2>2
<1>2. /\ remote' \in [state : State, store : Store, by : Operation \cup {None}]
      /\ done' \subseteq Operation /\ done' \subseteq done \cup {o}
      /\ sync' \in [Sync -> SyncRow]
  BY ArrivesTyped DEF Sound, TypeOK, SyncRow
<1>3. late' \subseteq Operation /\ late' \subseteq late \cup {o}
  BY DEF Sound, TypeOK
<1>4. TypeOK'
  BY <1>1, <1>2, <1>3 DEF Sound, TypeOK, Row, Phase, SyncRow
<1>5. Known'
  BY <1>1, <1>2, <1>3 DEF Sound, Known
<1>6. QED
  BY <1>4, <1>5 DEF Sound

LEMMA AttemptSound ==
  ASSUME Sound, NEW w \in Worker,
         Call(w) \/ CallRefused(w) \/ CallTimesOut(w) \/ AskPlatform(w)
           \/ AttemptFails(w) \/ Commit(w) \/ MarkSucceeded(w) \/ Crash(w)
  PROVE  Sound'
<1> DEFINE o == job[w]
<1>0. o \in Operation /\ phase[w] # "idle" /\ o <= accepted
  BY DEF Sound, TypeOK, Known, Call, CallRefused, CallTimesOut, AskPlatform, AttemptFails,
         Commit, MarkSucceeded, Crash
<1>1. CASE Call(w)
  <2>1. /\ Arrives(o) /\ phase' = [phase EXCEPT ![w] = "answered"]
        /\ UNCHANGED <<state, request, late, accepted, op, job, base, hook, faults, calm>>
    BY <1>1 DEF Call, row
  <2>2. answer' \in [Worker -> State]
    <3>1. remote'.state \in State
      BY <1>0, <2>1, ArrivesTyped DEF Sound
    <3>2. \A s \in Answers(o, remote') : s \in State
      BY <3>1 DEF Answers, Wanted, State
    <3>3. QED
      BY <1>1, <3>2 DEF Call, Sound, TypeOK
  <2>3. phase' \in [Worker -> Phase] /\ \A v \in Worker : v # w => phase'[v] = phase[v]
    BY <2>1 DEF Sound, TypeOK, Phase
  <2>4. QED
    BY <1>0, <2>1, <2>2, <2>3, SlotSound DEF Sound, TypeOK
<1>2. CASE CallRefused(w)
  <2>1. /\ op' = [op EXCEPT ![o].status = "failed"] /\ Leave(w)
        /\ UNCHANGED <<state, request, remote, done, late, accepted, hook, faults, sync, calm>>
    BY <1>2 DEF CallRefused, row
  <2>2. QED
    BY <1>0, <2>1, SlotSound, LeaveTyped DEF Sound, TypeOK, OpStatus
<1>3. CASE CallTimesOut(w)
  <2>1. /\ Arrives(o) \/ UNCHANGED <<remote, done, sync>>
        /\ late' = late \/ late' = late \cup {o}
        /\ faults' = faults + 1 /\ faults < FaultBudget
        /\ phase' = [phase EXCEPT ![w] = "asking"]
        /\ UNCHANGED <<state, request, accepted, op, job, base, answer, hook, calm>>
    BY <1>3 DEF CallTimesOut, row
  <2>2. phase' \in [Worker -> Phase] /\ \A v \in Worker : v # w => phase'[v] = phase[v]
    BY <2>1 DEF Sound, TypeOK, Phase
  <2>3. faults' \in 0..FaultBudget
    BY <2>1, VoucherAssumption DEF Sound, TypeOK
  <2>4. QED
    BY <1>0, <2>1, <2>2, <2>3, SlotSound DEF Sound, TypeOK
<1>4. CASE AskPlatform(w)
  <2>1. UNCHANGED <<state, request, remote, done, late, accepted, hook, faults, sync, calm>>
    BY <1>4 DEF AskPlatform, row
  <2>2. CASE answer' = [answer EXCEPT ![w] = Wanted(o)]
             /\ phase' = [phase EXCEPT ![w] = "reconciled"] /\ UNCHANGED <<op, job, base>>
    <3>1. /\ phase' \in [Worker -> Phase] /\ answer' \in [Worker -> State]
          /\ \A v \in Worker : v # w => phase'[v] = phase[v]
      BY <2>2 DEF Sound, TypeOK, Phase, Wanted, State
    <3>2. QED
      BY <1>0, <2>1, <2>2, <3>1, SlotSound DEF Sound, TypeOK
  <2>3. CASE GiveUp(w)
    <3>1. PICK t \in {"queued", "failed"} : op' = [op EXCEPT ![o].status = t] /\ Leave(w)
      BY <2>3 DEF GiveUp
    <3>2. QED
      BY <1>0, <2>1, <3>1, SlotSound, LeaveTyped DEF Sound, TypeOK, OpStatus
  <2>4. QED
    BY <1>4, <2>2, <2>3 DEF AskPlatform
<1>5. CASE AttemptFails(w)
  <2>1. PICK t \in {"queued", "failed"} : op' = [op EXCEPT ![o].status = t] /\ Leave(w)
    BY <1>5 DEF AttemptFails, GiveUp
  <2>2. /\ Arrives(o) \/ UNCHANGED <<remote, done, sync>>
        /\ UNCHANGED <<state, request, late, accepted, hook, calm>>
        /\ faults' = faults + 1 /\ faults < FaultBudget
    BY <1>5 DEF AttemptFails, row
  <2>3. faults' \in 0..FaultBudget
    BY <2>2, VoucherAssumption DEF Sound, TypeOK
  <2>4. QED
    BY <1>0, <2>1, <2>2, <2>3, SlotSound, LeaveTyped DEF Sound, TypeOK, OpStatus
<1>6. CASE Commit(w)
  <2>1. /\ phase' = [phase EXCEPT ![w] = "done"]
        /\ state' \in {answer[w], state}
        /\ request' \in {o, None, base[w].request, request}
        /\ UNCHANGED <<remote, done, late, accepted, op, job, base, answer, hook, faults, sync, calm>>
    BY <1>6 DEF Commit
  <2>2. phase' \in [Worker -> Phase] /\ \A v \in Worker : v # w => phase'[v] = phase[v]
    BY <2>1 DEF Sound, TypeOK, Phase
  <2>3. state' \in State /\ request' \in Operation \cup {None}
    BY <1>0, <2>1 DEF Sound, TypeOK
  <2>4. QED
    BY <1>0, <2>1, <2>2, <2>3, SlotSound DEF Sound, TypeOK
<1>7. CASE MarkSucceeded(w)
  <2>1. /\ op' = [op EXCEPT ![o].status = "succeeded"] /\ Leave(w)
        /\ UNCHANGED <<state, request, remote, done, late, accepted, hook, faults, sync, calm>>
    BY <1>7 DEF MarkSucceeded, row
  <2>2. QED
    BY <1>0, <2>1, SlotSound, LeaveTyped DEF Sound, TypeOK, OpStatus
<1>8. CASE Crash(w)
  <2>1. /\ op' = [op EXCEPT ![o].status = "queued"] /\ Leave(w)
        /\ UNCHANGED <<state, request, remote, done, late, accepted, hook, sync, calm>>
        /\ faults' = faults + 1 /\ faults < FaultBudget
    BY <1>8 DEF Crash, row
  <2>2. faults' \in 0..FaultBudget
    BY <2>1, VoucherAssumption DEF Sound, TypeOK
  <2>3. QED
    BY <1>0, <2>1, <2>2, SlotSound, LeaveTyped DEF Sound, TypeOK, OpStatus
<1>9. QED
  BY <1>1, <1>2, <1>3, <1>4, <1>5, <1>6, <1>7, <1>8

\* A sync changes what it is at, and at its end perhaps the state of the row.
LEMMA SyncTyped ==
  ASSUME TypeOK, NEW y \in Sync,
         StartSync(y) \/ FetchOrder(y) \/ FindVoucher(y) \/ CommitSync(y) \/ SyncEnds(y)
  PROVE  /\ sync' \in [Sync -> SyncRow]
         /\ state' \in State /\ calm' \in BOOLEAN
         /\ UNCHANGED <<request, remote, done, late, accepted, op, phase, job, base, answer,
                        hook, faults>>
<1>0. sync[y] \in SyncRow /\ Unsynced \in SyncRow /\ sync \in [Sync -> SyncRow]
  BY DEF TypeOK, SyncRow, Unsynced, State
<1>1. CASE StartSync(y)
  BY <1>0, <1>1 DEF StartSync, TypeOK, SyncRow, row, slots
<1>2. CASE FetchOrder(y)
  <2>1. PICK s \in {remote.state} \cup (IF Silent THEN {"available"} ELSE {}) :
          sync' = [sync EXCEPT ![y].phase = "answered", ![y].got = s, ![y].fresh = TRUE]
    BY <1>2 DEF FetchOrder
  <2>2. s \in State
    BY <2>1 DEF TypeOK, State
  <2>3. QED
    BY <1>0, <1>2, <2>1, <2>2 DEF FetchOrder, TypeOK, SyncRow, row, slots
<1>3. CASE FindVoucher(y)
  BY <1>0, <1>3 DEF FindVoucher, TypeOK, SyncRow, row, slots
<1>4. CASE CommitSync(y)
  BY <1>0, <1>4 DEF CommitSync, TypeOK, SyncRow, slots
<1>5. CASE SyncEnds(y)
  BY <1>0, <1>5 DEF SyncEnds, TypeOK, row, slots
<1>6. QED
  BY <1>1, <1>2, <1>3, <1>4, <1>5

LEMMA StepSound == Sound /\ [Next]_vars => Sound'
<1> SUFFICES ASSUME Sound, [Next]_vars PROVE Sound'
  OBVIOUS
<1>1. CASE UNCHANGED vars
  BY <1>1 DEF vars, row, slots, Sound, TypeOK, Known
<1>2. CASE EnqueueConsume
  BY <1>2, EnqueueSound DEF EnqueueConsume, Kind
<1>3. CASE EnqueueRevoke
  BY <1>3, EnqueueSound DEF EnqueueRevoke, Kind, Sound, TypeOK
<1>4. CASE LateArrival
  <2>1. PICK o \in late : Arrives(o) /\ late' = late \ {o}
    BY <1>4 DEF LateArrival
  <2>2. /\ remote' \in [state : State, store : Store, by : Operation \cup {None}]
        /\ done' \subseteq Operation /\ done' \subseteq done \cup {o}
        /\ sync' \in [Sync -> SyncRow]
    BY <2>1, ArrivesTyped DEF Sound, TypeOK
  <2>3. UNCHANGED <<state, request, accepted, op, phase, job, base, answer, hook, faults>>
        /\ calm' = FALSE
    BY <1>4 DEF LateArrival, row, slots
  <2>4. TypeOK'
    BY <2>1, <2>2, <2>3 DEF Sound, TypeOK, SyncRow
  <2>5. Known'
    BY <2>1, <2>2, <2>3 DEF Sound, Known
  <2>6. QED
    BY <2>4, <2>5 DEF Sound
<1>5. CASE LoadForEvent
  <2>1. faults' \in 0..FaultBudget /\ hook' \in [open : BOOLEAN, state : State]
    BY <1>5, VoucherAssumption DEF LoadForEvent, Sound, TypeOK
  <2>2. QED
    BY <1>5, <2>1 DEF LoadForEvent, row, slots, Sound, TypeOK, Known
<1>6. CASE CommitEvent
  BY <1>6 DEF CommitEvent, slots, Sound, TypeOK, Known, State
<1>7. ASSUME NEW w \in Worker, NEW o \in Operation, Start(w, o)
      PROVE  Sound'
  <2>1. /\ op' = [op EXCEPT ![o].status = "running"] /\ op[o].status = "queued"
        /\ job' = [job EXCEPT ![w] = o] /\ base' = [base EXCEPT ![w] = Loaded]
        /\ phase' = [phase EXCEPT ![w] = "calling"]
        /\ UNCHANGED <<state, request, remote, done, late, accepted, answer, hook, faults, sync>>
        /\ calm' \in BOOLEAN
    BY <1>7 DEF Start, row, Sound, TypeOK
  <2>2. /\ phase' \in [Worker -> Phase] /\ job' \in [Worker -> Operation]
        /\ base' \in [Worker -> [state : State, request : Operation \cup {None}]]
        /\ \A v \in Worker : v # w => phase'[v] = phase[v] /\ job'[v] = job[v]
        /\ job'[w] = o
    BY <2>1 DEF Sound, TypeOK, Phase, Loaded
  <2>3. o <= accepted
    BY <2>1 DEF Sound, Known
  <2>4. QED
    BY <2>1, <2>2, <2>3, SlotSound DEF Sound, TypeOK, OpStatus
<1>8. ASSUME NEW y \in Sync,
             StartSync(y) \/ FetchOrder(y) \/ FindVoucher(y) \/ CommitSync(y) \/ SyncEnds(y)
      PROVE  Sound'
  BY <1>8, SyncTyped DEF Sound, TypeOK, Known, SyncRow
<1>9. QED
  BY <1>1, <1>2, <1>3, <1>4, <1>5, <1>6, <1>7, <1>8, AttemptSound DEF Next

(***************************************************************************)
(* The row, its operations, the platform's voucher and the slots keep      *)
(* their types (enqueue_consume, enqueue_revoke, consume, revoke).         *)
(***************************************************************************)
THEOREM TypeCorrect == Spec => []TypeOK
<1>1. Sound => TypeOK
  BY DEF Sound
<1>2. QED
  BY <1>1, InitSound, StepSound, PTL DEF Spec

-----------------------------------------------------------------------------
(* One store *)

NoRevocation == \A q \in done : op[q].kind = "consume"

\* The operation of slot w, if it consumes, is of the store on the platform.
Agrees(w) ==
    op[job[w]].kind = "consume" =>
        remote.state = "consumed" /\ remote.store = op[job[w]].store

Answered == {"answered", "reconciled", "done"}

\* Without a revocation, the voucher is consumed as soon as a call took effect,
\* at the store of whatever took effect, was answered or has succeeded.
Decided ==
    NoRevocation =>
        /\ done # {} => remote.state = "consumed"
        /\ \A q \in done : op[q].store = remote.store
        /\ \A w \in Worker : phase[w] \in Answered => Agrees(w)
        /\ \A o \in Operation : op[o].status = "succeeded" /\ op[o].kind = "consume" =>
              remote.state = "consumed" /\ remote.store = op[o].store

LEMMA InitDecided == Init => Decided
  BY DEF Init, Decided, Answered

\* Operations that were accepted stay what they are; a slot goes on only with an
\* operation that agrees; and only what was answered succeeds.
LEMMA DecidedStays ==
  ASSUME Sound, Decided,
         UNCHANGED <<remote, done>> \/ \E o \in Operation : o <= accepted /\ Arrives(o),
         \A p \in Operation : p <= accepted =>
            op'[p].kind = op[p].kind /\ op'[p].store = op[p].store,
         \A p \in Operation : op'[p].status = "succeeded" =>
            p <= accepted /\ (\/ op[p].status = "succeeded"
                              \/ \E w \in Worker : phase[w] = "done" /\ job[w] = p),
         \A v \in Worker : phase'[v] \in Answered =>
            job'[v] = job[v] /\ job[v] <= accepted
              /\ (phase[v] \in Answered \/ (NoRevocation' => Agrees(v)'))
  PROVE  Decided'
<1> SUFFICES ASSUME NoRevocation'
             PROVE  /\ done' # {} => remote'.state = "consumed"
                    /\ \A q \in done' : op'[q].store = remote'.store
                    /\ \A w \in Worker : phase'[w] \in Answered => Agrees(w)'
                    /\ \A o \in Operation : op'[o].status = "succeeded" /\ op'[o].kind = "consume" =>
                          remote'.state = "consumed" /\ remote'.store = op'[o].store
  BY DEF Decided
<1>1. done \subseteq done' /\ done \subseteq Operation /\ \A q \in done : q <= accepted
  BY DEF Arrives, Sound, Known, TypeOK
<1>2. NoRevocation
  BY <1>1 DEF NoRevocation
<1>3. \A w \in Worker : job[w] \in Operation
  BY DEF Sound, TypeOK
<1>4. CASE UNCHANGED <<remote, done>>
  <2>1. \A w \in Worker : phase'[w] \in Answered => Agrees(w)'
    BY <1>2, <1>3, <1>4 DEF Decided, Agrees
  <2>2. \A o \in Operation : op'[o].status = "succeeded" /\ op'[o].kind = "consume" =>
           remote'.state = "consumed" /\ remote'.store = op'[o].store
    <3> SUFFICES ASSUME NEW o \in Operation, op'[o].status = "succeeded", op'[o].kind = "consume"
                 PROVE  remote'.state = "consumed" /\ remote'.store = op'[o].store
      OBVIOUS
    <3>1. o <= accepted /\ op[o].kind = "consume" /\ op'[o].store = op[o].store
      OBVIOUS
    <3>2. CASE op[o].status = "succeeded"
      BY <1>2, <1>4, <3>1, <3>2 DEF Decided
    <3>3. CASE \E w \in Worker : phase[w] = "done" /\ job[w] = o
      BY <1>2, <1>4, <3>1, <3>3 DEF Decided, Agrees, Answered
    <3>4. QED
      BY <3>2, <3>3
  <2>3. QED
    BY <1>1, <1>2, <1>4, <2>1, <2>2 DEF Decided
<1>5. ASSUME NEW n \in Operation, n <= accepted, n \notin done, Fits(n),
             done' = done \cup {n},
             op[n].kind = "consume" =>
                remote' = [state |-> "consumed", store |-> op[n].store, by |-> n]
      PROVE  /\ done' # {} => remote'.state = "consumed"
             /\ \A q \in done' : op'[q].store = remote'.store
             /\ \A w \in Worker : phase'[w] \in Answered => Agrees(w)'
             /\ \A o \in Operation : op'[o].status = "succeeded" /\ op'[o].kind = "consume" =>
                   remote'.state = "consumed" /\ remote'.store = op'[o].store
  <2>1. op'[n].kind = "consume" /\ op[n].kind = "consume" /\ op'[n].store = op[n].store
    BY <1>5 DEF NoRevocation
  <2>2. remote.state = "available"
    BY <1>5, <2>1 DEF Fits
  <2>3. done = {}
    BY <1>2, <2>2 DEF Decided
  <2>4. remote'.state = "consumed" /\ remote'.store = op'[n].store /\ done' = {n}
    BY <1>5, <2>1, <2>3
  <2>5. \A w \in Worker : phase'[w] \in Answered => Agrees(w)'
    BY <1>2, <1>3, <2>2 DEF Decided, Agrees
  <2>6. \A o \in Operation : op'[o].status = "succeeded" /\ op'[o].kind = "consume" => FALSE
    <3> SUFFICES ASSUME NEW o \in Operation, op'[o].status = "succeeded", op'[o].kind = "consume"
                 PROVE  FALSE
      OBVIOUS
    <3>1. o <= accepted /\ op[o].kind = "consume"
      OBVIOUS
    <3>2. CASE op[o].status = "succeeded"
      BY <1>2, <2>2, <3>1, <3>2 DEF Decided
    <3>3. CASE \E w \in Worker : phase[w] = "done" /\ job[w] = o
      BY <1>2, <2>2, <3>1, <3>3 DEF Decided, Agrees, Answered
    <3>4. QED
      BY <3>2, <3>3
  <2>7. QED
    BY <2>4, <2>5, <2>6
<1>6. QED
  <2>1. CASE \E o \in Operation : o <= accepted /\ Arrives(o)
    <3>1. PICK o \in Operation : o <= accepted /\ Arrives(o)
      BY <2>1
    <3>2. CASE o \notin done /\ Fits(o)
      BY <1>5, <3>1, <3>2 DEF Arrives
    <3>3. CASE ~(o \notin done /\ Fits(o))
      BY <1>4, <3>1, <3>3 DEF Arrives
    <3>4. QED
      BY <3>2, <3>3
  <2>2. QED
    BY <1>4, <2>1

LEMMA AttemptDecided ==
  ASSUME Silent = FALSE, Sound, Decided, NEW w \in Worker,
         Call(w) \/ CallRefused(w) \/ CallTimesOut(w) \/ AskPlatform(w)
           \/ AttemptFails(w) \/ Commit(w) \/ MarkSucceeded(w) \/ Crash(w)
  PROVE  Decided'
<1> DEFINE o == job[w]
<1>0. o \in Operation /\ o <= accepted
  BY DEF Sound, TypeOK, Known, Call, CallRefused, CallTimesOut, AskPlatform, AttemptFails,
         Commit, MarkSucceeded, Crash
<1>1. \A v \in Worker : phase[v] # "idle" => job[v] <= accepted
  BY DEF Sound, Known
<1>2. \A p \in Operation : op[p].status = "succeeded" => p <= accepted
  BY DEF Sound, Known
<1>3. CASE Call(w)
  <2>1. UNCHANGED <<op, job>>
    BY <1>3 DEF Call
  <2>2. ASSUME NoRevocation' PROVE Agrees(w)'
    <3>1. CASE o \in done
      <4>1. UNCHANGED <<remote, done>>
        BY <1>3, <3>1 DEF Call, Arrives
      <4>2. NoRevocation
        BY <2>1, <2>2, <4>1 DEF NoRevocation
      <4>3. QED
        BY <2>1, <3>1, <4>1, <4>2 DEF Decided, Agrees
    <3>2. CASE o \notin done
      <4>1. op[o].kind = "consume" =>
               remote' = [state |-> "consumed", store |-> op[o].store, by |-> o]
        BY <1>3, <3>2 DEF Call, Arrives
      <4>2. QED
        BY <1>3, <4>1 DEF Call, Agrees
    <3>3. QED
      BY <3>1, <3>2
  <2>3. \A v \in Worker : /\ phase'[v] \in Answered => v = w \/ phase[v] \in Answered
                          /\ phase[v] \in Answered => phase[v] # "idle"
    BY <1>3 DEF Call, Sound, TypeOK, Answered
  <2>4. Arrives(o) /\ op' = op /\ job' = job
    BY <1>3 DEF Call
  <2>5. QED
    BY <1>0, <1>1, <1>2, <2>2, <2>3, <2>4, DecidedStays
<1>4. CASE AskPlatform(w) /\ ~GiveUp(w)
  <2>1. /\ Reconciles(o) /\ UNCHANGED <<remote, done, op, job>>
        /\ phase' = [phase EXCEPT ![w] = "reconciled"]
    BY <1>4 DEF AskPlatform
  <2>2. Agrees(w)'
    BY <2>1, Silent = FALSE DEF Agrees, Reconciles, Wanted
  <2>3. \A v \in Worker : /\ phase'[v] \in Answered => v = w \/ phase[v] \in Answered
                          /\ phase[v] \in Answered => phase[v] # "idle"
    BY <2>1 DEF Sound, TypeOK, Answered
  <2>4. QED
    BY <1>0, <1>1, <1>2, <2>1, <2>2, <2>3, DecidedStays
<1>5. CASE CallTimesOut(w) \/ Commit(w)
  <2>1. /\ UNCHANGED <<remote, done>> \/ Arrives(o)
        /\ op' = op /\ job' = job
        /\ \A v \in Worker : /\ phase'[v] \in Answered => phase[v] \in Answered
                             /\ phase[v] \in Answered => phase[v] # "idle"
    BY <1>5 DEF CallTimesOut, Commit, Sound, TypeOK, Answered
  <2>2. QED
    BY <1>0, <1>1, <1>2, <2>1, DecidedStays
<1>6. ASSUME Leave(w), UNCHANGED <<remote, done>> \/ Arrives(o),
             NEW s \in {"queued", "failed", "succeeded"}, op' = [op EXCEPT ![o].status = s],
             s = "succeeded" => phase[w] = "done"
      PROVE  Decided'
  <2>1. \A v \in Worker : /\ phase'[v] \in Answered => phase[v] \in Answered /\ job'[v] = job[v]
                          /\ phase[v] \in Answered => phase[v] # "idle"
    BY <1>6, LeaveTyped DEF Sound, Answered
  <2>2. /\ op'[o].status = s
        /\ \A p \in Operation : /\ p # o => op'[p] = op[p]
                                /\ op'[p].kind = op[p].kind /\ op'[p].store = op[p].store
    BY <1>0, <1>6, StatusTyped DEF Sound, OpStatus
  <2>3. \A p \in Operation : op'[p].status = "succeeded" =>
           p <= accepted /\ (\/ op[p].status = "succeeded"
                             \/ \E v \in Worker : phase[v] = "done" /\ job[v] = p)
    BY <1>0, <1>2, <1>6, <2>2
  <2>4. QED
    BY <1>0, <1>1, <1>6, <2>1, <2>2, <2>3, DecidedStays
<1>7. CASE CallRefused(w)
  BY <1>6, <1>7 DEF CallRefused
<1>8. CASE GiveUp(w) /\ (AskPlatform(w) \/ AttemptFails(w))
  <2>1. PICK t \in {"queued", "failed"} : op' = [op EXCEPT ![o].status = t] /\ Leave(w)
    BY <1>8 DEF GiveUp
  <2>2. UNCHANGED <<remote, done>> \/ Arrives(o)
    BY <1>8 DEF AskPlatform, AttemptFails
  <2>3. QED
    BY <1>6, <2>1, <2>2
<1>9. CASE MarkSucceeded(w)
  BY <1>6, <1>9 DEF MarkSucceeded
<1>10. CASE Crash(w)
  BY <1>6, <1>10 DEF Crash
<1>11. QED
  BY <1>3, <1>4, <1>5, <1>7, <1>8, <1>9, <1>10 DEF AttemptFails

LEMMA EnqueueStays ==
  ASSUME Sound, NEW kind \in Kind, NEW store \in Store,
         NEW consumed_by \in Operation \cup {None}, Enqueue(kind, store, consumed_by)
  PROVE  /\ \A p \in Operation : p <= accepted => op'[p] = op[p]
         /\ \A p \in Operation : op'[p] = op[p] \/ op'[p].status = "queued"
<1>1. accepted \in Nat /\ accepted + 1 \in Operation
  BY VoucherAssumption DEF Sound, TypeOK, Enqueue, Operation
<1>2. \A p \in Operation : p <= accepted => p # accepted + 1
  BY <1>1, OperationIsNat
<1>3. QED
  BY <1>1, <1>2 DEF Sound, TypeOK, Enqueue

LEMMA StepDecided ==
  ASSUME Silent = FALSE, Sound, Decided, [Next]_vars
  PROVE  Decided'
<1>0. \A v \in Worker : phase[v] \in Answered => job[v] <= accepted
  BY DEF Sound, Known, Answered
<1>1. CASE UNCHANGED vars
  BY <1>1 DEF vars, row, slots, Decided, NoRevocation, Agrees
<1>2. ASSUME NEW kind \in Kind, NEW store \in Store,
             NEW consumed_by \in Operation \cup {None}, Enqueue(kind, store, consumed_by)
      PROVE  Decided'
  <2>1. UNCHANGED <<remote, done, phase, job>>
    BY <1>2 DEF Enqueue, slots
  <2>2. \A p \in Operation : op'[p].status = "succeeded" =>
           p <= accepted /\ op[p].status = "succeeded"
    BY <1>2, EnqueueStays DEF Sound, Known
  <2>3. QED
    BY <1>0, <1>2, <2>1, <2>2, EnqueueStays, DecidedStays
<1>3. CASE EnqueueConsume
  BY <1>2, <1>3 DEF EnqueueConsume, Kind
<1>4. CASE EnqueueRevoke
  BY <1>2, <1>4 DEF EnqueueRevoke, Kind, Sound, TypeOK
<1>5. CASE LateArrival \/ LoadForEvent \/ CommitEvent
  <2>1. UNCHANGED <<remote, done>> \/ \E o \in Operation : o <= accepted /\ Arrives(o)
    BY <1>5 DEF LateArrival, LoadForEvent, CommitEvent, Sound, Known, TypeOK
  <2>2. UNCHANGED <<op, phase, job>>
    BY <1>5 DEF LateArrival, LoadForEvent, CommitEvent, slots
  <2>3. QED
    BY <1>0, <2>1, <2>2, DecidedStays DEF Sound, Known
<1>6. ASSUME NEW w \in Worker, NEW o \in Operation, Start(w, o)
      PROVE  Decided'
  <2>1. /\ op' = [op EXCEPT ![o].status = "running"] /\ job' = [job EXCEPT ![w] = o]
        /\ phase' = [phase EXCEPT ![w] = "calling"] /\ UNCHANGED <<remote, done>>
    BY <1>6 DEF Start
  <2>2. \A v \in Worker : phase'[v] \in Answered => phase[v] \in Answered /\ job'[v] = job[v]
    BY <2>1 DEF Sound, TypeOK, Answered
  <2>3. /\ op'[o].status = "running"
        /\ \A p \in Operation : /\ p # o => op'[p] = op[p]
                                /\ op'[p].kind = op[p].kind /\ op'[p].store = op[p].store
    BY <2>1, StatusTyped DEF Sound, OpStatus
  <2>4. \A p \in Operation : op'[p].status = "succeeded" =>
           p <= accepted /\ op[p].status = "succeeded"
    BY <2>3 DEF Sound, Known
  <2>5. QED
    BY <1>0, <2>1, <2>2, <2>3, <2>4, DecidedStays
<1>7. ASSUME NEW y \in Sync,
             StartSync(y) \/ FetchOrder(y) \/ FindVoucher(y) \/ CommitSync(y) \/ SyncEnds(y)
      PROVE  Decided'
  <2>1. UNCHANGED <<remote, done, op, phase, job>>
    BY <1>7, SyncTyped DEF Sound
  <2>2. QED
    BY <2>1 DEF Decided, NoRevocation, Agrees
<1>8. QED
  BY <1>1, <1>3, <1>4, <1>5, <1>6, <1>7, AttemptDecided DEF Next

(***************************************************************************)
(* If answers carry the store, two consumptions of a voucher that was not  *)
(* revoked are never both reported as succeeded for different stores,      *)
(* whatever times out, arrives late or is repeated (consume).              *)
(***************************************************************************)
THEOREM OneStoreConsumes ==
  ASSUME Silent = FALSE
  PROVE  Spec => []ConsumedAtOneStore
<1>1. Init => Sound /\ Decided
  BY InitSound, InitDecided
<1>2. Sound /\ Decided /\ [Next]_vars => (Sound /\ Decided)'
  BY StepSound, StepDecided, Silent = FALSE
<1>3. Sound /\ Decided => ConsumedAtOneStore
  <2> SUFFICES ASSUME Sound, Decided, NEW o \in Operation, NEW p \in Operation,
                      op[o].status = "succeeded", op[p].status = "succeeded",
                      op[o].kind = "consume", op[p].kind = "consume", NoRevocation
               PROVE  op[o].store = op[p].store
    <3>1. \A a, b, c : {a, b} = {c} => a = c /\ b = c
      OBVIOUS
    <3>2. QED
      BY <3>1 DEF ConsumedAtOneStore, NoRevocation
  <2>1. QED
    BY DEF Decided
<1>4. QED
  BY <1>1, <1>2, <1>3, PTL DEF Spec

-----------------------------------------------------------------------------
(* The mirror *)

AllSucceeded == \A q \in done : op[q].status = "succeeded"

\* Every request that took effect has succeeded, but for that of slot w.
RestSucceeded(w) == \A q \in done \ {job[w]} : op[q].status = "succeeded"

\* The row is as slot w loaded it, or a sync has set it right since the slot's
\* request took effect.
LoadedIsTrue(w) == base[w].state = state \/ (job[w] \in done /\ state = remote.state)

\* What slot w knows is what there is, as far as the others have succeeded: the
\* row it loaded, and the platform's state once it has answered.
Knows(w) ==
    /\ phase[w] # "idle" => op[job[w]].status = "running"
    /\ phase[w] \notin {"idle", "done"} /\ RestSucceeded(w) => LoadedIsTrue(w)
    /\ phase[w] \in {"answered", "reconciled"} => answer[w] = remote.state
    /\ phase[w] = "done" /\ RestSucceeded(w) => state = remote.state

\* What a sync has been told, and the platform has not moved on from.
Told(y) ==
    sync[y].phase \in {"answered", "found"} /\ sync[y].fresh => sync[y].got = remote.state

Mirrored ==
    calm =>
        /\ ~hook.open
        /\ \A v, w \in Worker : phase[v] # "idle" /\ phase[w] # "idle" => v = w
        /\ \A w \in Worker : Knows(w)
        /\ \A y \in Sync : Told(y)
        /\ AllSucceeded => state = remote.state

LEMMA InitMirrored == Init => Mirrored
  BY DEF Init, Mirrored, Knows, Told, Unsynced

\* A call that changes the platform leaves no answer of a sync fresh.
LEMMA ToldStays ==
  ASSUME Sound, \A y \in Sync : Told(y), NEW o \in Operation,
         Arrives(o) \/ UNCHANGED <<remote, done, sync>>
  PROVE  \A y \in Sync : Told(y)'
<1>1. CASE UNCHANGED <<remote, sync>>
  BY <1>1 DEF Told
<1>2. CASE sync' = [y \in Sync |-> [sync[y] EXCEPT !.fresh = FALSE]]
  BY <1>2 DEF Told, Sound, TypeOK
<1>3. QED
  BY <1>1, <1>2 DEF Arrives

\* A call that arrives keeps what the slot knows of the row, for the row is as it
\* was loaded when the slot's request takes effect.
LEMMA LoadedStays ==
  ASSUME NEW w \in Worker, RestSucceeded(w) => LoadedIsTrue(w),
         Arrives(job[w]) \/ UNCHANGED <<remote, done, sync>>,
         UNCHANGED <<state, job, base, op>>
  PROVE  RestSucceeded(w)' => LoadedIsTrue(w)'
<1>1. CASE UNCHANGED <<remote, done>>
  BY <1>1 DEF RestSucceeded, LoadedIsTrue
<1>2. CASE job[w] \notin done /\ done' = done \cup {job[w]}
  BY <1>2 DEF RestSucceeded, LoadedIsTrue
<1>3. QED
  BY <1>1, <1>2 DEF Arrives

\* A call that arrives leaves its request in done, and one that changes the
\* platform is not reported yet.
LEMMA ArrivalIsUnreported ==
  ASSUME Sound, NEW o \in Operation, Arrives(o) \/ UNCHANGED <<remote, done, sync>>,
         AllSucceeded => state = remote.state,
         state' = state, op'[o].status # "succeeded",
         \A p \in Operation : op'[p].status = "succeeded" => op[p].status = "succeeded"
  PROVE  AllSucceeded' => state' = remote'.state
<1>1. done \subseteq Operation
  BY DEF Sound, TypeOK
<1>2. CASE UNCHANGED <<remote, done>>
  BY <1>1, <1>2 DEF AllSucceeded
<1>3. CASE o \in done'
  BY <1>3 DEF AllSucceeded
<1>4. QED
  BY <1>2, <1>3 DEF Arrives

LEMMA AttemptMirrored ==
  ASSUME Silent = FALSE, Sound, Mirrored, NEW w \in Worker,
         Call(w) \/ CallRefused(w) \/ CallTimesOut(w) \/ AskPlatform(w)
           \/ AttemptFails(w) \/ Commit(w) \/ MarkSucceeded(w) \/ Crash(w)
  PROVE  Mirrored'
<1> DEFINE o == job[w]
<1>0. o \in Operation /\ phase[w] # "idle" /\ UNCHANGED <<hook, calm>>
  BY DEF Sound, TypeOK, Call, CallRefused, CallTimesOut, AskPlatform, AttemptFails,
         Commit, MarkSucceeded, Crash
<1> SUFFICES ASSUME calm PROVE Mirrored'
  BY <1>0 DEF Mirrored
<1>1. /\ ~hook'.open
      /\ \A v \in Worker \ {w} : phase[v] = "idle"
      /\ Knows(w) /\ op[o].status = "running"
      /\ AllSucceeded => state = remote.state
      /\ \A y \in Sync : Told(y)
  BY <1>0 DEF Mirrored, Knows
\* The slot goes on.
<1>2. ASSUME NEW x \in Phase, phase' = [phase EXCEPT ![w] = x], UNCHANGED <<op, job>>,
             Arrives(o) \/ UNCHANGED <<remote, done, sync>>,
             Knows(w)', AllSucceeded' => state' = remote'.state
      PROVE  Mirrored'
  <2>1. \A v \in Worker \ {w} : phase'[v] = "idle"
    BY <1>1, <1>2 DEF Sound, TypeOK
  <2>2. \A v \in Worker : Knows(v)'
    BY <1>2, <2>1 DEF Knows
  <2>3. \A y \in Sync : Told(y)'
    BY <1>0, <1>1, <1>2, ToldStays
  <2>4. QED
    BY <1>1, <1>2, <2>1, <2>2, <2>3 DEF Mirrored
\* The slot leaves.
<1>3. ASSUME Leave(w), NEW s \in {"queued", "failed", "succeeded"},
             op' = [op EXCEPT ![o].status = s],
             Arrives(o) \/ UNCHANGED <<remote, done, sync>>,
             AllSucceeded' => state' = remote'.state
      PROVE  Mirrored'
  <2>1. \A v \in Worker : phase'[v] = "idle"
    BY <1>1, <1>3, LeaveTyped DEF Sound
  <2>2. \A y \in Sync : Told(y)'
    BY <1>0, <1>1, <1>3, ToldStays
  <2>3. QED
    BY <1>1, <1>3, <2>1, <2>2 DEF Mirrored, Knows
<1>4. ASSUME Leave(w), NEW s \in {"queued", "failed"}, op' = [op EXCEPT ![o].status = s],
             state' = state, Arrives(o) \/ UNCHANGED <<remote, done, sync>>
      PROVE  Mirrored'
  <2>1. /\ op'[o].status = s
        /\ \A p \in Operation : p # o => op'[p] = op[p]
    BY <1>0, <1>4, StatusTyped DEF Sound, OpStatus
  <2>2. AllSucceeded' => state' = remote'.state
    BY <1>0, <1>1, <1>4, <2>1, ArrivalIsUnreported
  <2>3. QED
    BY <1>3, <1>4, <2>2
<1>5. CASE Call(w)
  <2>1. answer'[w] = remote'.state
    BY <1>5, Silent = FALSE DEF Call, Answers, Sound, TypeOK
  <2>2. /\ phase' = [phase EXCEPT ![w] = "answered"] /\ phase[w] = "calling"
        /\ Arrives(o) /\ UNCHANGED <<state, op, job, base>>
    BY <1>5 DEF Call, row
  <2>3. AllSucceeded' => state' = remote'.state
    BY <1>0, <1>1, <2>2, ArrivalIsUnreported
  <2>4. phase'[w] = "answered"
    BY <2>2 DEF Sound, TypeOK
  <2>5. RestSucceeded(w)' => LoadedIsTrue(w)'
    BY <1>1, <2>2, LoadedStays DEF Knows
  <2>6. Knows(w)'
    BY <1>1, <2>1, <2>2, <2>4, <2>5 DEF Knows
  <2>7. QED
    BY <1>2, <2>2, <2>3, <2>6 DEF Phase
<1>6. CASE CallTimesOut(w)
  <2>1. /\ phase' = [phase EXCEPT ![w] = "asking"] /\ phase[w] = "calling"
        /\ Arrives(o) \/ UNCHANGED <<remote, done, sync>>
        /\ UNCHANGED <<state, op, job, base>>
    BY <1>6 DEF CallTimesOut, row
  <2>2. AllSucceeded' => state' = remote'.state
    BY <1>0, <1>1, <2>1, ArrivalIsUnreported
  <2>3. phase'[w] = "asking"
    BY <2>1 DEF Sound, TypeOK
  <2>4. RestSucceeded(w)' => LoadedIsTrue(w)'
    BY <1>1, <2>1, LoadedStays DEF Knows
  <2>5. Knows(w)'
    BY <1>1, <2>1, <2>3, <2>4 DEF Knows
  <2>6. QED
    BY <1>2, <2>1, <2>2, <2>5 DEF Phase
<1>7. CASE AskPlatform(w) /\ ~GiveUp(w)
  <2>1. /\ Reconciles(o) /\ answer' = [answer EXCEPT ![w] = Wanted(o)]
        /\ phase' = [phase EXCEPT ![w] = "reconciled"] /\ phase[w] = "asking"
        /\ UNCHANGED <<state, remote, done, sync, op, job, base>>
    BY <1>7 DEF AskPlatform, row
  <2>2. phase'[w] = "reconciled" /\ answer'[w] = remote'.state
    BY <2>1 DEF Sound, TypeOK, Reconciles
  <2>3. RestSucceeded(w)' => LoadedIsTrue(w)'
    BY <1>1, <2>1, LoadedStays DEF Knows
  <2>4. Knows(w)' /\ (AllSucceeded' => state' = remote'.state)
    BY <1>1, <2>1, <2>2, <2>3 DEF Knows, AllSucceeded
  <2>5. QED
    BY <1>2, <2>1, <2>4 DEF Phase
<1>8. CASE Commit(w)
  <2>1. /\ phase' = [phase EXCEPT ![w] = "done"]
        /\ state' = (IF answer[w] # base[w].state THEN answer[w] ELSE state)
        /\ answer[w] = remote.state
        /\ RestSucceeded(w) => LoadedIsTrue(w)
        /\ UNCHANGED <<remote, done, sync, op, job>>
    BY <1>1, <1>8 DEF Commit, Knows
  <2>2. RestSucceeded(w) => state' = remote'.state
    BY <2>1 DEF LoadedIsTrue
  <2>3. phase'[w] = "done"
    BY <2>1 DEF Sound, TypeOK
  <2>4. Knows(w)'
    BY <1>1, <2>1, <2>2, <2>3 DEF Knows, RestSucceeded
  <2>5. AllSucceeded' => state' = remote'.state
    BY <2>1, <2>2 DEF AllSucceeded, RestSucceeded
  <2>6. QED
    BY <1>2, <2>1, <2>4, <2>5 DEF Phase
<1>9. CASE MarkSucceeded(w)
  <2>1. /\ op' = [op EXCEPT ![o].status = "succeeded"] /\ Leave(w)
        /\ phase[w] = "done" /\ UNCHANGED <<state, remote, done, sync>>
    BY <1>9 DEF MarkSucceeded, row
  <2>2. \A p \in Operation : p # o => op'[p] = op[p]
    BY <1>0, <2>1, StatusTyped DEF Sound, OpStatus
  <2>3. AllSucceeded' => RestSucceeded(w)
    BY <2>1, <2>2 DEF AllSucceeded, RestSucceeded, Sound, TypeOK
  <2>4. AllSucceeded' => state' = remote'.state
    BY <1>1, <2>1, <2>3 DEF Knows
  <2>5. QED
    BY <1>3, <2>1, <2>4
<1>10. CASE GiveUp(w) /\ (AskPlatform(w) \/ AttemptFails(w))
  <2>1. PICK t \in {"queued", "failed"} : op' = [op EXCEPT ![o].status = t] /\ Leave(w)
    BY <1>10 DEF GiveUp
  <2>2. state' = state /\ (Arrives(o) \/ UNCHANGED <<remote, done, sync>>)
    BY <1>10 DEF AskPlatform, AttemptFails, row
  <2>3. QED
    BY <1>4, <2>1, <2>2
<1>11. CASE CallRefused(w)
  BY <1>4, <1>11 DEF CallRefused, row
<1>12. CASE Crash(w)
  BY <1>4, <1>12 DEF Crash, row
<1>13. QED
  BY <1>5, <1>6, <1>7, <1>8, <1>9, <1>10, <1>11, <1>12 DEF AttemptFails

\* A sync that commits writes what the platform says, or nothing.
LEMMA SyncMirrored ==
  ASSUME Silent = FALSE, Sound, Mirrored, NEW y \in Sync,
         StartSync(y) \/ FetchOrder(y) \/ FindVoucher(y) \/ CommitSync(y) \/ SyncEnds(y)
  PROVE  Mirrored'
<1>1. /\ UNCHANGED <<remote, done, op, phase, job, base, answer, hook>>
      /\ calm' => calm
  <2>1. calm' => calm
    BY DEF StartSync, FetchOrder, FindVoucher, CommitSync, SyncEnds
  <2>2. QED
    BY <2>1, SyncTyped DEF Sound
<1> SUFFICES ASSUME calm' PROVE Mirrored'
  BY DEF Mirrored
<1>2. Told(y)
  BY <1>1 DEF Mirrored
<1>3. Told(y)' /\ \A x \in Sync \ {y} : sync'[x] = sync[x]
  <2>0. sync \in [Sync -> SyncRow] /\ sync[y] \in SyncRow
    BY DEF Sound, TypeOK, SyncRow
  <2>1. CASE CommitSync(y) \/ SyncEnds(y)
    <3>1. sync' = [sync EXCEPT ![y] = Unsynced]
      BY <2>1 DEF CommitSync, SyncEnds
    <3>2. QED
      BY <2>0, <3>1 DEF Told, Unsynced
  <2>2. CASE StartSync(y)
    BY <2>0, <2>2 DEF StartSync, Told, SyncRow
  <2>3. CASE FetchOrder(y)
    <3>1. sync' = [sync EXCEPT ![y].phase = "answered", ![y].got = remote.state,
                               ![y].fresh = TRUE]
      BY <2>3, Silent = FALSE DEF FetchOrder
    <3>2. QED
      BY <1>1, <2>0, <3>1 DEF Told, SyncRow
  <2>4. CASE FindVoucher(y)
    <3>1. PICK s : sync' = [sync EXCEPT ![y].phase = "found", ![y].base = s]
      BY <2>4 DEF FindVoucher
    <3>2. QED
      BY <1>1, <1>2, <2>0, <2>4, <3>1 DEF FindVoucher, Told, SyncRow
  <2>5. QED
    BY <2>1, <2>2, <2>3, <2>4
<1>4. \A x \in Sync : Told(x)'
  BY <1>1, <1>3 DEF Mirrored, Told
<1>5. state' = state \/ state' = remote.state
  BY <1>2 DEF StartSync, FetchOrder, FindVoucher, CommitSync, SyncEnds, Told, row
<1>6. ASSUME NEW w \in Worker PROVE Knows(w)'
  <2>1. Knows(w)
    BY <1>1 DEF Mirrored
  <2>2. RestSucceeded(w)' => RestSucceeded(w)
    BY <1>1 DEF RestSucceeded
  <2>3. CASE job[w] \in done
    BY <1>1, <1>5, <2>1, <2>2, <2>3 DEF Knows, LoadedIsTrue
  <2>4. CASE job[w] \notin done
    <3>1. RestSucceeded(w) => state = remote.state
      BY <1>1, <2>4 DEF RestSucceeded, AllSucceeded, Mirrored
    <3>2. QED
      BY <1>1, <1>5, <2>1, <2>2, <3>1 DEF Knows, LoadedIsTrue
  <2>5. QED
    BY <2>3, <2>4
<1>7. AllSucceeded' => state' = remote'.state
  BY <1>1, <1>5 DEF Mirrored, AllSucceeded
<1>8. QED
  BY <1>1, <1>4, <1>6, <1>7 DEF Mirrored

LEMMA StepMirrored ==
  ASSUME Silent = FALSE, Sound, Mirrored, [Next]_vars
  PROVE  Mirrored'
<1>0. /\ done \subseteq Operation /\ \A q \in done : q <= accepted
      /\ \A w \in Worker : job[w] \in Operation /\ (phase[w] # "idle" => job[w] <= accepted)
  BY DEF Sound, TypeOK, Known
<1>1. CASE UNCHANGED vars
  BY <1>1 DEF vars, row, slots, Mirrored, AllSucceeded, Knows, RestSucceeded, LoadedIsTrue, Told
<1>2. ASSUME NEW kind \in Kind, NEW store \in Store,
             NEW consumed_by \in Operation \cup {None}, Enqueue(kind, store, consumed_by)
      PROVE  Mirrored'
  <2>1. UNCHANGED <<state, remote, done, phase, job, base, answer, hook, sync, calm>>
    BY <1>2 DEF Enqueue, row, slots
  <2>2. \A p \in Operation : p <= accepted => op'[p] = op[p]
    BY <1>2, EnqueueStays
  <2>3. AllSucceeded' => AllSucceeded
    BY <1>0, <2>1, <2>2 DEF AllSucceeded
  <2>4. \A w \in Worker : Knows(w) => Knows(w)'
    BY <1>0, <2>1, <2>2 DEF Knows, RestSucceeded, LoadedIsTrue
  <2>5. QED
    BY <2>1, <2>3, <2>4 DEF Mirrored, Told
<1>3. CASE EnqueueConsume
  BY <1>2, <1>3 DEF EnqueueConsume, Kind
<1>4. CASE EnqueueRevoke
  BY <1>2, <1>4 DEF EnqueueRevoke, Kind, Sound, TypeOK
<1>5. CASE LateArrival
  BY <1>5 DEF LateArrival, Mirrored
<1>6. CASE LoadForEvent
  BY <1>6 DEF LoadForEvent, Mirrored
<1>7. CASE CommitEvent
  BY <1>7 DEF CommitEvent, Mirrored
<1>8. ASSUME NEW w \in Worker, NEW o \in Operation, Start(w, o), calm'
      PROVE  Mirrored'
  <2>1. /\ op' = [op EXCEPT ![o].status = "running"] /\ op[o].status = "queued"
        /\ job' = [job EXCEPT ![w] = o] /\ base' = [base EXCEPT ![w] = Loaded]
        /\ phase' = [phase EXCEPT ![w] = "calling"]
        /\ UNCHANGED <<state, remote, done, hook, sync>>
        /\ calm /\ \A v \in Worker : phase[v] = "idle"
    BY <1>8 DEF Start, row
  <2>2. calm
    BY <2>1
  <2>3. /\ op'[o].status = "running"
        /\ \A p \in Operation : p # o => op'[p] = op[p]
    BY <2>1, StatusTyped DEF Sound, OpStatus
  <2>4. AllSucceeded' => AllSucceeded
    BY <1>0, <2>1, <2>3 DEF AllSucceeded
  <2>5. /\ phase'[w] = "calling" /\ job'[w] = o /\ base'[w].state = state
        /\ \A v \in Worker \ {w} : phase'[v] = "idle"
    BY <2>1 DEF Sound, TypeOK, Loaded
  <2>6. \A v \in Worker : Knows(v)'
    BY <2>1, <2>3, <2>5 DEF Knows, LoadedIsTrue
  <2>7. QED
    BY <2>1, <2>2, <2>4, <2>5, <2>6 DEF Mirrored, Told
<1>9. ASSUME ~calm' PROVE Mirrored'
  BY <1>9 DEF Mirrored
<1>10. QED
  BY <1>1, <1>3, <1>4, <1>5, <1>6, <1>7, <1>8, <1>9, AttemptMirrored, SyncMirrored DEF Next

(***************************************************************************)
(* If answers carry the voucher and its status, then commands that ran one *)
(* at a time, without a callback or a late call, and with syncs of the     *)
(* order that write no answer from before the last command, leave the      *)
(* mirror with the state the platform has, however often they timed out or *)
(* crashed and were repeated (consume, revoke, apply_remote, sync_order).  *)
(***************************************************************************)
THEOREM MirrorStaysTrue ==
  ASSUME Silent = FALSE
  PROVE  Spec => []MirrorIsTrue
<1>1. Init => Sound /\ Mirrored
  BY InitSound, InitMirrored
<1>2. Sound /\ Mirrored /\ [Next]_vars => (Sound /\ Mirrored)'
  BY StepSound, StepMirrored, Silent = FALSE
<1>3. Mirrored => MirrorIsTrue
  BY DEF Mirrored, AllSucceeded, MirrorIsTrue
<1>4. QED
  BY <1>1, <1>2, <1>3, PTL DEF Spec
=============================================================================
