------------------------ MODULE OperationQueueProofs ------------------------
(***************************************************************************)
(* Proofs about OperationQueue, for every number of operations, slots and  *)
(* manual retries, and every budget.                                       *)
(***************************************************************************)
EXTENDS OperationQueue, TLAPS

(***************************************************************************)
(* Type correctness.                                                       *)
(***************************************************************************)
LEMMA InitTypeOK == Init => TypeOK
  BY QueueAssumption DEF Init, TypeOK, Status, Settled, Failure, Outcome, Phase

\* What mark_failed writes is well typed.
LEMMA WriteFailureType ==
  ASSUME TypeOK, NEW w \in Worker, NEW error \in Failure, WriteFailure(w, error)
  PROVE  /\ status' \in [Operation -> Status]
         /\ due' \in [Operation -> BOOLEAN]
         /\ lease' \in [Operation -> {"none", "held", "expired"}]
         /\ failure' \in [Operation -> Failure]
<1>1. CASE ~Owns(w)
  BY <1>1 DEF WriteFailure, TypeOK
<1>2. CASE Owns(w)
  <2> DEFINE o == job[w]
  <2>1. o \in Operation
    BY <1>2 DEF Owns
  <2>2. /\ status'  = [status EXCEPT ![o] =
                         IF RetryAllowed(w, error) THEN "retry_wait" ELSE "failed"]
        /\ due'     = [due EXCEPT ![o] = @ /\ ~RetryAllowed(w, error)]
        /\ lease'   = [lease EXCEPT ![o] = "none"]
        /\ failure' = [failure EXCEPT ![o] = error]
    BY <1>2 DEF WriteFailure
  <2>3. (due[o] /\ ~RetryAllowed(w, error)) \in BOOLEAN
    OBVIOUS
  <2>4. due' \in [Operation -> BOOLEAN]
    BY <2>1, <2>2, <2>3, Zenon DEF TypeOK
  <2>5. QED
    BY <2>1, <2>2, <2>4 DEF TypeOK, Status
<1>3. QED
  BY <1>1, <1>2

LEMMA StepTypeOK == TypeOK /\ [Next]_vars => TypeOK'
<1> SUFFICES ASSUME TypeOK, [Next]_vars PROVE TypeOK'
  OBVIOUS
<1> USE QueueAssumption DEF TypeOK, rows, slots, budgets
<1> USE DEF Status, Settled, Failure, Outcome, Phase
<1>1. ASSUME NEW o \in Operation, Enqueue(o) PROVE TypeOK'
  BY <1>1 DEF Enqueue
<1>2. ASSUME NEW o \in Operation, BecomeDue(o) PROVE TypeOK'
  BY <1>2 DEF BecomeDue
<1>3. ASSUME NEW o \in Operation, LeaseExpires(o) \/ OwnerStalls(o) PROVE TypeOK'
  BY <1>3 DEF LeaseExpires, OwnerStalls, LoseLease
<1>4. ASSUME NEW a \in Admin, ManualRetryRead(a) PROVE TypeOK'
  BY <1>4 DEF ManualRetryRead
<1>5. ASSUME NEW a \in Admin, ManualRetryWrite(a) PROVE TypeOK'
  BY <1>5 DEF ManualRetryWrite
<1>6. ASSUME NEW w \in Worker, Claim(w) PROVE TypeOK'
  BY <1>6 DEF Claim, Loaded
<1>7. ASSUME NEW w \in Worker, HandlerEnds(w) PROVE TypeOK'
  BY <1>7 DEF HandlerEnds
<1>8. ASSUME NEW w \in Worker, MarkSucceeded(w) PROVE TypeOK'
  BY <1>8 DEF MarkSucceeded, Owns
<1>9. ASSUME NEW w \in Worker, MarkFailed(w) PROVE TypeOK'
  <2>1. outcome[w] \in Failure
    BY <1>9 DEF MarkFailed
  <2>2. QED
    BY <1>9, <2>1, WriteFailureType DEF MarkFailed
<1>10. ASSUME NEW w \in Worker, RecordAudit(w) PROVE TypeOK'
  <2>1. audited' \in [Operation -> SUBSET Settled]
    BY <1>10 DEF RecordAudit, AuditedOutcome
  <2>2. phase' \in [Worker -> Phase] /\ job' \in [Worker -> Operation \cup {NoOperation}]
        /\ outcome' \in [Worker -> Outcome]
    BY <1>10 DEF RecordAudit
  <2>3. QED
    BY <1>10, <2>1, <2>2 DEF RecordAudit
<1>11. ASSUME NEW w \in Worker, RenewLease(w) PROVE TypeOK'
  BY <1>11 DEF RenewLease, Owns
<1>12. ASSUME NEW w \in Worker, HeartbeatFails(w) \/ Crash(w) PROVE TypeOK'
  BY <1>12 DEF HeartbeatFails, Crash, Die, MayEnd
<1>13. ASSUME NEW w \in Worker, Shutdown(w) PROVE TypeOK'
  <2>1. "shutdown" \in Failure
    OBVIOUS
  <2>2. QED
    BY <1>13, <2>1, WriteFailureType DEF Shutdown, Die, MayEnd
<1>14. CASE UNCHANGED vars
  BY <1>14 DEF vars
<1>15. QED
  BY <1>1, <1>2, <1>3, <1>4, <1>5, <1>6, <1>7, <1>8, <1>9, <1>10, <1>11, <1>12,
     <1>13, <1>14 DEF Next

\* Every reachable state is well typed, and no budget is exceeded.
THEOREM TypeCorrect == Spec => []TypeOK
<1>1. QED
  BY InitTypeOK, StepTypeOK, PTL DEF Spec

(***************************************************************************)
(* The inductive invariant.                                                *)
(***************************************************************************)

\* What a slot holds in each phase.
SlotsAreConsistent ==
    \A w \in Worker :
        /\ phase[w] = "idle" => job[w] = NoOperation
        /\ phase[w] \in {"handling", "returned", "audit"} => job[w] \in Operation
        /\ phase[w] = "returned" => outcome[w] # "none"

\* A row that is not inserted yet has no attempts.
NewRows == \A o \in Operation : status[o] = "absent" => attempts[o] = 0 /\ failure[o] = "none"

IInv == /\ TypeOK
        /\ NewRows
        /\ SlotsAreConsistent
        /\ OwnerIsExecuting
        /\ AttemptIsCurrent
        /\ WaitingHasBudget
        /\ FailureIsJustified

LEMMA InitIInv == Init => IInv
<1> SUFFICES ASSUME Init PROVE IInv
  OBVIOUS
<1>1. TypeOK
  BY InitTypeOK
<1>2. SlotsAreConsistent /\ OwnerIsExecuting /\ AttemptIsCurrent
  BY QueueAssumption DEF Init, SlotsAreConsistent, OwnerIsExecuting, AttemptIsCurrent, Owns
<1>3. WaitingHasBudget /\ FailureIsJustified
  BY DEF Init, WaitingHasBudget, FailureIsJustified
<1>5. NewRows
  BY DEF Init, NewRows
<1>4. QED
  BY <1>1, <1>2, <1>3, <1>5 DEF IInv

LEMMA StepSlots == TypeOK /\ SlotsAreConsistent /\ [Next]_vars => SlotsAreConsistent'
<1> SUFFICES ASSUME TypeOK, SlotsAreConsistent, [Next]_vars PROVE SlotsAreConsistent'
  OBVIOUS
<1> USE DEF TypeOK, SlotsAreConsistent, rows, slots, budgets
<1>1. CASE UNCHANGED vars
  BY <1>1 DEF vars
<1>2. ASSUME NEW o \in Operation,
             Enqueue(o) \/ BecomeDue(o) \/ LeaseExpires(o) \/ OwnerStalls(o)
      PROVE  SlotsAreConsistent'
  BY <1>2 DEF Enqueue, BecomeDue, LeaseExpires, OwnerStalls, LoseLease
<1>3. ASSUME NEW a \in Admin, ManualRetryRead(a) \/ ManualRetryWrite(a)
      PROVE  SlotsAreConsistent'
  BY <1>3 DEF ManualRetryRead, ManualRetryWrite
<1>4. ASSUME NEW w \in Worker, Claim(w)
      PROVE  SlotsAreConsistent'
  BY <1>4 DEF Claim
<1>5. ASSUME NEW w \in Worker, HandlerEnds(w) \/ MarkSucceeded(w) \/ MarkFailed(w)
      PROVE  SlotsAreConsistent'
  BY <1>5 DEF HandlerEnds, MarkSucceeded, MarkFailed
<1>6. ASSUME NEW w \in Worker, RecordAudit(w)
      PROVE  SlotsAreConsistent'
  BY <1>6 DEF RecordAudit
<1>7. ASSUME NEW w \in Worker,
             RenewLease(w) \/ HeartbeatFails(w) \/ Crash(w) \/ Shutdown(w)
      PROVE  SlotsAreConsistent'
  BY <1>7 DEF RenewLease, HeartbeatFails, Crash, Shutdown, Die
<1>8. QED
  BY <1>1, <1>2, <1>3, <1>4, <1>5, <1>6, <1>7 DEF Next

LEMMA StepNewRows == IInv /\ [Next]_vars => NewRows'
<1> SUFFICES ASSUME IInv, [Next]_vars, NEW o \in Operation, status'[o] = "absent"
             PROVE  attempts'[o] = 0 /\ failure'[o] = "none"
  BY DEF NewRows
<1> USE DEF IInv, TypeOK, rows, slots, budgets
<1>0. ASSUME status[o] = "absent", attempts'[o] = attempts[o], failure'[o] = failure[o]
      PROVE  attempts'[o] = 0 /\ failure'[o] = "none"
  BY <1>0 DEF NewRows
<1>1. CASE UNCHANGED vars
  BY <1>0, <1>1 DEF vars
<1>2. ASSUME NEW p \in Operation,
             Enqueue(p) \/ BecomeDue(p) \/ LeaseExpires(p) \/ OwnerStalls(p)
      PROVE  attempts'[o] = 0 /\ failure'[o] = "none"
  BY <1>0, <1>2 DEF Enqueue, BecomeDue, LeaseExpires, OwnerStalls, LoseLease
<1>3. ASSUME NEW a \in Admin, ManualRetryRead(a) \/ ManualRetryWrite(a)
      PROVE  attempts'[o] = 0 /\ failure'[o] = "none"
  BY <1>0, <1>3 DEF ManualRetryRead, ManualRetryWrite
<1>4. ASSUME NEW w \in Worker, Claim(w)
      PROVE  attempts'[o] = 0 /\ failure'[o] = "none"
  BY <1>0, <1>4 DEF Claim
<1>5. ASSUME NEW w \in Worker, HandlerEnds(w) \/ MarkSucceeded(w) \/ RecordAudit(w)
      PROVE  attempts'[o] = 0 /\ failure'[o] = "none"
  BY <1>0, <1>5 DEF HandlerEnds, MarkSucceeded, RecordAudit, Owns
<1>6. ASSUME NEW w \in Worker, MarkFailed(w) \/ Shutdown(w)
      PROVE  attempts'[o] = 0 /\ failure'[o] = "none"
  <2>1. \E e \in Failure : WriteFailure(w, e)
    BY <1>6 DEF MarkFailed, Shutdown, Die, Outcome, Failure
  <2>2. status[o] = "absent" /\ failure'[o] = failure[o]
    BY <2>1 DEF WriteFailure, Owns
  <2>3. QED
    BY <1>0, <1>6, <2>2 DEF MarkFailed, Shutdown, Die
<1>7. ASSUME NEW w \in Worker, RenewLease(w) \/ HeartbeatFails(w) \/ Crash(w)
      PROVE  attempts'[o] = 0 /\ failure'[o] = "none"
  BY <1>0, <1>7 DEF RenewLease, HeartbeatFails, Crash, Die
<1>8. QED
  BY <1>1, <1>2, <1>3, <1>4, <1>5, <1>6, <1>7 DEF Next

\* A slot that is alive but at work on nothing owns no running row.
LEMMA OnlyExecutingSlotsOwn ==
  ASSUME IInv, NEW w \in Worker, NEW o \in Operation,
         status[o] = "running", owner[o] = w, phase[w] # "dead"
  PROVE  Executing(w, o) /\ Owns(w)
  BY DEF IInv, OwnerIsExecuting, Executing, Owns

LEMMA StepOwner == IInv /\ [Next]_vars => OwnerIsExecuting'
<1> SUFFICES ASSUME IInv, [Next]_vars, NEW o \in Operation, status'[o] = "running"
             PROVE  /\ lease'[o] # "none"
                    /\ \E w \in Worker :
                          owner'[o] = w /\ (phase'[w] = "dead" \/ Executing(w, o)')
  BY DEF OwnerIsExecuting
<1> USE DEF IInv, TypeOK, rows, slots, budgets
<1> DEFINE Kept == /\ status[o] = "running"
                   /\ lease'[o] # "none"
                   /\ owner'[o] = owner[o]
           Goal == /\ lease'[o] # "none"
                   /\ \E w \in Worker :
                         owner'[o] = w /\ (phase'[w] = "dead" \/ Executing(w, o)')
\* Most steps keep the row and do not move its owner.
<1>0. ASSUME Kept,
             \A w \in Worker : phase[w] = "dead" \/ Executing(w, o)
                               => phase'[w] = "dead" \/ Executing(w, o)'
      PROVE  Goal
  BY <1>0 DEF OwnerIsExecuting
<1>1. CASE UNCHANGED vars
  BY <1>1 DEF vars, OwnerIsExecuting, Executing
<1>2. ASSUME NEW p \in Operation,
             Enqueue(p) \/ BecomeDue(p) \/ LeaseExpires(p) \/ OwnerStalls(p)
      PROVE  Goal
  BY <1>2 DEF Enqueue, BecomeDue, LeaseExpires, OwnerStalls, LoseLease,
              OwnerIsExecuting, Executing
<1>3. ASSUME NEW a \in Admin, ManualRetryRead(a) \/ ManualRetryWrite(a)
      PROVE  Goal
  <2>1. Kept
    BY <1>3 DEF ManualRetryRead, ManualRetryWrite, OwnerIsExecuting
  <2>2. QED
    BY <1>0, <1>3, <2>1 DEF ManualRetryRead, ManualRetryWrite, Executing
<1>4. ASSUME NEW w \in Worker, Claim(w)
      PROVE  Goal
  <2>1. PICK p \in Operation : /\ status' = [status EXCEPT ![p] = "running"]
                               /\ owner'  = [owner EXCEPT ![p] = w]
                               /\ lease'  = [lease EXCEPT ![p] = "held"]
                               /\ job'    = [job EXCEPT ![w] = p]
                               /\ phase'  = [phase EXCEPT ![w] =
                                    IF p \in Orphaned THEN "returned" ELSE "handling"]
    BY <1>4 DEF Claim
  <2>2. CASE p = o
    BY <2>1, <2>2 DEF Executing
  <2>3. CASE p # o
    <3>1. Kept
      BY <2>1, <2>3 DEF OwnerIsExecuting
    <3>2. \A v \in Worker : phase[v] = "dead" \/ Executing(v, o)
                            => phase'[v] = "dead" \/ Executing(v, o)'
      BY <1>4, <2>1 DEF Claim, Executing
    <3>3. QED
      BY <1>0, <3>1, <3>2
  <2>4. QED
    BY <2>2, <2>3
<1>5. ASSUME NEW w \in Worker, HandlerEnds(w)
      PROVE  Goal
  BY <1>5 DEF HandlerEnds, OwnerIsExecuting, Executing
\* A mark ends the slot's work, and the row it owned is no longer running.
<1>6. ASSUME NEW w \in Worker, phase[w] \in {"handling", "returned"}, UNCHANGED <<owner, job>>,
             phase' \in {[phase EXCEPT ![w] = "audit"], [phase EXCEPT ![w] = "dead"]},
             IF Owns(w) THEN /\ status'[job[w]] # "running"
                             /\ \A p \in Operation \ {job[w]} :
                                   status'[p] = status[p] /\ lease'[p] = lease[p]
                        ELSE UNCHANGED <<status, lease>>
      PROVE  Goal
  <2>1. status[o] = "running" /\ lease'[o] = lease[o]
    BY <1>6 DEF Owns
  <2>2. owner[o] # w
    <3>1. SUFFICES ASSUME owner[o] = w PROVE FALSE
      OBVIOUS
    <3>2. Owns(w) /\ job[w] = o
      BY <1>6, <2>1, <3>1, OnlyExecutingSlotsOwn DEF Executing
    <3>3. QED
      BY <1>6, <3>2
  <2>3. QED
    BY <1>6, <2>1, <2>2 DEF OwnerIsExecuting, Executing
<1>7. ASSUME NEW w \in Worker, MarkSucceeded(w)
      PROVE  Goal
  BY <1>6, <1>7 DEF MarkSucceeded, Owns
<1>8. ASSUME NEW w \in Worker, MarkFailed(w) \/ Shutdown(w)
      PROVE  Goal
  <2>1. \E e \in Failure : WriteFailure(w, e)
    BY <1>8 DEF MarkFailed, Shutdown, Die, Outcome, Failure
  <2>2. IF Owns(w) THEN /\ status'[job[w]] # "running"
                        /\ \A p \in Operation \ {job[w]} :
                              status'[p] = status[p] /\ lease'[p] = lease[p]
                   ELSE UNCHANGED <<status, lease>>
    BY <2>1 DEF WriteFailure, Owns
  <2>3. QED
    BY <1>6, <1>8, <2>2 DEF MarkFailed, Shutdown, Die
<1>9. ASSUME NEW w \in Worker, RecordAudit(w)
      PROVE  Goal
  <2>1. owner[o] # w
    BY <1>9, OnlyExecutingSlotsOwn DEF RecordAudit, Executing
  <2>2. QED
    BY <1>9, <2>1 DEF RecordAudit, OwnerIsExecuting, Executing
<1>10. ASSUME NEW w \in Worker, RenewLease(w)
       PROVE  Goal
  BY <1>10 DEF RenewLease, Owns, OwnerIsExecuting, Executing
<1>11. ASSUME NEW w \in Worker, HeartbeatFails(w) \/ Crash(w)
       PROVE  Goal
  BY <1>11 DEF HeartbeatFails, Crash, Die, OwnerIsExecuting, Executing
<1>12. QED
  BY <1>1, <1>2, <1>3, <1>4, <1>5, <1>7, <1>8, <1>9, <1>10, <1>11 DEF Next

LEMMA StepAttempt == IInv /\ [Next]_vars => AttemptIsCurrent'
<1> SUFFICES ASSUME IInv, [Next]_vars, NEW v \in Worker, Owns(v)', phase'[v] # "dead"
             PROVE  seen'[v] = attempts'[job'[v]]
  BY DEF AttemptIsCurrent
<1> USE DEF IInv, TypeOK, Owns, rows, slots, budgets
\* Most steps keep what v compares.
<1>0. ASSUME Owns(v), phase[v] # "dead", seen'[v] = seen[v], job'[v] = job[v],
             attempts'[job[v]] = attempts[job[v]]
      PROVE  seen'[v] = attempts'[job'[v]]
  BY <1>0 DEF AttemptIsCurrent
<1>1. CASE UNCHANGED vars
  BY <1>0, <1>1 DEF vars
<1>2. ASSUME NEW o \in Operation,
             Enqueue(o) \/ BecomeDue(o) \/ LeaseExpires(o) \/ OwnerStalls(o)
      PROVE  seen'[v] = attempts'[job'[v]]
  BY <1>0, <1>2 DEF Enqueue, BecomeDue, LeaseExpires, OwnerStalls, LoseLease
<1>3. ASSUME NEW a \in Admin, ManualRetryRead(a)
      PROVE  seen'[v] = attempts'[job'[v]]
  BY <1>0, <1>3 DEF ManualRetryRead
<1>4. ASSUME NEW a \in Admin, ManualRetryWrite(a)
      PROVE  seen'[v] = attempts'[job'[v]]
  <2>1. job[v] \notin chosen[a]
    BY <1>4 DEF ManualRetryWrite
  <2>2. QED
    BY <1>0, <1>4, <2>1 DEF ManualRetryWrite
<1>5. ASSUME NEW w \in Worker, Claim(w)
      PROVE  seen'[v] = attempts'[job'[v]]
  <2>1. CASE v = w
    BY <1>5, <2>1 DEF Claim, Loaded
  <2>2. CASE v # w
    BY <1>0, <1>5, <2>2 DEF Claim
  <2>3. QED
    BY <2>1, <2>2
<1>6. ASSUME NEW w \in Worker, HandlerEnds(w) \/ MarkSucceeded(w)
      PROVE  seen'[v] = attempts'[job'[v]]
  BY <1>0, <1>6 DEF HandlerEnds, MarkSucceeded
<1>7. ASSUME NEW w \in Worker, MarkFailed(w) \/ Shutdown(w)
      PROVE  seen'[v] = attempts'[job'[v]]
  BY <1>0, <1>7 DEF MarkFailed, Shutdown, Die, WriteFailure
<1>8. ASSUME NEW w \in Worker, RecordAudit(w)
      PROVE  seen'[v] = attempts'[job'[v]]
  BY <1>0, <1>8, QueueAssumption DEF RecordAudit
<1>9. ASSUME NEW w \in Worker, RenewLease(w) \/ HeartbeatFails(w) \/ Crash(w)
      PROVE  seen'[v] = attempts'[job'[v]]
  BY <1>0, <1>9 DEF RenewLease, HeartbeatFails, Crash, Die
<1>10. QED
  BY <1>1, <1>2, <1>3, <1>4, <1>5, <1>6, <1>7, <1>8, <1>9 DEF Next

\* What mark_failed writes is within the budget: the row goes back to the
\* queue with attempts left, or is given up for a reason.
LEMMA FailureRespectsBudget ==
  ASSUME IInv, NEW w \in Worker, phase[w] # "dead", NEW e \in Failure \ {"none"},
         WriteFailure(w, e), UNCHANGED attempts
  PROVE  WaitingHasBudget' /\ FailureIsJustified'
<1> USE DEF IInv, TypeOK
<1>1. CASE ~Owns(w)
  BY <1>1 DEF WriteFailure, WaitingHasBudget, FailureIsJustified
<1>2. CASE Owns(w)
  <2>1. job[w] \in Operation /\ seen[w] = attempts[job[w]]
    BY <1>2 DEF Owns, AttemptIsCurrent
  <2>2. /\ status'  = [status EXCEPT ![job[w]] =
                         IF RetryAllowed(w, e) THEN "retry_wait" ELSE "failed"]
        /\ failure' = [failure EXCEPT ![job[w]] = e]
    BY <1>2 DEF WriteFailure
  <2>3. CASE RetryAllowed(w, e)
    BY <2>1, <2>2, <2>3 DEF RetryAllowed, WaitingHasBudget, FailureIsJustified
  <2>4. CASE ~RetryAllowed(w, e)
    <3>1. e \in {"permanent", "no_handler"} \/ attempts[job[w]] >= MaxAttempts
      BY <2>1, <2>4, QueueAssumption DEF RetryAllowed, Failure
    <3>2. QED
      BY <2>1, <2>2, <2>4, <3>1 DEF WaitingHasBudget, FailureIsJustified
  <2>5. QED
    BY <2>3, <2>4
<1>3. QED
  BY <1>1, <1>2

LEMMA StepBudget == IInv /\ [Next]_vars => WaitingHasBudget' /\ FailureIsJustified'
<1> SUFFICES ASSUME IInv, [Next]_vars PROVE WaitingHasBudget' /\ FailureIsJustified'
  OBVIOUS
<1> USE QueueAssumption DEF IInv, TypeOK, rows, slots, budgets
<1> USE DEF WaitingHasBudget, FailureIsJustified
<1>1. CASE UNCHANGED vars
  BY <1>1 DEF vars
<1>2. ASSUME NEW o \in Operation, Enqueue(o)
      PROVE  WaitingHasBudget' /\ FailureIsJustified'
  BY <1>2 DEF Enqueue, NewRows
<1>3. ASSUME NEW o \in Operation, BecomeDue(o) \/ LeaseExpires(o) \/ OwnerStalls(o)
      PROVE  WaitingHasBudget' /\ FailureIsJustified'
  BY <1>3 DEF BecomeDue, LeaseExpires, OwnerStalls, LoseLease
<1>4. ASSUME NEW a \in Admin, ManualRetryRead(a) \/ ManualRetryWrite(a)
      PROVE  WaitingHasBudget' /\ FailureIsJustified'
  <2>1. CASE ManualRetryRead(a)
    BY <2>1 DEF ManualRetryRead
  <2>2. ASSUME ManualRetryWrite(a), NEW o \in Operation
        PROVE  \/ status'[o] = "queued" /\ attempts'[o] = 0
               \/ status'[o] = status[o] /\ attempts'[o] = attempts[o] /\ failure'[o] = failure[o]
    BY <2>2 DEF ManualRetryWrite
  <2>3. CASE ManualRetryWrite(a)
    <3>1. WaitingHasBudget'
      BY <2>2, <2>3
    <3>2. FailureIsJustified'
      BY <2>2, <2>3
    <3>3. QED
      BY <3>1, <3>2
  <2>4. QED
    BY <1>4, <2>1, <2>3
<1>5. ASSUME NEW w \in Worker, Claim(w)
      PROVE  WaitingHasBudget' /\ FailureIsJustified'
  BY <1>5 DEF Claim
<1>6. ASSUME NEW w \in Worker, HandlerEnds(w) \/ MarkSucceeded(w) \/ RecordAudit(w)
      PROVE  WaitingHasBudget' /\ FailureIsJustified'
  BY <1>6 DEF HandlerEnds, MarkSucceeded, RecordAudit
<1>7. ASSUME NEW w \in Worker, MarkFailed(w) \/ Shutdown(w)
      PROVE  WaitingHasBudget' /\ FailureIsJustified'
  <2>1. \E e \in Failure \ {"none"} : WriteFailure(w, e)
    BY <1>7 DEF MarkFailed, Shutdown, Die, Outcome, Failure, SlotsAreConsistent
  <2>2. QED
    BY <1>7, <2>1, FailureRespectsBudget DEF MarkFailed, Shutdown, Die
<1>8. ASSUME NEW w \in Worker, RenewLease(w) \/ HeartbeatFails(w) \/ Crash(w)
      PROVE  WaitingHasBudget' /\ FailureIsJustified'
  BY <1>8 DEF RenewLease, HeartbeatFails, Crash, Die
<1>9. QED
  BY <1>1, <1>2, <1>3, <1>4, <1>5, <1>6, <1>7, <1>8 DEF Next

LEMMA StepIInv == IInv /\ [Next]_vars => IInv'
  BY StepTypeOK, StepNewRows, StepSlots, StepOwner, StepAttempt, StepBudget DEF IInv

LEMMA QueueInvariant == Spec => []IInv
  BY InitIInv, StepIInv, PTL DEF Spec

\* No running row is stranded by a slot that went on to something else, and a
\* slot that owns a row decides on the row's present attempt count, however
\* long ago it loaded it.
THEOREM OwnersAreCurrent == Spec => []OwnerIsCurrent
<1>1. IInv => OwnerIsCurrent
  BY DEF IInv, OwnerIsCurrent
<1>2. QED
  BY <1>1, QueueInvariant, PTL

\* A row waits for a worker only with attempts left, and is given up only for a
\* permanent error or without any.
THEOREM AttemptBudget == Spec => []AttemptsAreCounted
<1>1. IInv => AttemptsAreCounted
  BY DEF IInv, AttemptsAreCounted
<1>2. QED
  BY <1>1, QueueInvariant, PTL

(***************************************************************************)
(* A lease protects its owner, from all but manual retries.                *)
(***************************************************************************)
LEMMA StepLease ==
  ASSUME IInv, [Next]_vars, NEW w \in Worker, NEW o \in Operation
  PROVE  LeaseProtects(w, o)
<1> SUFFICES ASSUME Owns(w), Executing(w, o), Executing(w, o)', lease[o] # "expired", ~Locked(o)
             PROVE  status'[o] = "running" /\ owner'[o] = w
  BY DEF LeaseProtects
<1> USE DEF IInv, TypeOK, Owns, Executing, rows, slots, budgets
<1>1. CASE UNCHANGED vars
  BY <1>1 DEF vars
<1>2. ASSUME NEW p \in Operation,
             Enqueue(p) \/ BecomeDue(p) \/ LeaseExpires(p) \/ OwnerStalls(p)
      PROVE  status'[o] = "running" /\ owner'[o] = w
  BY <1>2 DEF Enqueue, BecomeDue, LeaseExpires, OwnerStalls, LoseLease
<1>3. ASSUME NEW v \in Worker, Claim(v)
      PROVE  status'[o] = "running" /\ owner'[o] = w
  BY <1>3 DEF Claim, Claimable
<1>4. ASSUME NEW v \in Worker, HandlerEnds(v) \/ RecordAudit(v)
      PROVE  status'[o] = "running" /\ owner'[o] = w
  BY <1>4 DEF HandlerEnds, RecordAudit
<1>5. ASSUME NEW v \in Worker, MarkSucceeded(v)
      PROVE  status'[o] = "running" /\ owner'[o] = w
  BY <1>5 DEF MarkSucceeded
<1>6. ASSUME NEW v \in Worker, MarkFailed(v) \/ Shutdown(v)
      PROVE  status'[o] = "running" /\ owner'[o] = w
  <2>1. v # w
    BY <1>6 DEF MarkFailed, Shutdown, Die
  <2>2. \E e \in Failure : WriteFailure(v, e)
    BY <1>6 DEF MarkFailed, Shutdown, Die, Outcome, Failure
  <2>3. status'[o] = status[o]
    BY <2>1, <2>2 DEF WriteFailure
  <2>4. QED
    BY <1>6, <2>3 DEF MarkFailed, Shutdown, Die
<1>7. ASSUME NEW v \in Worker, RenewLease(v) \/ HeartbeatFails(v) \/ Crash(v)
      PROVE  status'[o] = "running" /\ owner'[o] = w
  BY <1>7 DEF RenewLease, HeartbeatFails, Crash, Die
<1>8. ASSUME NEW a \in Admin, ManualRetryRead(a) \/ ManualRetryWrite(a)
      PROVE  status'[o] = "running" /\ owner'[o] = w
  <2>1. CASE ManualRetryRead(a)
    BY <2>1 DEF ManualRetryRead
  <2>2. CASE ManualRetryWrite(a)
    <3>1. o \notin chosen[a]
      BY DEF Locked
    <3>2. o \in Operation /\ owner[o] = w /\ status[o] = "running"
      OBVIOUS
    <3>3. QED
      BY <2>2, <3>1, <3>2 DEF ManualRetryWrite
  <2>3. QED
    BY <1>8, <2>1, <2>2
<1>9. QED
  BY <1>1, <1>2, <1>3, <1>4, <1>5, <1>6, <1>7, <1>8 DEF Next

\* A slot at work on a row it owns loses it only after its lease has expired,
\* or to a manual retry that had read the row before.
THEOREM LeaseProtection == Spec => LeaseProtectsOwner
<1>1. IInv /\ [Next]_vars => [\A w \in Worker, o \in Operation : LeaseProtects(w, o)]_vars
  BY StepLease
<1>2. QED
  BY <1>1, QueueInvariant, PTL DEF Spec, LeaseProtectsOwner

(***************************************************************************)
(* The queue implements OperationLifecycle.                                *)
(***************************************************************************)
LEMMA InitLifecycle == Init => Lifecycle!Init
  BY DEF Init, Lifecycle!Init, Stages, Stage, Attempting, Executing, Holder

\* Steps that no client of the lifecycle can see.
LEMMA Invisible ==
  ASSUME UNCHANGED <<status, owner, chosen>>,
         \A w \in Worker, o \in Operation : Executing(w, o)' = Executing(w, o)
  PROVE  UNCHANGED Lifecycle!lifecycle
<1>1. Stages' = Stages
  BY DEF Stages, Stage
<1>2. Attempting' = Attempting
  BY DEF Attempting
<1>3. Holder' = Holder
  BY DEF Holder
<1>4. QED
  BY <1>1, <1>2, <1>3 DEF Lifecycle!lifecycle

\* A slot stops executing its row.
LEMMA StopsExecuting ==
  ASSUME IInv, NEW w \in Worker, phase[w] \in {"handling", "returned"},
         phase' \in {[phase EXCEPT ![w] = "audit"], [phase EXCEPT ![w] = "dead"]},
         UNCHANGED job
  PROVE  /\ job[w] \in Operation
         /\ w \in Attempting[job[w]]
         /\ Attempting' = [Attempting EXCEPT ![job[w]] = @ \ {w}]
<1> USE DEF IInv, TypeOK
<1>1. job[w] \in Operation /\ w \in Attempting[job[w]]
  BY DEF SlotsAreConsistent, Attempting, Executing
<1>2. ASSUME NEW o \in Operation
      PROVE  {v \in Worker : Executing(v, o)'} =
             IF o = job[w] THEN {v \in Worker : Executing(v, o)} \ {w}
                           ELSE {v \in Worker : Executing(v, o)}
  BY DEF Executing
<1>3. Attempting' = [o \in Operation |-> IF o = job[w] THEN Attempting[o] \ {w} ELSE Attempting[o]]
  BY <1>2, Zenon DEF Attempting
<1>4. Attempting' = [Attempting EXCEPT ![job[w]] = @ \ {w}]
  BY <1>1, <1>3 DEF Attempting
<1>5. QED
  BY <1>1, <1>4

\* A mark or a shutdown is a settlement, a hand-back, or leaves no trace.
LEMMA MarkIsLifecycleStep ==
  ASSUME IInv, NEW w \in Worker, phase[w] \in {"handling", "returned"},
         phase' \in {[phase EXCEPT ![w] = "audit"], [phase EXCEPT ![w] = "dead"]},
         UNCHANGED <<owner, job, chosen>>,
         IF Owns(w) THEN \E s \in {"succeeded", "failed", "retry_wait"} :
                            status' = [status EXCEPT ![job[w]] = s]
                    ELSE UNCHANGED status
  PROVE  Lifecycle!Next
<1> USE DEF IInv, TypeOK
<1> DEFINE o == job[w]
<1>0. Lifecycle!Leave(w, o) /\ o \in Operation
  BY StopsExecuting DEF Lifecycle!Leave
<1>1. CASE ~Owns(w)
  <2>1. Stages' = Stages /\ Holder' = Holder
    BY <1>1 DEF Stages, Stage, Holder
  <2>2. Lifecycle!Vanish(w, o)
    BY <1>0, <2>1 DEF Lifecycle!Vanish
  <2>3. QED
    BY <1>0, <2>2 DEF Lifecycle!Next
<1>2. CASE Owns(w)
  <2>1. PICK s \in {"succeeded", "failed", "retry_wait"} :
            status' = [status EXCEPT ![o] = s]
    BY <1>2
  <2>2. Stages[o] = "pending" /\ Holder[o] = w
    BY <1>0, <1>2 DEF Owns, Stages, Stage, Holder
  <2>3. Holder' = [Holder EXCEPT ![o] = NoWorker]
    BY <1>0, <2>1 DEF Holder
  <2>4. CASE s = "retry_wait"
    <3>1. Stages' = Stages
      BY <1>0, <1>2, <2>1, <2>4 DEF Owns, Stages, Stage
    <3>2. Lifecycle!HandBack(w, o)
      BY <1>0, <2>2, <2>3, <3>1 DEF Lifecycle!HandBack
    <3>3. QED
      BY <1>0, <3>2 DEF Lifecycle!Next
  <2>5. CASE s \in {"succeeded", "failed"}
    <3>1. Stages' = [Stages EXCEPT ![o] = s]
      BY <1>0, <2>1, <2>5 DEF Stages, Stage
    <3>2. Lifecycle!Settle(w, o)
      BY <1>0, <2>2, <2>3, <2>5, <3>1 DEF Lifecycle!Settle
    <3>3. QED
      BY <1>0, <3>2 DEF Lifecycle!Next
  <2>6. QED
    BY <2>4, <2>5
<1>3. QED
  BY <1>1, <1>2

LEMMA StepLifecycle ==
  ASSUME IInv, [Next]_vars
  PROVE  [Lifecycle!Next]_(Lifecycle!lifecycle)
<1> USE DEF rows, slots, budgets
<1> DEFINE Goal == [Lifecycle!Next]_(Lifecycle!lifecycle)
<1>1. CASE UNCHANGED vars
  BY <1>1, Invisible DEF vars, Executing
<1>2. ASSUME NEW o \in Operation, Enqueue(o)
      PROVE  Goal
  <2>1. Stages[o] = "absent" /\ Stages' = [Stages EXCEPT ![o] = "pending"]
    BY <1>2 DEF Enqueue, Stages, Stage, IInv, TypeOK
  <2>2. Attempting' = Attempting /\ Holder' = Holder
    BY <1>2 DEF Enqueue, Attempting, Executing, Holder, IInv, TypeOK
  <2>3. Lifecycle!Submit(o)
    BY <1>2, <2>1, <2>2 DEF Enqueue, Lifecycle!Submit
  <2>4. QED
    BY <2>3 DEF Lifecycle!Next
<1>3. ASSUME NEW o \in Operation, BecomeDue(o) \/ LeaseExpires(o) \/ OwnerStalls(o)
      PROVE  Goal
  BY <1>3, Invisible DEF BecomeDue, LeaseExpires, OwnerStalls, LoseLease, Executing
<1>4. ASSUME NEW w \in Worker, Claim(w)
      PROVE  Goal
  <2>1. PICK o \in Operation :
            /\ Claimable(o)
            /\ status' = [status EXCEPT ![o] = "running"]
            /\ owner'  = [owner EXCEPT ![o] = w]
            /\ job'    = [job EXCEPT ![w] = o]
            /\ phase'  = [phase EXCEPT ![w] =
                            IF o \in Orphaned THEN "returned" ELSE "handling"]
    BY <1>4 DEF Claim
  <2> USE DEF IInv, TypeOK
  <2>2. Stages[o] = "pending" /\ Stages' = Stages
    BY <2>1 DEF Claimable, Stages, Stage
  <2>3. Holder' = [Holder EXCEPT ![o] = w]
    BY <2>1 DEF Holder
  <2>4. \A p \in Operation : w \notin Attempting[p]
    BY <1>4 DEF Claim, Attempting, Executing
  <2>5. ASSUME NEW p \in Operation
        PROVE  {v \in Worker : Executing(v, p)'} =
               IF p = o THEN {v \in Worker : Executing(v, p)} \cup {w}
                        ELSE {v \in Worker : Executing(v, p)}
    BY <1>4, <2>1 DEF Claim, Executing
  <2>6. Attempting' = [p \in Operation |-> IF p = o THEN Attempting[p] \cup {w} ELSE Attempting[p]]
    BY <2>5, Zenon DEF Attempting
  <2>7. Attempting' = [Attempting EXCEPT ![o] = @ \cup {w}]
    BY <2>6 DEF Attempting
  <2>8. UNCHANGED chosen
    BY <1>4 DEF Claim
  <2>9. Lifecycle!Attempt(w, o)
    BY <2>2, <2>3, <2>4, <2>7, <2>8 DEF Lifecycle!Attempt
  <2>10. QED
    BY <2>9 DEF Lifecycle!Next
<1>5. ASSUME NEW w \in Worker, HandlerEnds(w)
      PROVE  Goal
  BY <1>5, Invisible DEF HandlerEnds, Executing, IInv, TypeOK
<1>6. ASSUME NEW w \in Worker, MarkSucceeded(w)
      PROVE  Goal
  BY <1>6, MarkIsLifecycleStep DEF MarkSucceeded
<1>7. ASSUME NEW w \in Worker, MarkFailed(w) \/ Shutdown(w)
      PROVE  Goal
  <2>1. \E e \in Failure : WriteFailure(w, e)
    BY <1>7 DEF MarkFailed, Shutdown, Die, Outcome, Failure, IInv, TypeOK
  <2>2. IF Owns(w) THEN \E s \in {"succeeded", "failed", "retry_wait"} :
                           status' = [status EXCEPT ![job[w]] = s]
                   ELSE UNCHANGED status
    BY <2>1 DEF WriteFailure
  <2>3. QED
    BY <1>7, <2>2, MarkIsLifecycleStep DEF MarkFailed, Shutdown, Die
<1>8. ASSUME NEW w \in Worker, RecordAudit(w)
      PROVE  Goal
  BY <1>8, Invisible DEF RecordAudit, Executing, IInv, TypeOK
<1>9. ASSUME NEW w \in Worker, RenewLease(w) \/ HeartbeatFails(w)
      PROVE  Goal
  BY <1>9, Invisible DEF RenewLease, HeartbeatFails, Executing
<1>10. ASSUME NEW w \in Worker, Crash(w)
       PROVE  Goal
  <2>1. CASE phase[w] \in {"handling", "returned"}
    <3>1. Lifecycle!Leave(w, job[w]) /\ job[w] \in Operation
      BY <1>10, <2>1, StopsExecuting DEF Crash, Die, Lifecycle!Leave
    <3>2. Stages' = Stages /\ Holder' = Holder
      BY <1>10 DEF Crash, Die, Stages, Stage, Holder
    <3>3. Lifecycle!Vanish(w, job[w])
      BY <3>1, <3>2 DEF Lifecycle!Vanish
    <3>4. QED
      BY <3>1, <3>3 DEF Lifecycle!Next
  <2>2. CASE phase[w] \notin {"handling", "returned"}
    BY <1>10, <2>2, Invisible DEF Crash, Die, Executing, IInv, TypeOK
  <2>3. QED
    BY <2>1, <2>2
<1>11. ASSUME NEW a \in Admin, ManualRetryRead(a)
       PROVE  Goal
  <2>1. Stages' = Stages /\ Attempting' = Attempting /\ Holder' = Holder
    BY <1>11 DEF ManualRetryRead, Stages, Stage, Attempting, Executing, Holder
  <2>2. PICK S \in SUBSET {o \in Operation : Retryable(o)} :
            S # {} /\ chosen' = [chosen EXCEPT ![a] = S]
    BY <1>11 DEF ManualRetryRead
  <2>3. S \in SUBSET {o \in Operation : Stages[o] \in {"failed", "pending"}}
    BY <2>2 DEF Retryable, Stages, Stage
  <2>4. Lifecycle!Ask(a)
    BY <1>11, <2>1, <2>2, <2>3 DEF ManualRetryRead, Lifecycle!Ask
  <2>5. QED
    BY <2>4 DEF Lifecycle!Next
<1>12. ASSUME NEW a \in Admin, ManualRetryWrite(a)
       PROVE  Goal
  <2> DEFINE S == chosen[a]
  <2>1. Attempting' = Attempting
    BY <1>12 DEF ManualRetryWrite, Attempting, Executing
  <2>2. \A o \in Operation : Stage(o)' = IF o \in S THEN "pending" ELSE Stage(o)
    BY <1>12 DEF ManualRetryWrite, Stage
  <2>3. Stages' = [o \in Operation |-> IF o \in S THEN "pending" ELSE Stages[o]]
    BY <2>2 DEF Stages
  <2>4. Holder' = [o \in Operation |-> IF o \in S THEN NoWorker ELSE Holder[o]]
    BY <1>12 DEF ManualRetryWrite, Holder
  <2>5. Lifecycle!Reopen(a)
    BY <1>12, <2>1, <2>3, <2>4 DEF ManualRetryWrite, Lifecycle!Reopen
  <2>6. QED
    BY <2>5 DEF Lifecycle!Next
<1>13. QED
  BY <1>1, <1>2, <1>3, <1>4, <1>5, <1>6, <1>7, <1>8, <1>9, <1>10, <1>11, <1>12 DEF Next

\* The queue implements the lifecycle: the latest attempt alone decides an
\* operation, once, and an outcome stays unless a manual retry asked for the
\* operation to be repeated.
THEOREM QueueImplementsLifecycle == Spec => ImplementsLifecycle
<1>1. IInv /\ [Next]_vars => [Lifecycle!Next]_(Lifecycle!lifecycle)
  BY StepLifecycle
<1>2. QED
  BY <1>1, InitLifecycle, QueueInvariant, PTL DEF Spec, ImplementsLifecycle, Lifecycle!Spec

(***************************************************************************)
(* Outcomes are audited.                                                   *)
(***************************************************************************)

\* The slot that is about to write the audit record of a row it settled
\* writes the outcome it settled the row with.
AuditAgrees ==
    \A w \in Worker, o \in Operation :
        (phase[w] = "audit" /\ job[w] = o /\ owner[o] = w /\ status[o] \in Settled)
            => status[o] = AuditedOutcome(w)

\* A row that still names a slot at work on it as its owner is running.
OwnedWorkIsRunning ==
    \A w \in Worker, o \in Operation : Executing(w, o) /\ owner[o] = w => status[o] = "running"

LEMMA StepOwnedWork == IInv /\ OwnedWorkIsRunning /\ [Next]_vars => OwnedWorkIsRunning'
<1> SUFFICES ASSUME IInv, OwnedWorkIsRunning, [Next]_vars, NEW w \in Worker, NEW o \in Operation,
                    Executing(w, o)', owner'[o] = w
             PROVE  status'[o] = "running"
  BY DEF OwnedWorkIsRunning
<1> USE DEF IInv, TypeOK, Executing, rows, slots, budgets
<1>0. ASSUME Executing(w, o), owner[o] = w, status'[o] = status[o]
      PROVE  status'[o] = "running"
  BY <1>0 DEF OwnedWorkIsRunning
<1>1. CASE UNCHANGED vars
  BY <1>0, <1>1 DEF vars
<1>2. ASSUME NEW p \in Operation,
             Enqueue(p) \/ BecomeDue(p) \/ LeaseExpires(p) \/ OwnerStalls(p)
      PROVE  status'[o] = "running"
  BY <1>0, <1>2 DEF Enqueue, BecomeDue, LeaseExpires, OwnerStalls, LoseLease, OwnedWorkIsRunning
<1>3. ASSUME NEW a \in Admin, ManualRetryRead(a)
      PROVE  status'[o] = "running"
  BY <1>0, <1>3 DEF ManualRetryRead
<1>4. ASSUME NEW a \in Admin, ManualRetryWrite(a)
      PROVE  status'[o] = "running"
  BY <1>0, <1>4, QueueAssumption DEF ManualRetryWrite
<1>5. ASSUME NEW v \in Worker, Claim(v)
      PROVE  status'[o] = "running"
  <2>1. PICK p \in Operation : /\ status' = [status EXCEPT ![p] = "running"]
                               /\ owner'  = [owner EXCEPT ![p] = v]
                               /\ job'    = [job EXCEPT ![v] = p]
                               /\ phase'  = [phase EXCEPT ![v] =
                                    IF p \in Orphaned THEN "returned" ELSE "handling"]
    BY <1>5 DEF Claim
  <2>2. CASE p = o
    BY <2>1, <2>2
  <2>3. CASE p # o
    BY <1>0, <2>1, <2>3
  <2>4. QED
    BY <2>2, <2>3
<1>6. ASSUME NEW v \in Worker, HandlerEnds(v) \/ RecordAudit(v)
      PROVE  status'[o] = "running"
  BY <1>0, <1>6 DEF HandlerEnds, RecordAudit
<1>7. ASSUME NEW v \in Worker, MarkSucceeded(v)
      PROVE  status'[o] = "running"
  BY <1>0, <1>7 DEF MarkSucceeded, Owns
<1>8. ASSUME NEW v \in Worker, MarkFailed(v) \/ Shutdown(v)
      PROVE  status'[o] = "running"
  <2>1. \E e \in Failure : WriteFailure(v, e)
    BY <1>8 DEF MarkFailed, Shutdown, Die, Outcome, Failure
  <2>2. v # w /\ Executing(w, o) /\ owner[o] = w
    BY <1>8 DEF MarkFailed, Shutdown, Die
  <2>3. QED
    BY <1>0, <2>1, <2>2 DEF WriteFailure, Owns
<1>9. ASSUME NEW v \in Worker, RenewLease(v) \/ HeartbeatFails(v) \/ Crash(v)
      PROVE  status'[o] = "running"
  BY <1>0, <1>9 DEF RenewLease, HeartbeatFails, Crash, Die
<1>10. QED
  BY <1>1, <1>2, <1>3, <1>4, <1>5, <1>6, <1>7, <1>8, <1>9 DEF Next

LEMMA StepAuditAgrees == IInv /\ OwnedWorkIsRunning /\ AuditAgrees /\ [Next]_vars => AuditAgrees'
<1> SUFFICES ASSUME IInv, OwnedWorkIsRunning, AuditAgrees, [Next]_vars, NEW w \in Worker, NEW o \in Operation,
                    phase'[w] = "audit", job'[w] = o, owner'[o] = w, status'[o] \in Settled
             PROVE  status'[o] = AuditedOutcome(w)'
  BY DEF AuditAgrees
<1> USE DEF IInv, TypeOK, Settled, AuditedOutcome, rows, slots, budgets
<1>0. ASSUME phase[w] = "audit", job[w] = o, owner[o] = w, status'[o] = status[o],
             outcome'[w] = outcome[w]
      PROVE  status'[o] = AuditedOutcome(w)'
  BY <1>0 DEF AuditAgrees
<1>1. CASE UNCHANGED vars
  BY <1>0, <1>1 DEF vars
<1>2. ASSUME NEW p \in Operation,
             Enqueue(p) \/ BecomeDue(p) \/ LeaseExpires(p) \/ OwnerStalls(p)
      PROVE  status'[o] = AuditedOutcome(w)'
  BY <1>0, <1>2 DEF Enqueue, BecomeDue, LeaseExpires, OwnerStalls, LoseLease
<1>3. ASSUME NEW a \in Admin, ManualRetryRead(a) \/ ManualRetryWrite(a)
      PROVE  status'[o] = AuditedOutcome(w)'
  <2>1. status'[o] = status[o] /\ owner'[o] = owner[o]
    <3>1. CASE ManualRetryRead(a)
      BY <3>1 DEF ManualRetryRead
    <3>2. CASE ManualRetryWrite(a)
      <4>1. o \notin chosen[a]
        BY <3>2, QueueAssumption DEF ManualRetryWrite
      <4>2. QED
        BY <3>2, <4>1 DEF ManualRetryWrite
    <3>3. QED
      BY <1>3, <3>1, <3>2
  <2>2. QED
    BY <1>0, <1>3, <2>1 DEF ManualRetryRead, ManualRetryWrite
<1>4. ASSUME NEW v \in Worker, Claim(v)
      PROVE  status'[o] = AuditedOutcome(w)'
  <2>1. v # w
    BY <1>4 DEF Claim
  <2>2. job[w] = o /\ phase[w] = "audit" /\ outcome'[w] = outcome[w]
    BY <1>4, <2>1 DEF Claim
  <2>3. owner[o] = w /\ status'[o] = status[o]
    BY <1>4, <2>1 DEF Claim
  <2>4. QED
    BY <1>0, <2>2, <2>3
<1>5. ASSUME NEW v \in Worker, HandlerEnds(v) \/ RecordAudit(v)
      PROVE  status'[o] = AuditedOutcome(w)'
  BY <1>0, <1>5 DEF HandlerEnds, RecordAudit
<1>6. ASSUME NEW v \in Worker, MarkSucceeded(v)
      PROVE  status'[o] = AuditedOutcome(w)'
  <2>1. CASE v = w
    <3>1. outcome'[w] = "ok"
      BY <1>6, <2>1 DEF MarkSucceeded
    <3>2. phase[w] = "returned" /\ job[w] = o /\ owner[o] = w
      BY <1>6, <2>1 DEF MarkSucceeded
    <3>3. Owns(w)
      BY <3>2 DEF OwnedWorkIsRunning, Executing, Owns
    <3>4. QED
      BY <1>6, <2>1, <3>1, <3>2, <3>3 DEF MarkSucceeded
  <2>2. CASE v # w
    BY <1>0, <1>6, <2>2 DEF MarkSucceeded, Owns
  <2>3. QED
    BY <2>1, <2>2
<1>7. ASSUME NEW v \in Worker, MarkFailed(v) \/ Shutdown(v)
      PROVE  status'[o] = AuditedOutcome(w)'
  <2>1. \E e \in Failure : WriteFailure(v, e)
    BY <1>7 DEF MarkFailed, Shutdown, Die, Outcome, Failure
  <2>2. CASE v = w
    <3>1. outcome[w] # "ok" /\ UNCHANGED outcome
      BY <1>7, <2>2 DEF MarkFailed, Shutdown, Die
    <3>2. status'[o] # "succeeded"
      <4>1. phase[w] \in {"handling", "returned"} /\ job[w] = o /\ owner[o] = w
        BY <1>7, <2>2 DEF MarkFailed, Shutdown, Die
      <4>2. Owns(w)
        BY <4>1 DEF OwnedWorkIsRunning, Executing, Owns
      <4>3. QED
        BY <2>1, <2>2, <4>1, <4>2 DEF WriteFailure
    <3>3. QED
      BY <3>1, <3>2
  <2>3. CASE v # w
    <3>1. phase[w] = "audit" /\ job[w] = o /\ owner[o] = w /\ outcome'[w] = outcome[w]
      BY <1>7, <2>3 DEF MarkFailed, Shutdown, Die
    <3>2. status'[o] = status[o]
      BY <2>1, <2>3, <3>1 DEF WriteFailure, Owns
    <3>3. QED
      BY <1>0, <3>1, <3>2
  <2>4. QED
    BY <2>2, <2>3
<1>8. ASSUME NEW v \in Worker, RenewLease(v) \/ HeartbeatFails(v) \/ Crash(v)
      PROVE  status'[o] = AuditedOutcome(w)'
  BY <1>0, <1>8 DEF RenewLease, HeartbeatFails, Crash, Die
<1>9. QED
  BY <1>1, <1>2, <1>3, <1>4, <1>5, <1>6, <1>7, <1>8 DEF Next

LEMMA StepOutcomeAudited ==
  IInv /\ OwnedWorkIsRunning /\ AuditAgrees /\ OutcomeIsAudited /\ [Next]_vars => OutcomeIsAudited'
<1> SUFFICES ASSUME IInv, OwnedWorkIsRunning, AuditAgrees, OutcomeIsAudited, [Next]_vars,
                    NEW o \in Operation, status'[o] \in Settled
             PROVE  \/ status'[o] \in audited'[o]
                    \/ \E w \in Worker : /\ owner'[o] = w
                                         /\ job'[w] = o
                                         /\ phase'[w] \in {"audit", "dead"}
  BY DEF OutcomeIsAudited
<1> USE DEF IInv, TypeOK, Settled, rows, slots, budgets
<1> DEFINE Goal == \/ status'[o] \in audited'[o]
                   \/ \E w \in Worker : /\ owner'[o] = w
                                        /\ job'[w] = o
                                        /\ phase'[w] \in {"audit", "dead"}
\* Most steps keep the outcome and the slot that is to audit it.
<1>0. ASSUME status'[o] = status[o], owner'[o] = owner[o], audited[o] \subseteq audited'[o],
             \A w \in Worker : job[w] = o /\ owner[o] = w /\ phase[w] \in {"audit", "dead"}
                               => job'[w] = o /\ phase'[w] \in {"audit", "dead"}
      PROVE  Goal
  BY <1>0 DEF OutcomeIsAudited
<1>1. CASE UNCHANGED vars
  BY <1>0, <1>1 DEF vars
<1>2. ASSUME NEW p \in Operation,
             Enqueue(p) \/ BecomeDue(p) \/ LeaseExpires(p) \/ OwnerStalls(p)
      PROVE  Goal
  BY <1>0, <1>2 DEF Enqueue, BecomeDue, LeaseExpires, OwnerStalls, LoseLease
<1>3. ASSUME NEW a \in Admin, ManualRetryRead(a)
      PROVE  Goal
  BY <1>0, <1>3 DEF ManualRetryRead
<1>4. ASSUME NEW a \in Admin, ManualRetryWrite(a)
      PROVE  Goal
  <2>1. o \notin chosen[a]
    BY <1>4 DEF ManualRetryWrite
  <2>2. status'[o] = status[o] /\ owner'[o] = owner[o]
    BY <1>4, <2>1 DEF ManualRetryWrite
  <2>3. QED
    BY <1>0, <1>4, <2>2 DEF ManualRetryWrite
<1>5. ASSUME NEW v \in Worker, Claim(v)
      PROVE  Goal
  <2>1. status'[o] = status[o] /\ owner'[o] = owner[o]
    BY <1>5 DEF Claim
  <2>2. \A w \in Worker : phase[w] \in {"audit", "dead"} => job'[w] = job[w] /\ phase'[w] = phase[w]
    BY <1>5 DEF Claim
  <2>3. UNCHANGED audited
    BY <1>5 DEF Claim
  <2>4. QED
    BY <1>0, <2>1, <2>2, <2>3
<1>6. ASSUME NEW v \in Worker, HandlerEnds(v)
      PROVE  Goal
  BY <1>0, <1>6 DEF HandlerEnds
\* The slot that settles the row is to audit it, or has died.
<1>7. ASSUME NEW v \in Worker, phase[v] \in {"handling", "returned"},
             phase' \in {[phase EXCEPT ![v] = "audit"], [phase EXCEPT ![v] = "dead"]},
             UNCHANGED <<owner, job, audited>>,
             status'[o] # status[o] => Owns(v) /\ job[v] = o
      PROVE  Goal
  <2>1. CASE status'[o] = status[o]
    BY <1>0, <1>7, <2>1
  <2>2. CASE status'[o] # status[o]
    BY <1>7, <2>2 DEF Owns
  <2>3. QED
    BY <2>1, <2>2
<1>8. ASSUME NEW v \in Worker, MarkSucceeded(v)
      PROVE  Goal
  <2>1. status'[o] # status[o] => Owns(v) /\ job[v] = o
    BY <1>8 DEF MarkSucceeded
  <2>2. QED
    BY <1>7, <1>8, <2>1 DEF MarkSucceeded
<1>9. ASSUME NEW v \in Worker, MarkFailed(v) \/ Shutdown(v)
      PROVE  Goal
  <2>1. \E e \in Failure : WriteFailure(v, e)
    BY <1>9 DEF MarkFailed, Shutdown, Die, Outcome, Failure
  <2>2. status'[o] # status[o] => Owns(v) /\ job[v] = o
    BY <2>1 DEF WriteFailure
  <2>3. QED
    BY <1>7, <1>9, <2>2 DEF MarkFailed, Shutdown, Die
<1>10. ASSUME NEW v \in Worker, RecordAudit(v)
       PROVE  Goal
  <2>1. /\ status'[o] = status[o] /\ owner'[o] = owner[o]
        /\ audited' = [audited EXCEPT ![job[v]] = @ \cup {AuditedOutcome(v)}]
    BY <1>10 DEF RecordAudit
  <2>2. CASE job[v] = o /\ owner[o] = v
    BY <1>10, <2>1, <2>2 DEF AuditAgrees, RecordAudit
  <2>3. CASE ~(job[v] = o /\ owner[o] = v)
    <3>1. audited[o] \subseteq audited'[o]
      BY <2>1
    <3>2. \A w \in Worker : w # v => job'[w] = job[w] /\ phase'[w] = phase[w]
      BY <1>10 DEF RecordAudit
    <3>3. QED
      BY <1>0, <2>1, <2>3, <3>1, <3>2
  <2>4. QED
    BY <2>2, <2>3
<1>11. ASSUME NEW v \in Worker, RenewLease(v) \/ HeartbeatFails(v) \/ Crash(v)
       PROVE  Goal
  BY <1>0, <1>11 DEF RenewLease, HeartbeatFails, Crash, Die
<1>12. QED
  BY <1>1, <1>2, <1>3, <1>4, <1>5, <1>6, <1>8, <1>9, <1>10, <1>11 DEF Next

\* A settled row has its outcome in the audit log, unless the slot that
\* settled it is still to write it or died before it could.
THEOREM OutcomesAreAudited == Spec => []OutcomeIsAudited
<1> DEFINE AInv == OwnedWorkIsRunning /\ AuditAgrees /\ OutcomeIsAudited
<1>1. Init => AInv
  BY DEF Init, OwnedWorkIsRunning, AuditAgrees, OutcomeIsAudited, Executing, Settled
<1>2. IInv /\ AInv /\ [Next]_vars => AInv'
  BY StepOwnedWork, StepAuditAgrees, StepOutcomeAudited
<1>3. QED
  BY <1>1, <1>2, QueueInvariant, PTL DEF Spec
=============================================================================
