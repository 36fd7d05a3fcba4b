------------------------- MODULE WebhookInboxProofs -------------------------
(***************************************************************************)
(* What WebhookInbox promises, for any callbacks, requests, slots and      *)
(* budgets.                                                                *)
(*                                                                         *)
(* A slot that has lost its event still writes the event's end, so nothing *)
(* can be said of slots at work in general.  Fresh events, which nothing   *)
(* has disturbed, are in the hands of their owner alone: that carries      *)
(* OnceOnly.  An end that is written also ends the ownership, whoever      *)
(* writes it, and a manual retry leaves the ownership alone if it was      *)
(* loaded without one, as the first retry is: that carries NoEventIsLost.  *)
(***************************************************************************)
EXTENDS WebhookInbox, FiniteSetTheorems, TLAPS

Grounded ==
    /\ \A w \in Worker : phase[w] \in AtWork => job[w] \in Event
    /\ \A d \in Delivery : reply[d] # "none" => carries[d] \in Event

Sound == TypeOK /\ Grounded

-----------------------------------------------------------------------------
(* Types *)

LEMMA InitSound == Init => Sound
<1> SUFFICES ASSUME Init PROVE Sound
  OBVIOUS
<1>1. TypeOK
  BY InboxAssumption DEF Init, TypeOK, Status, Retryable, AtWork, NotLoaded
<1>2. QED
  BY <1>1 DEF Init, Sound, Grounded, AtWork

\* The end of a slot's item keeps the types.
LEMMA EndTyped ==
  ASSUME Sound, NEW w \in Worker, EndRun(w) \/ Die(w)
  PROVE  /\ phase' \in [Worker -> AtWork \cup {"idle", "serving", "dead"}]
         /\ turn' \in [Worker -> {"callback", "operation"}]
         /\ job' \in [Worker -> Event \cup {NoEvent}]
         /\ seen' \in [Worker -> Nat]
         /\ beat' \in [Worker -> {"off", "on", "stopped", "failed"}]
         /\ phase'[w] \in {"idle", "dead"} /\ (Die(w) => phase'[w] = "dead")
         /\ \A v \in Worker \ {w} : /\ phase'[v] = phase[v] /\ job'[v] = job[v]
                                    /\ seen'[v] = seen[v] /\ beat'[v] = beat[v]
<1>1. CASE EndRun(w)
  <2>1. OtherTurn(w) \in {"callback", "operation"}
    BY DEF OtherTurn
  <2>2. ~Die(w) \/ phase'[w] = "dead"
    BY DEF Die, Sound, TypeOK
  <2>3. QED
    BY <1>1, <2>1, <2>2 DEF EndRun, Sound, TypeOK
<1>2. CASE Die(w)
  BY <1>2 DEF Die, Sound, TypeOK
<1>3. QED
  BY <1>1, <1>2

\* The end that is written to a row is one it may have.
LEMMA ReleaseTyped ==
  ASSUME Sound, NEW e \in Event, NEW s \in Status, Release(e, s)
  PROVE  /\ status' \in [Event -> Status] /\ owner' \in [Event -> Worker \cup {NoWorker}]
         /\ lease' \in [Event -> {"none", "held", "expired"}]
         /\ status'[e] = s /\ owner'[e] = NoWorker /\ lease'[e] = "none"
         /\ \A f \in Event \ {e} : /\ status'[f] = status[f] /\ owner'[f] = owner[f]
                                   /\ lease'[f] = lease[f]
  BY DEF Release, Sound, TypeOK

LEMMA FailureTyped == \A w \in Worker : FailureStatus(w) \in {"dead_letter", "retry_wait"}
  BY DEF FailureStatus

LEMMA DeliverySound ==
  ASSUME Sound, NEW d \in Delivery, LookUp(d) \/ Insert(d)
  PROVE  Sound'
<1>1. CASE LookUp(d)
  <2>1. PICK e \in Event, r \in {"inserting", "duplicate"} :
          carries' = [carries EXCEPT ![d] = e] /\ reply' = [reply EXCEPT ![d] = r]
    BY <1>1 DEF LookUp
  <2>2. UNCHANGED <<rows, slots, admins, history, budgets>>
    BY <1>1 DEF LookUp
  <2>3. carries' \in [Delivery -> Event \cup {NoEvent}]
        /\ reply' \in [Delivery -> {"none", "inserting", "stored", "duplicate"}]
    BY <2>1 DEF Sound, TypeOK
  <2>4. \A c \in Delivery : reply'[c] # "none" => carries'[c] \in Event
    BY <2>1 DEF Sound, TypeOK, Grounded
  <2>5. QED
    BY <2>2, <2>3, <2>4 DEF Sound, TypeOK, Grounded, rows, slots, admins, history, budgets
<1>2. CASE Insert(d)
  <2>1. carries[d] \in Event /\ reply[d] # "none"
    BY <1>2 DEF Insert, Sound, Grounded
  <2>2. /\ status' \in [Event -> Status] /\ due' \in [Event -> BOOLEAN]
        /\ reply' \in [Delivery -> {"none", "inserting", "stored", "duplicate"}]
        /\ \A c \in Delivery : reply'[c] # "none" => reply[c] # "none"
    <3>1. CASE Fresh(carries[d])
      <4>1. /\ reply' = [reply EXCEPT ![d] = "stored"]
            /\ status' = [status EXCEPT ![carries[d]] = "received"]
            /\ due' = [due EXCEPT ![carries[d]] = TRUE]
        BY <1>2, <3>1 DEF Insert
      <4>2. status' \in [Event -> Status] /\ due' \in [Event -> BOOLEAN]
        BY <2>1, <4>1 DEF Sound, TypeOK, Status
      <4>3. QED
        BY <2>1, <4>1, <4>2 DEF Sound, TypeOK
    <3>2. CASE ~Fresh(carries[d])
      <4>1. reply' = [reply EXCEPT ![d] = "duplicate"] /\ UNCHANGED <<status, due>>
        BY <1>2, <3>2 DEF Insert
      <4>2. QED
        BY <2>1, <4>1 DEF Sound, TypeOK
    <3>3. QED
      BY <3>1, <3>2
  <2>3. UNCHANGED <<owner, lease, attempts, carries, slots, admins, history, budgets>>
    BY <1>2 DEF Insert
  <2>4. QED
    BY <2>2, <2>3 DEF Sound, TypeOK, Grounded, slots, admins, history, budgets
<1>3. QED
  BY <1>1, <1>2

LEMMA RetrySound ==
  ASSUME Sound, NEW a \in Admin, RetryRead(a) \/ RetryWrite(a)
  PROVE  Sound'
<1>1. CASE RetryRead(a)
  <2>1. PICK e \in Event :
          /\ status[e] \in Retryable
          /\ retrying' = [retrying EXCEPT ![a] = e]
          /\ loaded' = [loaded EXCEPT ![a] = [status |-> status[e], owned |-> owner[e] # NoWorker]]
    BY <1>1 DEF RetryRead
  <2>2. retries' \in 0..RetryBudget
    BY <1>1, InboxAssumption DEF RetryRead, Sound, TypeOK
  <2>3. UNCHANGED <<rows, requests, slots, history, crashes, stalls>>
    BY <1>1 DEF RetryRead
  <2>4. QED
    BY <2>1, <2>2, <2>3 DEF Sound, TypeOK, Grounded, rows, requests, slots, history
<1>2. CASE RetryWrite(a)
  <2>1. retrying[a] \in Event
    BY <1>2 DEF RetryWrite, Sound, TypeOK
  <2>2. /\ status' \in [Event -> Status] /\ attempts' \in [Event -> Nat]
        /\ owner' \in [Event -> Worker \cup {NoWorker}]
        /\ lease' \in [Event -> {"none", "held", "expired"}]
    BY <1>2, <2>1 DEF RetryWrite, Sound, TypeOK, Status
  <2>6. due' \in [Event -> BOOLEAN]
    <3>1. PICK x \in {TRUE, due[retrying[a]]} : due' = [due EXCEPT ![retrying[a]] = x]
      BY <1>2 DEF RetryWrite
    <3>2. x \in BOOLEAN
      BY <2>1, <3>1 DEF Sound, TypeOK
    <3>3. QED
      BY <3>1, <3>2 DEF Sound, TypeOK
  <2>3. /\ retrying' \in [Admin -> Event \cup {NoEvent}] /\ disturbed' \subseteq Event
        /\ loaded' \in [Admin -> [status : Retryable, owned : BOOLEAN]]
    BY <1>2, <2>1 DEF RetryWrite, NotLoaded, Retryable, Sound, TypeOK
  <2>4. UNCHANGED <<requests, slots, effects, budgets>>
    BY <1>2 DEF RetryWrite
  <2>5. QED
    BY <2>2, <2>3, <2>4, <2>6 DEF Sound, TypeOK, Grounded, requests, slots, budgets
<1>3. QED
  BY <1>1, <1>2

LEMMA TimeSound ==
  ASSUME Sound, NEW e \in Event, BecomeDue(e) \/ LeaseExpires(e) \/ OwnerStalls(e)
  PROVE  Sound'
<1>1. stalls' \in 0..StallBudget
  BY InboxAssumption DEF BecomeDue, LeaseExpires, OwnerStalls, LoseLease, budgets, Sound, TypeOK
<1>2. CASE BecomeDue(e)
  BY <1>2 DEF BecomeDue, Sound, TypeOK, Grounded, requests, slots, admins, history, budgets
<1>3. CASE LoseLease(e)
  BY <1>1, <1>3 DEF LoseLease, Sound, TypeOK, Grounded, requests, slots, admins
<1>4. QED
  BY <1>2, <1>3 DEF LeaseExpires, OwnerStalls

LEMMA ClaimSound ==
  ASSUME Sound, NEW w \in Worker, Claim(w)
  PROVE  Sound'
<1>1. PICK e \in Event :
        /\ status'   = [status EXCEPT ![e] = "processing"]
        /\ owner'    = [owner EXCEPT ![e] = w]
        /\ lease'    = [lease EXCEPT ![e] = "held"]
        /\ attempts' = [attempts EXCEPT ![e] = @ + 1]
        /\ job'      = [job EXCEPT ![w] = e]
        /\ seen'     = [seen EXCEPT ![w] = attempts[e] + 1]
  BY DEF Claim
<1>2. /\ phase' = [phase EXCEPT ![w] = "handling"] /\ beat' = [beat EXCEPT ![w] = "on"]
      /\ UNCHANGED <<due, requests, turn, admins, history, budgets>>
  BY DEF Claim
<1>3. /\ status' \in [Event -> Status] /\ owner' \in [Event -> Worker \cup {NoWorker}]
      /\ lease' \in [Event -> {"none", "held", "expired"}] /\ attempts' \in [Event -> Nat]
  BY <1>1 DEF Sound, TypeOK, Status
<1>4. /\ phase' \in [Worker -> AtWork \cup {"idle", "serving", "dead"}]
      /\ job' \in [Worker -> Event \cup {NoEvent}] /\ seen' \in [Worker -> Nat]
      /\ beat' \in [Worker -> {"off", "on", "stopped", "failed"}]
  BY <1>1, <1>2 DEF Sound, TypeOK, AtWork
<1>5. QED
  BY <1>1, <1>2, <1>3, <1>4 DEF Sound, TypeOK, Grounded, requests, admins, history, budgets

\* A slot takes an operation, handles its event, or renews its lease.
LEMMA WorkSound ==
  ASSUME Sound, NEW w \in Worker,
         TakeOperation(w) \/ ApplyProduct(w) \/ HandlerRaises(w) \/ RenewLease(w) \/ HeartbeatFails(w)
  PROVE  Sound'
<1>1. CASE TakeOperation(w)
  BY <1>1 DEF TakeOperation, Sound, TypeOK, Grounded, AtWork, rows, requests, admins, history, budgets
<1>2. CASE ApplyProduct(w)
  <2>1. job[w] \in Event
    BY <1>2 DEF ApplyProduct, Sound, Grounded, AtWork
  <2>2. QED
    BY <1>2, <2>1 DEF ApplyProduct, Sound, TypeOK, Grounded, AtWork, rows, requests, admins, budgets
<1>3. CASE HandlerRaises(w)
  BY <1>3 DEF HandlerRaises, Sound, TypeOK, Grounded, AtWork, rows, requests, admins, history, budgets
<1>4. CASE RenewLease(w)
  <2>1. job[w] \in Event
    BY <1>4 DEF RenewLease, Sound, Grounded
  <2>2. QED
    BY <1>4, <2>1 DEF RenewLease, Sound, TypeOK, Grounded, requests, admins, history, budgets
<1>5. CASE HeartbeatFails(w)
  BY <1>5, InboxAssumption DEF HeartbeatFails, MayEnd, Sound, TypeOK, Grounded, rows, requests,
     admins, history
<1>6. QED
  BY <1>1, <1>2, <1>3, <1>4, <1>5

\* A slot ends its item.
LEMMA EndSound ==
  ASSUME Sound, NEW w \in Worker,
         EndOperation(w) \/ Finish(w) \/ MarkFailed(w) \/ Crash(w) \/ Shutdown(w)
  PROVE  Sound'
<1>1. EndRun(w) \/ Die(w)
  BY DEF EndOperation, Finish, MarkFailed, Crash, Shutdown
<1>2. crashes' \in 0..CrashBudget /\ UNCHANGED <<stalls, retries>>
  BY InboxAssumption DEF EndOperation, Finish, MarkFailed, Crash, Shutdown, MayEnd, budgets,
     Sound, TypeOK
<1>3. UNCHANGED <<attempts, requests, admins>>
  BY DEF EndOperation, Finish, MarkFailed, Crash, Shutdown, rows
<1>4. Grounded'
  BY <1>1, <1>3, EndTyped DEF Sound, Grounded, AtWork, requests
<1>5. CASE UNCHANGED <<rows, history>>
  BY <1>1, <1>2, <1>3, <1>4, <1>5, EndTyped DEF Sound, TypeOK, rows, requests, admins, history
<1>6. ASSUME NEW s \in Status, Release(job[w], s), job[w] \in Event,
             due' \in [Event -> BOOLEAN], effects' \in [Event -> Nat], disturbed' \subseteq Event
      PROVE  Sound'
  BY <1>1, <1>2, <1>3, <1>4, <1>6, EndTyped, ReleaseTyped DEF Sound, TypeOK, requests, admins
<1>7. CASE Finish(w)
  <2>1. job[w] \in Event
    BY <1>7 DEF Finish, Sound, Grounded, AtWork
  <2>2. QED
    BY <1>6, <1>7, <2>1 DEF Finish, Sound, TypeOK, Status
<1>8. CASE MarkFailed(w) \/ Shutdown(w)
  <2>1. job[w] \in Event
    BY <1>8 DEF MarkFailed, Shutdown, Sound, Grounded, AtWork
  <2>2. WriteFailure(w) /\ effects' = effects
    BY <1>8 DEF MarkFailed, Shutdown
  <2>3. FailureStatus(w) \in Status
    BY FailureTyped DEF Status
  <2>4. LastAttempt(w) \in BOOLEAN
    BY DEF LastAttempt
  <2>5. due' \in [Event -> BOOLEAN] /\ disturbed' \subseteq Event
    BY <2>1, <2>2, <2>4 DEF WriteFailure, Sound, TypeOK
  <2>6. QED
    BY <1>6, <2>1, <2>2, <2>3, <2>5 DEF WriteFailure, Sound, TypeOK
<1>9. QED
  BY <1>5, <1>7, <1>8 DEF EndOperation, Crash

LEMMA StepSound ==
  ASSUME Sound, [Next]_vars
  PROVE  Sound'
<1>1. CASE UNCHANGED vars
  BY <1>1 DEF Sound, TypeOK, Grounded, vars, rows, requests, slots, admins, history, budgets
<1>2. QED
  BY <1>1, DeliverySound, RetrySound, TimeSound, ClaimSound, WorkSound, EndSound DEF Next

\* The types of events, requests and slots are preserved by every step of any
\* number of them.
THEOREM TypeCorrect == Spec => []TypeOK
<1>1. Sound => TypeOK
  BY DEF Sound
<1>2. QED
  BY <1>1, InitSound, StepSound, PTL DEF Spec

-----------------------------------------------------------------------------
(* Storing *)

\* What a slot or an admin has in hands is stored.
Known ==
    /\ \A w \in Worker : phase[w] \in AtWork => status[job[w]] # "absent"
    /\ \A a \in Admin : retrying[a] \in Event => status[retrying[a]] # "absent"

\* The request that stored an event, and those that found it stored.
Stored ==
    /\ \A d \in Delivery : reply[d] \in {"stored", "duplicate"} => status[carries[d]] # "absent"
    /\ \A e \in Event : status[e] # "absent" =>
          \E d \in Delivery : carries[d] = e /\ reply[d] = "stored"
    /\ \A c, d \in Delivery :
          reply[c] = "stored" /\ reply[d] = "stored" /\ carries[c] = carries[d] => c = d

\* An event that is stored stays, and only a request stores one.
LEMMA StatusSteps ==
  ASSUME Sound, Known, [Next]_vars, NEW e \in Event
  PROVE  /\ status[e] # "absent" => status'[e] # "absent"
         /\ status[e] = "absent" => status'[e] = "absent" \/ \E d \in Delivery : Insert(d)
<1>1. CASE status'[e] = status[e]
  BY <1>1
<1>2. ASSUME NEW d \in Delivery, Insert(d)
      PROVE  status[e] # "absent" => status'[e] # "absent"
  BY <1>2 DEF Insert, Sound, TypeOK
<1>3. ASSUME NEW a \in Admin, RetryWrite(a)
      PROVE  status[e] # "absent" <=> status'[e] # "absent"
  <2>1. retrying[a] \in Event /\ status[retrying[a]] # "absent"
    BY <1>3 DEF RetryWrite, Sound, TypeOK, Known
  <2>2. QED
    BY <1>3, <2>1 DEF RetryWrite, Sound, TypeOK
<1>4. ASSUME NEW w \in Worker, Claim(w)
      PROVE  status[e] # "absent" <=> status'[e] # "absent"
  <2>1. PICK f \in Event : Claimable(f) /\ status' = [status EXCEPT ![f] = "processing"]
    BY <1>4 DEF Claim
  <2>2. QED
    BY <2>1 DEF Claimable, Waiting, Sound, TypeOK
<1>5. ASSUME NEW w \in Worker, Finish(w) \/ MarkFailed(w) \/ Shutdown(w)
      PROVE  status[e] # "absent" <=> status'[e] # "absent"
  <2>1. job[w] \in Event /\ status[job[w]] # "absent"
    BY <1>5 DEF Finish, MarkFailed, Shutdown, Sound, Grounded, Known, AtWork
  <2>2. \E s \in {"processed", "dead_letter", "retry_wait"} : status' = [status EXCEPT ![job[w]] = s]
    BY <1>5, FailureTyped DEF Finish, MarkFailed, Shutdown, WriteFailure, Release
  <2>3. QED
    BY <2>1, <2>2 DEF Sound, TypeOK
<1>6. QED
  BY <1>1, <1>2, <1>3, <1>4, <1>5
     DEF Next, vars, rows, LookUp, RetryRead, BecomeDue, LeaseExpires, OwnerStalls, LoseLease,
         TakeOperation, EndOperation, ApplyProduct, HandlerRaises, RenewLease, HeartbeatFails,
         Crash

\* What is in hands changes only by a claim and by the read of a retry.
LEMMA StepKnown ==
  ASSUME Sound, Known, [Next]_vars
  PROVE  Known'
<1>1. \A e \in Event : status[e] # "absent" => status'[e] # "absent"
  BY StatusSteps
<1>2. ASSUME NEW w \in Worker, phase'[w] \in AtWork
      PROVE  status'[job'[w]] # "absent"
  <2>1. CASE phase[w] \in AtWork /\ job'[w] = job[w]
    BY <1>1, <2>1 DEF Sound, Grounded, Known
  <2>2. ASSUME NEW v \in Worker, Claim(v)
        PROVE  status'[job'[w]] # "absent"
    <3>1. PICK e \in Event :
            /\ status' = [status EXCEPT ![e] = "processing"]
            /\ job' = [job EXCEPT ![v] = e] /\ phase' = [phase EXCEPT ![v] = "handling"]
      BY <2>2 DEF Claim
    <3>2. QED
      BY <1>1, <1>2, <3>1 DEF Sound, TypeOK, Grounded, Known
  <2>3. ASSUME NEW v \in Worker, EndRun(v) \/ Die(v)
        PROVE  phase[w] \in AtWork /\ job'[w] = job[w]
    BY <1>2, <2>3, EndTyped DEF AtWork
  <2>4. ASSUME NEW v \in Worker, ApplyProduct(v) \/ HandlerRaises(v) \/ TakeOperation(v)
        PROVE  phase[w] \in AtWork /\ job'[w] = job[w]
    BY <1>2, <2>4 DEF ApplyProduct, HandlerRaises, TakeOperation, AtWork, Sound, TypeOK
  <2>5. QED
    BY <1>2, <2>1, <2>2, <2>3, <2>4
       DEF Next, vars, slots, LookUp, Insert, RetryRead, RetryWrite, BecomeDue, LeaseExpires,
           OwnerStalls, LoseLease, EndOperation, Finish, MarkFailed, RenewLease, HeartbeatFails,
           Crash, Shutdown
<1>3. ASSUME NEW a \in Admin, retrying'[a] \in Event
      PROVE  status'[retrying'[a]] # "absent"
  <2>1. CASE retrying'[a] = retrying[a]
    BY <1>1, <1>3, <2>1 DEF Known
  <2>2. ASSUME NEW b \in Admin, RetryRead(b)
        PROVE  status'[retrying'[a]] # "absent"
    BY <1>1, <1>3, <2>1, <2>2 DEF RetryRead, Retryable, Sound, TypeOK
  <2>3. ASSUME NEW b \in Admin, RetryWrite(b)
        PROVE  retrying'[a] = retrying[a]
    BY <1>3, <2>3, InboxAssumption DEF RetryWrite, Sound, TypeOK
  <2>4. UNCHANGED admins \/ \E b \in Admin : RetryRead(b) \/ RetryWrite(b)
    BY DEF Next, vars, LookUp, Insert, BecomeDue, LeaseExpires, OwnerStalls, LoseLease, Claim,
           TakeOperation, EndOperation, ApplyProduct, HandlerRaises, Finish, MarkFailed,
           RenewLease, HeartbeatFails, Crash, Shutdown
  <2>5. QED
    BY <2>1, <2>2, <2>3, <2>4 DEF admins
<1>4. QED
  BY <1>2, <1>3 DEF Known

LEMMA StepStored ==
  ASSUME Sound, Known, Stored, [Next]_vars
  PROVE  Stored'
<1>1. \A e \in Event : status[e] # "absent" => status'[e] # "absent"
  BY StatusSteps
<1>2. ASSUME NEW d \in Delivery, LookUp(d)
      PROVE  Stored'
  <2>1. PICK e \in Event :
          /\ carries[d] = NoEvent /\ carries' = [carries EXCEPT ![d] = e]
          /\ reply' = [reply EXCEPT ![d] = IF status[e] = "absent" THEN "inserting" ELSE "duplicate"]
          /\ status' = status
    BY <1>2 DEF LookUp, rows
  <2>2. reply[d] = "none"
    BY <2>1, InboxAssumption DEF Sound, Grounded, TypeOK
  <2>3. QED
    BY <2>1, <2>2 DEF Stored, Sound, TypeOK
<1>3. ASSUME NEW d \in Delivery, Insert(d)
      PROVE  Stored'
  <2>1. carries[d] \in Event /\ reply[d] = "inserting" /\ carries' = carries
    BY <1>3 DEF Insert, Sound, Grounded
  <2>2. CASE status[carries[d]] = "absent"
    <3>1. /\ reply' = [reply EXCEPT ![d] = "stored"]
          /\ status' = [status EXCEPT ![carries[d]] = "received"]
      BY <1>3, <2>2 DEF Insert, Fresh
    <3>2. \A c \in Delivery : reply[c] = "stored" => carries[c] # carries[d]
      BY <2>2 DEF Stored
    <3>3. QED
      BY <1>1, <2>1, <3>1, <3>2 DEF Stored, Sound, TypeOK, Grounded
  <2>3. CASE status[carries[d]] # "absent"
    <3>1. reply' = [reply EXCEPT ![d] = "duplicate"] /\ status' = status
      BY <1>3, <2>3 DEF Insert, Fresh
    <3>2. QED
      BY <2>1, <2>3, <3>1 DEF Stored, Sound, TypeOK
  <2>4. QED
    BY <2>2, <2>3
<1>4. CASE UNCHANGED requests /\ ~\E d \in Delivery : Insert(d)
  <2>1. \A e \in Event : status'[e] = "absent" <=> status[e] = "absent"
    BY <1>4, StatusSteps
  <2>2. QED
    BY <1>4, <2>1 DEF Stored, Sound, Grounded, requests
<1>5. UNCHANGED requests \/ \E d \in Delivery : LookUp(d) \/ Insert(d)
  BY DEF Next, vars, RetryRead, RetryWrite, BecomeDue, LeaseExpires, OwnerStalls, LoseLease,
         Claim, TakeOperation, EndOperation, ApplyProduct, HandlerRaises, Finish, MarkFailed,
         RenewLease, HeartbeatFails, Crash, Shutdown
<1>6. QED
  BY <1>2, <1>3, <1>4, <1>5

LEMMA StoredIsOnce == Sound /\ Stored => StoredOnce
<1> SUFFICES ASSUME Sound, Stored, NEW e \in Event
             PROVE  LET answered(r) == {d \in Delivery : carries[d] = e /\ reply[d] = r} IN
                    /\ Cardinality(answered("stored")) <= 1
                    /\ answered("duplicate") # {} => status[e] # "absent"
                    /\ status[e] # "absent" => answered("stored") # {}
  BY DEF StoredOnce
<1> DEFINE S == {d \in Delivery : carries[d] = e /\ reply[d] = "stored"}
<1>1. Cardinality(S) <= 1
  <2>1. CASE S = {}
    BY <2>1, FS_EmptySet
  <2>2. CASE S # {}
    <3>1. PICK d \in S : TRUE
      BY <2>2
    <3>2. S = {d}
      BY <3>1 DEF Stored
    <3>3. HIDE DEF S
    <3>4. QED
      BY <3>2, FS_Singleton
  <2>3. QED
    BY <2>1, <2>2
<1>2. QED
  BY <1>1 DEF Stored

-----------------------------------------------------------------------------
(* Effects *)

\* An event that nothing has disturbed: a slot that holds it owns it, under a
\* lease that has not expired, and its effects are not committed before.
Quiet(e) ==
    /\ effects[e] <= 1
    /\ lease[e] # "expired"
    /\ status[e] \in {"absent"} \cup Waiting => effects[e] = 0
    /\ \A w \in Worker : Holding(w, e) =>
          status[e] = "processing" /\ owner[e] = w /\ (phase[w] = "handling" => effects[e] = 0)

\* The row and the effects are left alone, and no slot takes the event.
LEMMA QuietStays ==
  ASSUME NEW e \in Event, Quiet(e),
         status'[e] = status[e], owner'[e] = owner[e], effects'[e] = effects[e],
         lease'[e] = lease[e] \/ lease'[e] # "expired",
         \A w \in Worker : phase'[w] \in AtWork /\ job'[w] = e =>
             phase[w] \in AtWork /\ job[w] = e /\ (phase'[w] = "handling" => phase[w] = "handling")
  PROVE  Quiet(e)'
  BY DEF Quiet, Holding

\* Events whose history goes on undisturbed.
LEMMA DisturbedGrows == [Next]_vars => disturbed \subseteq disturbed'
<1>1. ASSUME NEW w \in Worker, MarkFailed(w) \/ Shutdown(w)
      PROVE  disturbed \subseteq disturbed'
  BY <1>1 DEF MarkFailed, Shutdown, WriteFailure
<1>2. QED
  BY <1>1 DEF Next, vars, history, LookUp, Insert, RetryRead, RetryWrite, BecomeDue, LeaseExpires,
     OwnerStalls, LoseLease, Claim, TakeOperation, EndOperation, ApplyProduct, HandlerRaises,
     Finish, RenewLease, HeartbeatFails, Crash

LEMMA StepQuiet ==
  ASSUME Sound, [Next]_vars, NEW e \in Event, e \notin disturbed', Quiet(e)
  PROVE  Quiet(e)'
<1>1. CASE UNCHANGED <<rows, slots, effects>>
  BY <1>1, QuietStays DEF rows, slots
<1>2. ASSUME NEW d \in Delivery, Insert(d)
      PROVE  Quiet(e)'
  <2>1. UNCHANGED <<owner, lease, slots, effects>>
    BY <1>2 DEF Insert, history
  <2>2. status'[e] = status[e] \/ (status[e] = "absent" /\ status'[e] = "received")
    BY <1>2 DEF Insert, Fresh, Sound, TypeOK, Grounded
  <2>3. QED
    BY <2>1, <2>2 DEF Quiet, Holding, Waiting, slots
<1>3. ASSUME NEW a \in Admin, RetryWrite(a)
      PROVE  Quiet(e)'
  <2>1. retrying[a] \in Event /\ e # retrying[a] /\ UNCHANGED <<slots, effects>>
    BY <1>3 DEF RetryWrite, Sound, TypeOK
  <2>2. status'[e] = status[e] /\ owner'[e] = owner[e] /\ lease'[e] = lease[e]
    BY <1>3, <2>1 DEF RetryWrite, Sound, TypeOK
  <2>3. QED
    BY <2>1, <2>2, QuietStays DEF slots
<1>4. ASSUME NEW f \in Event, BecomeDue(f) \/ LeaseExpires(f) \/ OwnerStalls(f)
      PROVE  Quiet(e)'
  <2>1. UNCHANGED <<status, owner, slots, effects>>
    BY <1>4 DEF BecomeDue, LeaseExpires, OwnerStalls, LoseLease, history
  <2>2. lease'[e] = lease[e]
    BY <1>4 DEF BecomeDue, LeaseExpires, OwnerStalls, LoseLease, Sound, TypeOK
  <2>3. QED
    BY <2>1, <2>2, QuietStays DEF slots
<1>5. ASSUME NEW w \in Worker, Claim(w)
      PROVE  Quiet(e)'
  <2>1. PICK f \in Event :
          /\ Claimable(f)
          /\ status' = [status EXCEPT ![f] = "processing"] /\ owner' = [owner EXCEPT ![f] = w]
          /\ lease' = [lease EXCEPT ![f] = "held"] /\ job' = [job EXCEPT ![w] = f]
    BY <1>5 DEF Claim
  <2>2. phase[w] = "idle" /\ phase' = [phase EXCEPT ![w] = "handling"] /\ effects' = effects
    BY <1>5 DEF Claim, history
  <2>3. \A v \in Worker \ {w} : phase'[v] = phase[v] /\ job'[v] = job[v]
    BY <2>1, <2>2 DEF Sound, TypeOK
  <2>4. phase'[w] = "handling" /\ job'[w] = f
    BY <2>1, <2>2 DEF Sound, TypeOK
  <2>5. CASE e # f
    <3>1. status'[e] = status[e] /\ owner'[e] = owner[e] /\ lease'[e] = lease[e]
      BY <2>1, <2>5 DEF Sound, TypeOK
    <3>2. QED
      BY <2>2, <2>3, <2>4, <2>5, <3>1, QuietStays
  <2>6. CASE e = f
    <3>1. status[e] \in Waiting
      BY <2>1, <2>6 DEF Claimable, Quiet
    <3>2. effects[e] = 0 /\ \A v \in Worker : ~Holding(v, e)
      BY <3>1 DEF Quiet, Waiting
    <3>3. status'[e] = "processing" /\ owner'[e] = w /\ lease'[e] = "held" /\ effects'[e] = 0
      BY <2>1, <2>2, <2>6, <3>2 DEF Sound, TypeOK
    <3>4. QED
      BY <2>3, <3>2, <3>3 DEF Quiet, Holding, Waiting
  <2>7. QED
    BY <2>5, <2>6
<1>6. ASSUME NEW w \in Worker, ApplyProduct(w)
      PROVE  Quiet(e)'
  <2>1. /\ phase[w] = "handling" /\ job[w] \in Event /\ UNCHANGED <<status, owner, lease, job>>
        /\ phase' = [phase EXCEPT ![w] = "applied"]
        /\ effects' = [effects EXCEPT ![job[w]] = @ + 1]
    BY <1>6 DEF ApplyProduct, Sound, Grounded, AtWork, rows
  <2>2. /\ phase'[w] = "applied" /\ \A v \in Worker \ {w} : phase'[v] = phase[v]
        /\ effects'[e] = IF e = job[w] THEN effects[e] + 1 ELSE effects[e]
    BY <2>1 DEF Sound, TypeOK
  <2>3. CASE e # job[w]
    BY <2>1, <2>2, <2>3, QuietStays
  <2>4. CASE e = job[w]
    <3>1. status[e] = "processing" /\ owner[e] = w /\ effects[e] = 0
      BY <2>1, <2>4 DEF Quiet, Holding, AtWork
    <3>2. QED
      BY <2>1, <2>2, <2>4, <3>1 DEF Quiet, Holding, Waiting, AtWork
  <2>5. QED
    BY <2>3, <2>4
<1>7. ASSUME NEW w \in Worker, Finish(w)
      PROVE  Quiet(e)'
  <2>1. /\ phase[w] \in {"handling", "applied"} /\ job[w] \in Event
        /\ Release(job[w], "processed") /\ EndRun(w)
        /\ effects' = [effects EXCEPT ![job[w]] = IF phase[w] = "handling" THEN @ + 1 ELSE @]
    BY <1>7 DEF Finish, Sound, Grounded, AtWork
  <2>2. /\ status'[job[w]] = "processed" /\ lease'[job[w]] = "none"
        /\ \A f \in Event \ {job[w]} : /\ status'[f] = status[f] /\ owner'[f] = owner[f]
                                       /\ lease'[f] = lease[f]
    BY <2>1, ReleaseTyped DEF Status
  <2>3. phase'[w] \notin AtWork /\ \A v \in Worker \ {w} : phase'[v] = phase[v] /\ job'[v] = job[v]
    BY <2>1, EndTyped DEF AtWork
  <2>4. CASE e # job[w]
    <3>1. effects'[e] = effects[e]
      BY <2>1, <2>4 DEF Sound, TypeOK
    <3>2. QED
      BY <2>2, <2>3, <2>4, <3>1, QuietStays
  <2>5. CASE e = job[w]
    <3>1. Holding(w, e)
      BY <2>1, <2>5 DEF Holding, AtWork
    <3>2. \A v \in Worker : Holding(v, e) => v = w
      BY <3>1 DEF Quiet
    <3>3. effects'[e] = IF phase[w] = "handling" THEN effects[e] + 1 ELSE effects[e]
      BY <2>1, <2>5 DEF Sound, TypeOK
    <3>4. effects'[e] <= 1
      BY <3>1, <3>3 DEF Quiet
    <3>5. QED
      BY <2>2, <2>3, <2>5, <3>2, <3>4 DEF Quiet, Holding, Waiting
  <2>6. QED
    BY <2>4, <2>5
<1>8. ASSUME NEW w \in Worker, MarkFailed(w) \/ Shutdown(w)
      PROVE  Quiet(e)'
  <2>1. /\ job[w] \in Event /\ e # job[w] /\ effects' = effects
        /\ Release(job[w], FailureStatus(w)) /\ (EndRun(w) \/ Die(w))
    BY <1>8 DEF MarkFailed, Shutdown, WriteFailure, Sound, Grounded, AtWork
  <2>2. status'[e] = status[e] /\ owner'[e] = owner[e] /\ lease'[e] = lease[e]
    BY <2>1, FailureTyped, ReleaseTyped DEF Status
  <2>3. QED
    BY <2>1, <2>2, EndTyped, QuietStays DEF AtWork
<1>9. ASSUME NEW w \in Worker, EndOperation(w) \/ Crash(w)
      PROVE  Quiet(e)'
  <2>1. UNCHANGED <<rows, effects>> /\ (EndRun(w) \/ Die(w))
    BY <1>9 DEF EndOperation, Crash, history
  <2>2. QED
    BY <2>1, EndTyped, QuietStays DEF AtWork, rows
<1>10. ASSUME NEW w \in Worker,
              TakeOperation(w) \/ HandlerRaises(w) \/ RenewLease(w) \/ HeartbeatFails(w)
       PROVE  Quiet(e)'
  <2>1. UNCHANGED <<status, owner, effects, job>>
    BY <1>10 DEF TakeOperation, HandlerRaises, RenewLease, HeartbeatFails, rows, history
  <2>2. lease'[e] = lease[e] \/ lease'[e] # "expired"
    <3>1. CASE RenewLease(w)
      <4>1. job[w] \in Event
        BY <3>1 DEF RenewLease, Sound, Grounded
      <4>2. QED
        BY <3>1, <4>1 DEF RenewLease, Sound, TypeOK
    <3>2. QED
      BY <1>10, <3>1 DEF TakeOperation, HandlerRaises, HeartbeatFails, rows
  <2>3. \A v \in Worker : phase'[v] \in AtWork =>
           phase[v] \in AtWork /\ (phase'[v] = "handling" => phase[v] = "handling")
    BY <1>10 DEF TakeOperation, HandlerRaises, RenewLease, HeartbeatFails, AtWork, Sound, TypeOK
  <2>4. QED
    BY <2>1, <2>2, <2>3, QuietStays
<1>11. QED
  BY <1>1, <1>2, <1>3, <1>4, <1>5, <1>6, <1>7, <1>8, <1>9, <1>10
     DEF Next, vars, history, LookUp, RetryRead

\* However many requests carry a callback, one stores it; and its effects are
\* committed once, unless an attempt failed, its lease ran out or it was retried
\* by hand.
THEOREM TakesEffectOnce == Spec => []OnceOnly
<1> DEFINE Inv == Sound /\ Known /\ Stored /\ \A e \in Event : e \notin disturbed => Quiet(e)
<1>1. Init => Inv
  <2>1. Init => Known /\ Stored
    BY InboxAssumption DEF Init, Known, Stored, AtWork
  <2>2. Init => \A e \in Event : Quiet(e)
    BY DEF Init, Quiet, Holding, AtWork
  <2>3. QED
    BY <2>1, <2>2, InitSound
<1>2. Inv /\ [Next]_vars => Inv'
  BY StepSound, StepKnown, StepStored, StepQuiet, DisturbedGrows
<1>3. Inv => OnceOnly
  BY StoredIsOnce DEF OnceOnly, EffectsCommittedOnce, Quiet
<1>4. QED
  BY <1>1, <1>2, <1>3, PTL DEF Spec

-----------------------------------------------------------------------------
(* Ownership and the limit, with one manual retry at most *)

OneRetry == RetryBudget \in {0, 1}

\* Whoever is written as the owner of an event is at work on it, or dead; until
\* the retry, which may take an event from its owner, only one in processing
\* has an owner.
Owned(e) ==
    /\ status[e] = "processing" => lease[e] # "none" /\ owner[e] \in Worker
    /\ owner[e] # NoWorker => phase[owner[e]] = "dead" \/ Holding(owner[e], e)
    /\ retries = 0 /\ status[e] # "processing" => owner[e] = NoWorker

\* Until the retry, which resets the count, a slot has seen no more attempts
\* than there were.
Counted(e) ==
    retries = 0 =>
       /\ \A w \in Worker : Holding(w, e) => seen[w] <= attempts[e]
       /\ status[e] = "dead_letter" => attempts[e] >= Limit

\* The retry has loaded its event without an owner, so that it leaves the
\* columns of the ownership as they are.
Unowned ==
    \A a \in Admin :
       /\ loaded[a].owned = FALSE
       /\ retries = 0 => retrying[a] = NoEvent

\* The row is left alone, and so are the slots at work on it, but for those that die.
LEMMA OwnedStays ==
  ASSUME Sound, NEW e \in Event, Owned(e) /\ Counted(e),
         status'[e] = status[e], owner'[e] = owner[e], attempts'[e] = attempts[e],
         lease'[e] = "none" => lease[e] = "none", retries' = 0 => retries = 0,
         \A w \in Worker :
            /\ phase[w] = "dead" => phase'[w] = "dead"
            /\ Holding(w, e) => Holding(w, e)' \/ phase'[w] = "dead"
            /\ Holding(w, e)' => Holding(w, e) /\ seen'[w] = seen[w]
  PROVE  Owned(e)' /\ Counted(e)'
<1>1. owner[e] \in Worker \cup {NoWorker}
  BY DEF Sound, TypeOK
<1>2. Owned(e)'
  BY <1>1 DEF Owned
<1>3. Counted(e)'
  BY DEF Counted
<1>4. QED
  BY <1>2, <1>3

\* The end of an event ends its ownership, and a dead letter has used its limit.
LEMMA OwnedEnds ==
  ASSUME Sound, NEW e \in Event, Owned(e) /\ Counted(e),
         status'[e] # "processing", owner'[e] = NoWorker, attempts'[e] = attempts[e],
         retries = 0 /\ status'[e] = "dead_letter" => attempts[e] >= Limit,
         retries' = retries,
         \A w \in Worker : Holding(w, e)' => Holding(w, e) /\ seen'[w] = seen[w]
  PROVE  Owned(e)' /\ Counted(e)'
  BY DEF Owned, Counted

LEMMA StepOwned ==
  ASSUME Sound, Unowned, [Next]_vars, \A f \in Event : Owned(f) /\ Counted(f), NEW e \in Event
  PROVE  Owned(e)' /\ Counted(e)'
<1>0. retries \in Nat
  BY DEF Sound, TypeOK
<1>1. CASE UNCHANGED <<status, owner, lease, attempts, slots>> /\ retries' \in {retries, retries + 1}
  BY <1>0, <1>1, OwnedStays DEF slots, Holding
<1>2. ASSUME NEW d \in Delivery, Insert(d)
      PROVE  Owned(e)' /\ Counted(e)'
  <2>1. UNCHANGED <<owner, lease, attempts, slots, retries>>
    BY <1>2 DEF Insert, budgets
  <2>2. status'[e] = status[e] \/ (status[e] = "absent" /\ status'[e] = "received")
    BY <1>2 DEF Insert, Fresh, Sound, TypeOK, Grounded
  <2>3. QED
    BY <2>1, <2>2 DEF Owned, Counted, Holding, slots
<1>3. ASSUME NEW f \in Event, LoseLease(f)
      PROVE  Owned(e)' /\ Counted(e)'
  <2>1. UNCHANGED <<status, owner, attempts, slots, retries>> /\ lease'[e] \in {lease[e], "expired"}
    BY <1>3 DEF LoseLease, Sound, TypeOK
  <2>2. QED
    BY <2>1, OwnedStays DEF slots, Holding
<1>4. ASSUME NEW w \in Worker, Claim(w)
      PROVE  Owned(e)' /\ Counted(e)'
  <2>1. PICK f \in Event :
          /\ status' = [status EXCEPT ![f] = "processing"] /\ owner' = [owner EXCEPT ![f] = w]
          /\ lease' = [lease EXCEPT ![f] = "held"] /\ attempts' = [attempts EXCEPT ![f] = @ + 1]
          /\ job' = [job EXCEPT ![w] = f] /\ seen' = [seen EXCEPT ![w] = attempts[f] + 1]
    BY <1>4 DEF Claim
  <2>2. phase[w] = "idle" /\ phase' = [phase EXCEPT ![w] = "handling"] /\ retries' = retries
    BY <1>4 DEF Claim, budgets
  <2>3. /\ phase'[w] = "handling" /\ job'[w] = f /\ seen'[w] = attempts[f] + 1
        /\ \A v \in Worker \ {w} : phase'[v] = phase[v] /\ job'[v] = job[v] /\ seen'[v] = seen[v]
    BY <2>1, <2>2 DEF Sound, TypeOK
  <2>4. ~Holding(w, e)
    BY <2>2 DEF Holding, AtWork
  <2>5. CASE e # f
    <3>1. /\ status'[e] = status[e] /\ owner'[e] = owner[e] /\ lease'[e] = lease[e]
          /\ attempts'[e] = attempts[e]
      BY <2>1, <2>5 DEF Sound, TypeOK
    <3>2. \A v \in Worker : Holding(v, e) <=> Holding(v, e)'
      BY <2>3, <2>4, <2>5 DEF Holding
    <3>3. QED
      BY <2>2, <2>3, <2>4, <3>1, <3>2, OwnedStays
  <2>6. CASE e = f
    <3>1. /\ status'[e] = "processing" /\ owner'[e] = w /\ lease'[e] = "held"
          /\ attempts'[e] = attempts[e] + 1 /\ attempts[e] \in Nat
      BY <2>1, <2>6 DEF Sound, TypeOK
    <3>2. Holding(w, e)' /\ w \in Worker /\ w # NoWorker
      BY <2>3, <2>6, InboxAssumption DEF Holding, AtWork
    <3>3. Owned(e)'
      BY <3>1, <3>2 DEF Owned
    <3>4. ASSUME NEW v \in Worker, Holding(v, e)'
          PROVE  retries = 0 => seen'[v] <= attempts'[e]
      <4>1. CASE v = w
        BY <2>3, <2>6, <3>1, <4>1
      <4>2. CASE v # w
        <5>1. Holding(v, e) /\ seen'[v] = seen[v] /\ seen[v] \in Nat
          BY <2>3, <3>4, <4>2 DEF Holding, Sound, TypeOK
        <5>2. QED
          BY <3>1, <5>1 DEF Counted
      <4>3. QED
        BY <4>1, <4>2
    <3>5. QED
      BY <2>2, <3>1, <3>3, <3>4 DEF Counted
  <2>7. QED
    BY <2>5, <2>6
<1>5. ASSUME NEW w \in Worker, NEW s \in {"processed", "dead_letter", "retry_wait"},
             phase[w] \in AtWork, Release(job[w], s), EndRun(w) \/ Die(w), attempts' = attempts,
             s = "dead_letter" => seen[w] >= Limit, retries' = retries
      PROVE  Owned(e)' /\ Counted(e)'
  <2>1. job[w] \in Event
    BY <1>5 DEF Sound, Grounded
  <2>2. /\ status'[job[w]] = s /\ owner'[job[w]] = NoWorker
        /\ \A f \in Event \ {job[w]} : /\ status'[f] = status[f] /\ owner'[f] = owner[f]
                                       /\ lease'[f] = lease[f]
    BY <1>5, <2>1, ReleaseTyped DEF Status
  <2>3. /\ phase'[w] \in {"idle", "dead"}
        /\ \A v \in Worker \ {w} : phase'[v] = phase[v] /\ job'[v] = job[v] /\ seen'[v] = seen[v]
    BY <1>5, EndTyped
  <2>4. \A v \in Worker : Holding(v, e)' => Holding(v, e) /\ seen'[v] = seen[v]
    BY <2>3 DEF Holding, AtWork
  <2>5. CASE e # job[w]
    <3>1. ~Holding(w, e) /\ phase[w] # "dead"
      BY <1>5, <2>5 DEF Holding, AtWork
    <3>2. \A v \in Worker : Holding(v, e) => Holding(v, e)'
      BY <2>3, <3>1 DEF Holding
    <3>3. \A v \in Worker : phase[v] = "dead" => phase'[v] = "dead"
      BY <2>3, <3>1
    <3>4. QED
      BY <1>5, <2>2, <2>4, <2>5, <3>2, <3>3, OwnedStays
  <2>6. CASE e = job[w]
    <3>1. /\ retries = 0 => seen[w] <= attempts[e]
          /\ seen[w] \in Nat /\ attempts[e] \in Nat
      BY <1>5, <2>6 DEF Counted, Holding, Sound, TypeOK
    <3>2. retries = 0 /\ status'[e] = "dead_letter" => attempts[e] >= Limit
      BY <1>5, <2>2, <2>6, <3>1, InboxAssumption
    <3>3. QED
      BY <1>5, <2>2, <2>4, <2>6, <3>2, OwnedEnds
  <2>7. QED
    BY <2>5, <2>6
<1>6. ASSUME NEW w \in Worker, Finish(w) \/ MarkFailed(w) \/ Shutdown(w)
      PROVE  Owned(e)' /\ Counted(e)'
  <2>1. /\ phase[w] \in AtWork /\ (EndRun(w) \/ Die(w))
        /\ UNCHANGED <<attempts, retries>>
    BY <1>6 DEF Finish, MarkFailed, Shutdown, AtWork, budgets
  <2>2. \E s \in {"processed", "dead_letter", "retry_wait"} :
          Release(job[w], s) /\ (s = "dead_letter" => seen[w] >= Limit)
    BY <1>6 DEF Finish, MarkFailed, Shutdown, WriteFailure, FailureStatus, LastAttempt
  <2>3. QED
    BY <1>5, <2>1, <2>2
<1>7. ASSUME NEW w \in Worker, EndOperation(w) \/ Crash(w)
      PROVE  Owned(e)' /\ Counted(e)'
  <2>1. /\ UNCHANGED <<rows, retries>> /\ (EndRun(w) \/ Die(w))
        /\ phase[w] = "serving" \/ (phase[w] # "dead" /\ Die(w))
    BY <1>7 DEF EndOperation, Crash, budgets
  <2>2. /\ phase'[w] \in {"idle", "dead"} /\ (Die(w) => phase'[w] = "dead")
        /\ \A v \in Worker \ {w} : phase'[v] = phase[v] /\ job'[v] = job[v] /\ seen'[v] = seen[v]
    BY <2>1, EndTyped
  <2>3. \A v \in Worker :
           /\ phase[v] = "dead" => phase'[v] = "dead"
           /\ Holding(v, e) => Holding(v, e)' \/ phase'[v] = "dead"
           /\ Holding(v, e)' => Holding(v, e) /\ seen'[v] = seen[v]
    BY <2>1, <2>2 DEF Holding, AtWork
  <2>4. QED
    BY <2>1, <2>3, OwnedStays DEF rows
<1>8. ASSUME NEW w \in Worker, TakeOperation(w) \/ ApplyProduct(w) \/ HandlerRaises(w)
                               \/ HeartbeatFails(w) \/ RenewLease(w)
      PROVE  Owned(e)' /\ Counted(e)'
  <2>1. UNCHANGED <<status, owner, attempts, job, seen, retries>>
    BY <1>8 DEF TakeOperation, ApplyProduct, HandlerRaises, HeartbeatFails, RenewLease, rows,
                budgets
  <2>2. lease'[e] = "none" => lease[e] = "none"
    <3>1. CASE RenewLease(w)
      <4>1. job[w] \in Event
        BY <3>1 DEF RenewLease, Sound, Grounded
      <4>2. QED
        BY <3>1, <4>1 DEF RenewLease, Sound, TypeOK
    <3>2. QED
      BY <1>8, <3>1 DEF TakeOperation, ApplyProduct, HandlerRaises, HeartbeatFails, rows
  <2>3. \A v \in Worker : /\ phase[v] = "dead" => phase'[v] = "dead"
                          /\ phase'[v] \in AtWork <=> phase[v] \in AtWork
    BY <1>8 DEF TakeOperation, ApplyProduct, HandlerRaises, HeartbeatFails, RenewLease, AtWork,
                Sound, TypeOK
  <2>4. QED
    BY <2>1, <2>2, <2>3, OwnedStays DEF Holding
<1>9. ASSUME NEW a \in Admin, RetryWrite(a)
      PROVE  Owned(e)' /\ Counted(e)'
  <2>1. retrying[a] # NoEvent /\ retrying[a] \in Event
    BY <1>9 DEF RetryWrite, Sound, TypeOK
  <2>2. loaded[a].owned = FALSE /\ retries # 0
    BY <2>1, Zenon DEF Unowned
  <2>3. UNCHANGED <<owner, lease, slots, retries>>
    <3>1. /\ owner' = [owner EXCEPT ![retrying[a]] = IF loaded[a].owned THEN NoWorker ELSE @]
          /\ lease' = [lease EXCEPT ![retrying[a]] = IF loaded[a].owned THEN "none" ELSE @]
          /\ UNCHANGED <<slots, retries>>
      BY <1>9 DEF RetryWrite, budgets
    <3>2. /\ owner' = [owner EXCEPT ![retrying[a]] = @]
          /\ lease' = [lease EXCEPT ![retrying[a]] = @]
      BY <2>2, <3>1, Zenon
    <3>3. QED
      BY <2>1, <3>1, <3>2 DEF Sound, TypeOK
  <2>4. status'[e] \in {status[e], "received"}
    BY <1>9, <2>1 DEF RetryWrite, Sound, TypeOK
  <2>5. QED
    BY <2>2, <2>3, <2>4 DEF Owned, Counted, Holding, slots
<1>10. CASE \/ UNCHANGED vars
            \/ \E d \in Delivery : LookUp(d)
            \/ \E a \in Admin : RetryRead(a)
            \/ \E f \in Event : BecomeDue(f)
  BY <1>1, <1>10 DEF vars, rows, budgets, LookUp, RetryRead, BecomeDue
<1>11. QED
  BY <1>2, <1>3, <1>4, <1>6, <1>7, <1>8, <1>9, <1>10 DEF Next, LeaseExpires, OwnerStalls

LEMMA StepUnowned ==
  ASSUME OneRetry, Sound, Unowned, [Next]_vars, \A f \in Event : Owned(f)
  PROVE  Unowned'
<1>1. ASSUME NEW a \in Admin, RetryRead(a)
      PROVE  Unowned'
  <2>1. retries = 0 /\ retries' = 1
    BY <1>1 DEF RetryRead, OneRetry, Sound, TypeOK
  <2>2. PICK e \in Event :
          /\ status[e] \in Retryable
          /\ loaded' = [loaded EXCEPT ![a] = [status |-> status[e], owned |-> owner[e] # NoWorker]]
    BY <1>1 DEF RetryRead
  <2>3. owner[e] = NoWorker
    BY <2>1, <2>2 DEF Owned, Retryable
  <2>4. \A b \in Admin : loaded'[b].owned = FALSE
    <3>1. loaded' = [loaded EXCEPT ![a] = [status |-> status[e], owned |-> FALSE]]
      BY <2>2, <2>3
    <3>2. \A b \in Admin : loaded'[b] = IF b = a THEN [status |-> status[e], owned |-> FALSE]
                                               ELSE loaded[b]
      BY <3>1 DEF Sound, TypeOK
    <3>3. [status |-> status[e], owned |-> FALSE].owned = FALSE
      OBVIOUS
    <3>4. QED
      BY <3>2, <3>3, Zenon DEF Unowned
  <2>5. QED
    BY <2>1, <2>4 DEF Unowned
<1>2. ASSUME NEW a \in Admin, RetryWrite(a)
      PROVE  Unowned'
  <2>0. loaded' = [loaded EXCEPT ![a] = NotLoaded] /\ retrying' = [retrying EXCEPT ![a] = NoEvent]
    BY <1>2 DEF RetryWrite
  <2>1. \A b \in Admin : /\ loaded'[b] = IF b = a THEN NotLoaded ELSE loaded[b]
                         /\ retrying'[b] \in {NoEvent, retrying[b]}
    BY <2>0 DEF Sound, TypeOK
  <2>2. retries' = retries
    BY <1>2 DEF RetryWrite, budgets
  <2>3. NotLoaded.owned = FALSE
    BY DEF NotLoaded
  <2>4. ASSUME NEW b \in Admin
        PROVE  loaded'[b].owned = FALSE /\ (retries' = 0 => retrying'[b] = NoEvent)
    <3>1. loaded[b].owned = FALSE /\ (retries = 0 => retrying[b] = NoEvent)
      BY Zenon DEF Unowned
    <3>2. loaded'[b].owned = FALSE
      BY <2>1, <2>3, <3>1, Zenon
    <3>3. retries' = 0 => retrying'[b] = NoEvent
      BY <2>1, <2>2, <3>1
    <3>4. QED
      BY <3>2, <3>3
  <2>5. QED
    BY <2>4, Zenon DEF Unowned
<1>3. CASE UNCHANGED <<admins, retries>>
  BY <1>3 DEF Unowned, admins
<1>4. QED
  BY <1>1, <1>2, <1>3
     DEF Next, vars, budgets, LookUp, Insert, BecomeDue, LeaseExpires, OwnerStalls, LoseLease,
         Claim, TakeOperation, EndOperation, ApplyProduct, HandlerRaises, Finish, MarkFailed,
         RenewLease, HeartbeatFails, Crash, Shutdown

\* With one manual retry at most no event drops out of the inbox, whichever slots
\* die or lose their leases: one in processing has an owner at work on it or
\* dead, and a lease that runs out; and a dead letter of an inbox without a
\* retry has used up its attempts.
THEOREM NothingIsLost ==
  ASSUME OneRetry
  PROVE  Spec => []NoEventIsLost
<1> DEFINE Inv == Sound /\ Unowned /\ \A e \in Event : Owned(e) /\ Counted(e)
<1>1. Init => Inv
  <2>1. Init => \A e \in Event : Owned(e) /\ Counted(e)
    BY DEF Init, Owned, Counted, Holding, AtWork
  <2>2. Init => Unowned
    BY DEF Init, Unowned, NotLoaded
  <2>3. QED
    BY <2>1, <2>2, InitSound
<1>2. Inv /\ [Next]_vars => Inv'
  BY StepSound, StepOwned, StepUnowned
<1>3. Inv => NoEventIsLost
  <2>1. Inv => ProcessingIsLeased
    BY InboxAssumption DEF ProcessingIsLeased, Owned, Sound, TypeOK
  <2>2. Inv => DeadLetterIsExhausted
    BY DEF DeadLetterIsExhausted, Counted
  <2>3. QED
    BY <2>1, <2>2 DEF NoEventIsLost
<1>4. QED
  BY <1>1, <1>2, <1>3, PTL DEF Spec
=============================================================================
