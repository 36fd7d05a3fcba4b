------------------------- MODULE OperationLifecycle -------------------------
(***************************************************************************)
(* What the operation queue promises, without rows, leases, heartbeats or  *)
(* audit records: an operation that was submitted is attempted by slots,   *)
(* possibly by several at once; only the latest attempt may decide; an     *)
(* outcome is final, unless somebody asked before it to have the operation *)
(* repeated, or asked because it failed.                                   *)
(***************************************************************************)
CONSTANTS Operation, Worker, NoWorker, Admin

VARIABLES
    stage,      \* "absent", "pending", "succeeded" or "failed"
    attempting, \* the slots with an attempt of the operation in flight
    holder,     \* the slot whose attempt may decide the operation
    asked       \* the operations an admin has asked to have repeated

lifecycle == <<stage, attempting, holder, asked>>

Init ==
    /\ stage      = [o \in Operation |-> "absent"]
    /\ attempting = [o \in Operation |-> {}]
    /\ holder     = [o \in Operation |-> NoWorker]
    /\ asked      = [a \in Admin |-> {}]

Submit(o) ==
    /\ stage[o] = "absent"
    /\ stage' = [stage EXCEPT ![o] = "pending"]
    /\ UNCHANGED <<attempting, holder, asked>>

\* Only pending operations are attempted, by a slot that is free.
Attempt(w, o) ==
    /\ stage[o] = "pending"
    /\ \A p \in Operation : w \notin attempting[p]
    /\ attempting' = [attempting EXCEPT ![o] = @ \cup {w}]
    /\ holder'     = [holder EXCEPT ![o] = w]
    /\ UNCHANGED <<stage, asked>>

Leave(w, o) ==
    /\ w \in attempting[o]
    /\ attempting' = [attempting EXCEPT ![o] = @ \ {w}]
    /\ UNCHANGED asked

\* The latest attempt settles the operation.
Settle(w, o) ==
    /\ Leave(w, o)
    /\ stage[o] = "pending"
    /\ holder[o] = w
    /\ \E s \in {"succeeded", "failed"} : stage' = [stage EXCEPT ![o] = s]
    /\ holder' = [holder EXCEPT ![o] = NoWorker]

\* The latest attempt hands the operation back, to be repeated.
HandBack(w, o) ==
    /\ Leave(w, o)
    /\ holder[o] = w
    /\ holder' = [holder EXCEPT ![o] = NoWorker]
    /\ UNCHANGED stage

\* An attempt ends without a trace: interrupted, or no longer the latest.
Vanish(w, o) ==
    /\ Leave(w, o)
    /\ UNCHANGED <<stage, holder>>

\* A manual retry picks operations that have failed, or are not done yet.
Ask(a) ==
    /\ asked[a] = {}
    /\ \E S \in SUBSET {o \in Operation : stage[o] \in {"failed", "pending"}} :
          /\ S # {}
          /\ asked' = [asked EXCEPT ![a] = S]
    /\ UNCHANGED <<stage, attempting, holder>>

\* It then submits them again, whatever has become of them: no attempt in
\* flight may decide them any more.
Reopen(a) ==
    LET S == asked[a] IN
    /\ stage'  = [o \in Operation |-> IF o \in S THEN "pending" ELSE stage[o]]
    /\ holder' = [o \in Operation |-> IF o \in S THEN NoWorker ELSE holder[o]]
    /\ asked'  = [asked EXCEPT ![a] = {}]
    /\ UNCHANGED attempting

Next ==
    \/ \E o \in Operation, w \in Worker :
          Attempt(w, o) \/ Settle(w, o) \/ HandBack(w, o) \/ Vanish(w, o)
    \/ \E o \in Operation : Submit(o)
    \/ \E a \in Admin : Ask(a) \/ Reopen(a)

Spec == Init /\ [][Next]_lifecycle
=============================================================================
