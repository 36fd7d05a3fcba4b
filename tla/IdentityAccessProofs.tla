------------------------ MODULE IdentityAccessProofs ------------------------
(***************************************************************************)
(* What IdentityAccess promises, for any requests, guests, invitations,    *)
(* sessions and budgets.                                                   *)
(*                                                                         *)
(* Placed and Locked tie a request to the rows it is about.  A promise     *)
(* then rests on one fact about what a request has loaded:                 *)
(*   - the trail, on a holder of the lock that knows the present status;   *)
(*   - a single acceptance, on an invitation that no second request has    *)
(*     open and that is granted only once used;                            *)
(*   - a suspension, on requests under way that notice an active tenant.   *)
(***************************************************************************)
EXTENDS IdentityAccess, TLAPS

Placed ==
    \A r \in Request :
        /\ pc[r] \in {"session", "context"} => signed[r] \in Session
        /\ pc[r] \in {"open", "resolved"} =>
              target[r] \in Invitation /\ invitation[target[r]].state # "absent"

\* The holder of the lock; a tenant that is not there has no trail.
Locked ==
    /\ \A r \in Request : pc[r] = "locked" =>
          /\ lock = r
          /\ kind[r] \in {"suspended", "active"}
          /\ view[r] \in Status
          /\ tenant # "absent"
          /\ Len(trail) < StatusBudget
          /\ ~blind => view[r] = tenant
    /\ tenant = "absent" => trail = << >>

Sound == TypeOK /\ Placed /\ Locked

-----------------------------------------------------------------------------
(* Types *)

LEMMA InitSound == Init => Sound
<1> SUFFICES ASSUME Init PROVE Sound
  OBVIOUS
<1>1. NoSession \in SessionRow /\ NoInvitation \in InvitationRow
  BY DEF NoSession, SessionRow, NoInvitation, InvitationRow, User, Role
<1>3. << >> \in Seq([before : Status, after : Status]) /\ Len(<< >>) <= StatusBudget
  BY IdentityAssumption
<1>4. TypeOK
  BY <1>1, <1>3 DEF Init, TypeOK, Status, User, Role, Kind
<1>2. QED
  BY <1>4 DEF Init, Sound, Placed, Locked

\* One column of an invitation, and of a session, is written.
StateWrites(i, x) == invitation' = [invitation EXCEPT ![i].state = x]

LEMMA StateWritten ==
  ASSUME TypeOK, NEW i \in Invitation, NEW x \in {"absent", "open", "expired", "used"},
         StateWrites(i, x)
  PROVE  /\ invitation' \in [Invitation -> InvitationRow]
         /\ \A j \in Invitation : /\ invitation'[j].state = IF j = i THEN x ELSE invitation[j].state
                                  /\ invitation'[j].email = invitation[j].email
                                  /\ invitation'[j].role = invitation[j].role
<1>1. invitation[i] \in InvitationRow
  BY DEF TypeOK
<1>2. invitation'[i] = [invitation[i] EXCEPT !.state = x]
  BY DEF StateWrites, TypeOK
<1>3. /\ invitation'[i] \in InvitationRow /\ invitation'[i].state = x
      /\ invitation'[i].email = invitation[i].email /\ invitation'[i].role = invitation[i].role
  BY <1>1, <1>2 DEF InvitationRow
<1>4. QED
  BY <1>3 DEF StateWrites, TypeOK

LEMMA SessionWritten ==
  ASSUME TypeOK, NEW s \in Session,
         \/ \E x \in {"live", "expired", "revoked"} : session' = [session EXCEPT ![s].state = x]
         \/ \E n \in Nat : session' = [session EXCEPT ![s].csrf = n]
  PROVE  session' \in [Session -> SessionRow]
<1>1. session[s] \in SessionRow
  BY DEF TypeOK
<1>2. session'[s] \in SessionRow
  <2>1. ASSUME NEW x \in {"live", "expired", "revoked"}, session' = [session EXCEPT ![s].state = x]
        PROVE  session'[s] \in SessionRow
    BY <1>1, <2>1 DEF SessionRow, TypeOK
  <2>2. ASSUME NEW n \in Nat, session' = [session EXCEPT ![s].csrf = n]
        PROVE  session'[s] \in SessionRow
    BY <1>1, <2>2 DEF SessionRow, TypeOK
  <2>3. QED
    BY <2>1, <2>2
<1>3. QED
  BY <1>2 DEF TypeOK

\* A request that is answered keeps the types, and the others as they are.
LEMMA FinishTyped ==
  ASSUME TypeOK, NEW r \in Request, Finish(r)
  PROVE  /\ pc' \in [Request -> {"idle", "session", "context", "locked", "open", "resolved"}]
         /\ kind' \in [Request -> Kind]
         /\ signed' \in [Request -> Session \cup {NoId}]
         /\ copy' \in [Request -> SessionRow]
         /\ view' \in [Request -> Status \cup {"none"}]
         /\ role' \in [Request -> Role \cup {"platform_admin", "none"}]
         /\ target' \in [Request -> Invitation \cup {NoId}]
         /\ found' \in [Request -> BOOLEAN]
         /\ pc'[r] = "idle" /\ target'[r] = NoId
         /\ \A q \in Request \ {r} :
               /\ pc'[q] = pc[q] /\ kind'[q] = kind[q] /\ signed'[q] = signed[q]
               /\ view'[q] = view[q] /\ role'[q] = role[q] /\ target'[q] = target[q]
               /\ found'[q] = found[q]
<1>1. NoSession \in SessionRow
  BY DEF NoSession, SessionRow, User
<1>2. QED
  BY <1>1 DEF TypeOK, Finish, Kind

\* Answered, with nothing but rows of sessions and invitations written.
LEMMA AnswerSound ==
  ASSUME Sound, NEW r \in Request, Finish(r), metActive' \in [Request -> BOOLEAN],
         UNCHANGED <<tenant, trail, lock, blind>>, pc[r] # "locked",
         registered' \subseteq User, member' \in [User -> Role \cup {"none"}],
         invitation' \in [Invitation -> InvitationRow], session' \in [Session -> SessionRow],
         \A i \in Invitation : invitation[i].state # "absent" => invitation'[i].state # "absent",
         issued' \in [Session -> Nat], ended' \subseteq Session, grants' \in [Invitation -> Nat],
         contested' \subseteq Invitation
  PROVE  Sound'
<1>1. TypeOK'
  BY FinishTyped DEF Sound, TypeOK
<1>2. Placed'
  BY FinishTyped DEF Sound, Placed
<1>3. Locked'
  BY FinishTyped DEF Sound, Locked
<1>4. QED
  BY <1>1, <1>2, <1>3 DEF Sound

\* Rows that time and people change.
LEMMA WorldSound ==
  ASSUME Sound,
         \/ \E u \in User, s \in Session : Login(u, s)
         \/ \E s \in Session : SessionExpires(s)
         \/ \E i \in Invitation : InvitationExpires(i)
  PROVE  Sound'
<1>1. ASSUME NEW u \in User, NEW s \in Session, Login(u, s)
      PROVE  Sound'
  <2>1. session' \in [Session -> SessionRow] /\ issued' \in [Session -> Nat]
    BY <1>1 DEF Login, Sound, TypeOK, SessionRow
  <2>2. QED
    BY <1>1, <2>1 DEF Login, Sound, TypeOK, Placed, Locked, flight
<1>2. ASSUME NEW s \in Session, SessionExpires(s)
      PROVE  Sound'
  <2>1. session' \in [Session -> SessionRow]
    BY <1>2, SessionWritten DEF SessionExpires, Sound
  <2>2. QED
    BY <1>2, <2>1 DEF SessionExpires, Sound, TypeOK, Placed, Locked, flight, history
<1>3. ASSUME NEW i \in Invitation, InvitationExpires(i)
      PROVE  Sound'
  <2>1. /\ invitation' \in [Invitation -> InvitationRow]
        /\ \A j \in Invitation : invitation[j].state # "absent" => invitation'[j].state # "absent"
    <3>1. StateWrites(i, "expired")
      BY <1>3 DEF InvitationExpires, StateWrites
    <3>2. QED
      BY <3>1, StateWritten DEF Sound
  <2>2. QED
    BY <1>3, <2>1 DEF InvitationExpires, Sound, TypeOK, Placed, Locked, flight, history
<1>4. QED
  BY <1>1, <1>2, <1>3

\* A request is authenticated.
LEMMA ContextSound ==
  ASSUME Sound, NEW r \in Request, LoadContext(r) \/ \E s \in Session : LoadSession(r, s)
  PROVE  Sound'
<1>1. ASSUME NEW s \in Session, LoadSession(r, s)
      PROVE  Sound'
  BY <1>1 DEF LoadSession, Sound, TypeOK, Placed, Locked, tables
<1>2. CASE LoadContext(r)
  <2>1. session' = session
    BY <1>2 DEF LoadContext, Touch, Sound, TypeOK, Placed
  <2>2. CASE Answer(r)
    BY <1>2, <2>1, <2>2, AnswerSound DEF LoadContext, Answer, Forget, Sound, TypeOK
  <2>3. ASSUME NEW selects \in BOOLEAN, NEW k \in Kind,
               pc'   = [pc EXCEPT ![r] = "context"],
               kind' = [kind EXCEPT ![r] = k],
               view' = [view EXCEPT ![r] = TenantFor(r, selects)],
               role' = [role EXCEPT ![r] = RoleFor(r)],
               copy' = [copy EXCEPT ![r] = NoSession],
               UNCHANGED <<signed, target, found, metActive>>
        PROVE  Sound'
    <3>1. copy[r].user \in User
      BY DEF Sound, TypeOK, SessionRow
    <3>2. TenantFor(r, selects) \in Status \cup {"none"}
          /\ RoleFor(r) \in Role \cup {"platform_admin", "none"} /\ NoSession \in SessionRow
      BY <3>1 DEF TenantFor, RoleFor, Sound, TypeOK, NoSession, SessionRow, User
    <3>3. UNCHANGED <<tenant, trail, lock, registered, member, invitation,
                      issued, ended, grants, contested, blind>>
      BY <1>2 DEF LoadContext
    <3>4. TypeOK'
      BY <2>1, <2>3, <3>2, <3>3 DEF Sound, TypeOK
    <3>5. Placed' /\ Locked'
      BY <1>2, <2>3, <3>3 DEF LoadContext, Sound, TypeOK, Placed, Locked
    <3>6. QED
      BY <3>4, <3>5 DEF Sound
  <2>4. QED
    BY <1>2, <2>2, <2>3 DEF LoadContext
<1>3. QED
  BY <1>1, <1>2

\* The session's own requests.
LEMMA OwnSound ==
  ASSUME Sound, NEW r \in Request, RotateCsrf(r) \/ Logout(r)
  PROVE  Sound'
<1>1. signed[r] \in Session /\ pc[r] = "context"
  BY DEF RotateCsrf, Logout, Sound, Placed
<1>2. CASE RotateCsrf(r)
  <2>1. /\ session' = [session EXCEPT ![signed[r]].csrf = issued[signed[r]] + 1]
        /\ issued' = [issued EXCEPT ![signed[r]] = @ + 1]
        /\ UNCHANGED <<tenant, trail, lock, registered, member, invitation,
                       ended, grants, contested, blind>>
        /\ Answer(r)
    BY <1>2 DEF RotateCsrf
  <2>2. issued[signed[r]] + 1 \in Nat /\ issued' \in [Session -> Nat]
    BY <1>1, <2>1 DEF Sound, TypeOK
  <2>3. session' \in [Session -> SessionRow]
    BY <1>1, <2>1, <2>2, SessionWritten DEF Sound
  <2>4. QED
    BY <1>1, <2>1, <2>2, <2>3, AnswerSound DEF Answer, Forget, Sound, TypeOK
<1>3. CASE Logout(r)
  <2>1. /\ session' = [session EXCEPT ![signed[r]].state = "revoked"]
        /\ ended' = ended \cup {signed[r]}
        /\ UNCHANGED <<tenant, trail, lock, registered, member, invitation,
                       issued, grants, contested, blind>>
        /\ Answer(r)
    BY <1>3 DEF Logout
  <2>2. session' \in [Session -> SessionRow]
    BY <1>1, <2>1, SessionWritten DEF Sound
  <2>3. QED
    BY <1>1, <2>1, <2>2, AnswerSound DEF Answer, Forget, Sound, TypeOK
<1>4. QED
  BY <1>2, <1>3

\* The tenant.
LEMMA TenantSound ==
  ASSUME Sound, NEW r \in Request, CreateTenant(r) \/ LockTenant(r) \/ CommitStatus(r)
  PROVE  Sound'
<1>1. metActive' \in [Request -> BOOLEAN]
  BY DEF CreateTenant, LockTenant, CommitStatus, Answer, Forget, MeetActive, Sound, TypeOK
<1>2. CASE CreateTenant(r)
  <2>1. TypeOK'
    BY <1>1, <1>2, FinishTyped DEF CreateTenant, Sound, TypeOK, Status
  <2>2. Placed'
    BY <1>2, FinishTyped DEF CreateTenant, Sound, Placed
  <2>3. Locked'
    BY <1>2, FinishTyped DEF CreateTenant, Sound, Locked
  <2>4. QED
    BY <2>1, <2>2, <2>3 DEF Sound
<1>3. CASE LockTenant(r)
  <2>1. Seen(r) \in Status
    BY DEF Seen, Sound, TypeOK
  <2>2. UNCHANGED <<tenant, trail, registered, member, invitation, session,
                    issued, ended, grants, contested>>
    BY <1>3 DEF LockTenant
  <2>3. CASE Answer(r)
    <3>1. lock' = lock /\ pc[r] = "context"
      BY <1>3, <2>3 DEF LockTenant, Answer, Finish, Sound, TypeOK
    <3>2. blind' \in BOOLEAN /\ (blind => blind')
      BY <1>3 DEF LockTenant, Sound, TypeOK
    <3>3. TypeOK'
      BY <1>1, <2>2, <2>3, <3>1, <3>2, FinishTyped DEF Answer, Sound, TypeOK
    <3>4. Placed' /\ Locked'
      BY <2>2, <2>3, <3>1, <3>2, FinishTyped DEF Answer, Sound, Placed, Locked
    <3>5. QED
      BY <3>3, <3>4 DEF Sound
  <2>4. CASE ~Answer(r)
    <3>1. /\ tenant # "absent" /\ lock = NoRequest /\ kind[r] \in {"suspended", "active"}
          /\ Len(trail) < StatusBudget /\ lock' = r
          /\ pc' = [pc EXCEPT ![r] = "locked"] /\ view' = [view EXCEPT ![r] = Seen(r)]
          /\ UNCHANGED <<kind, signed, copy, role, target, found, metActive>>
      BY <1>3, <2>4 DEF LockTenant, LockIsFree
    <3>2. blind' \in BOOLEAN /\ (~blind' => Seen(r) = tenant)
      BY <1>3, <3>1 DEF LockTenant, Sound, TypeOK
    <3>3. TypeOK'
      BY <2>1, <2>2, <3>1, <3>2 DEF Sound, TypeOK
    <3>4. Placed'
      BY <2>2, <3>1 DEF Sound, TypeOK, Placed
    <3>5. \A q \in Request : pc[q] # "locked"
      BY <3>1, IdentityAssumption DEF Sound, Locked
    <3>6. Locked'
      BY <2>1, <2>2, <3>1, <3>2, <3>5 DEF Sound, TypeOK, Locked
    <3>7. QED
      BY <3>3, <3>4, <3>6 DEF Sound
  <2>5. QED
    BY <2>3, <2>4
<1>4. CASE CommitStatus(r)
  <2>1. /\ pc[r] = "locked" /\ lock = r /\ kind[r] \in {"suspended", "active"}
        /\ view[r] \in Status /\ Len(trail) < StatusBudget
    BY <1>4 DEF CommitStatus, Sound, Locked
  <2>2. /\ tenant' = kind[r] /\ trail' = Append(trail, [before |-> view[r], after |-> kind[r]])
        /\ lock' = NoRequest /\ Finish(r)
        /\ UNCHANGED <<registered, member, invitation, session,
                       issued, ended, grants, contested, blind>>
    BY <1>4 DEF CommitStatus
  <2>3. tenant' \in Status /\ tenant' # "absent"
    BY <2>1, <2>2 DEF Status
  <2>4. trail' \in Seq([before : Status, after : Status]) /\ Len(trail') <= StatusBudget
    BY <2>1, <2>2, IdentityAssumption DEF Sound, TypeOK, Status
  <2>5. TypeOK'
    BY <1>1, <2>2, <2>3, <2>4, FinishTyped DEF Sound, TypeOK
  <2>6. Placed'
    BY <2>2, FinishTyped DEF Sound, Placed
  <2>7. \A q \in Request : pc'[q] # "locked"
    BY <2>1, <2>2, FinishTyped DEF Sound, Locked
  <2>8. QED
    BY <2>3, <2>5, <2>6, <2>7 DEF Sound, Locked
<1>5. QED
  BY <1>2, <1>3, <1>4

\* Invitations.
LEMMA InvitationSound ==
  ASSUME Sound, NEW r \in Request,
         \/ CreateInvitation(r) \/ ResolveUser(r) \/ CommitAcceptance(r)
         \/ \E i \in Invitation : ReadInvitation(r, i)
  PROVE  Sound'
<1>1. CASE CreateInvitation(r)
  <2>1. /\ invitation' \in [Invitation -> InvitationRow]
        /\ \A j \in Invitation : invitation[j].state # "absent" => invitation'[j].state # "absent"
    <3>1. ASSUME NEW i \in Invitation, NEW e \in Guest, NEW x \in Role,
                 invitation' = [invitation EXCEPT ![i] = [state |-> "open", email |-> e, role |-> x]]
          PROVE  /\ invitation' \in [Invitation -> InvitationRow]
                 /\ \A j \in Invitation : invitation[j].state # "absent" => invitation'[j].state # "absent"
      <4>1. [state |-> "open", email |-> e, role |-> x] \in InvitationRow
        BY DEF InvitationRow, User
      <4>2. QED
        BY <3>1, <4>1 DEF Sound, TypeOK
    <3>2. QED
      BY <1>1, <3>1 DEF CreateInvitation, InvitableRole, Sound, TypeOK
  <2>2. metActive' \in [Request -> BOOLEAN]
    BY <1>1 DEF CreateInvitation, Answer, Forget, Sound, TypeOK
  <2>3. QED
    BY <1>1, <2>1, <2>2, AnswerSound DEF CreateInvitation, Answer, Sound, TypeOK
<1>2. ASSUME NEW i \in Invitation, ReadInvitation(r, i)
      PROVE  Sound'
  <2>1. TypeOK'
    BY <1>2 DEF ReadInvitation, Sound, TypeOK, Kind, tables
  <2>2. Placed' /\ Locked'
    BY <1>2 DEF ReadInvitation, Sound, TypeOK, Placed, Locked, tables
  <2>3. QED
    BY <2>1, <2>2 DEF Sound
<1>3. CASE ResolveUser(r)
  <2>1. target[r] \in Invitation /\ Invitee(r) \in User
    BY <1>3 DEF ResolveUser, Invitee, Sound, Placed, TypeOK, InvitationRow
  <2>2. TypeOK'
    BY <1>3, <2>1 DEF ResolveUser, Sound, TypeOK, tables, history
  <2>3. Placed' /\ Locked'
    BY <1>3 DEF ResolveUser, Sound, TypeOK, Placed, Locked, tables, history
  <2>4. QED
    BY <2>2, <2>3 DEF Sound
<1>4. CASE CommitAcceptance(r)
  <2>1. /\ pc[r] = "resolved" /\ target[r] \in Invitation /\ Invitee(r) \in User
        /\ invitation[target[r]].role \in Role
    BY <1>4 DEF CommitAcceptance, Invitee, Sound, Placed, TypeOK, InvitationRow
  <2>3. Granted(r) \in [User -> Role \cup {"none"}]
    BY <2>1 DEF Granted, Sound, TypeOK
  <2>4. metActive' \in [Request -> BOOLEAN]
    BY <1>4 DEF CommitAcceptance, Answer, Forget, Sound, TypeOK
  <2>5. /\ registered' \subseteq User /\ member' \in [User -> Role \cup {"none"}]
        /\ invitation' \in [Invitation -> InvitationRow] /\ grants' \in [Invitation -> Nat]
        /\ \A j \in Invitation : invitation[j].state # "absent" => invitation'[j].state # "absent"
    <3>1. CASE Conflicts(r)
      BY <1>4, <3>1 DEF CommitAcceptance, Sound, TypeOK
    <3>2. CASE ~Conflicts(r)
      <4>1. /\ registered' = registered \cup {Invitee(r)} /\ member' = Granted(r)
            /\ StateWrites(target[r], "used")
            /\ grants' = [grants EXCEPT ![target[r]] = @ + 1]
        BY <1>4, <3>2 DEF CommitAcceptance, Used, StateWrites
      <4>2. /\ invitation' \in [Invitation -> InvitationRow]
            /\ \A j \in Invitation : invitation[j].state # "absent" => invitation'[j].state # "absent"
        BY <2>1, <4>1, StateWritten DEF Sound
      <4>3. registered' \subseteq User /\ member' \in [User -> Role \cup {"none"}]
        BY <2>1, <2>3, <4>1 DEF Sound, TypeOK
      <4>4. grants' \in [Invitation -> Nat]
        BY <2>1, <4>1 DEF Sound, TypeOK
      <4>5. QED
        BY <4>2, <4>3, <4>4
    <3>3. QED
      BY <3>1, <3>2
  <2>6. QED
    BY <1>4, <2>1, <2>4, <2>5, AnswerSound DEF CommitAcceptance, Answer, Sound, TypeOK
<1>5. QED
  BY <1>1, <1>2, <1>3, <1>4

LEMMA StepSound ==
  ASSUME Sound, [Next]_vars
  PROVE  Sound'
<1>1. CASE UNCHANGED vars
  BY <1>1 DEF Sound, TypeOK, Placed, Locked, vars, tables, flight, history
<1>2. QED
  BY <1>1, WorldSound, ContextSound, OwnSound, TenantSound, InvitationSound DEF Next

\* The types of rows and requests are preserved by every step of any number of
\* requests, and a change of the tenant's status is one at a time.
THEOREM TypeCorrect == Spec => []TypeOK
<1>1. Sound => TypeOK
  BY DEF Sound
<1>2. QED
  BY <1>1, InitSound, StepSound, PTL DEF Spec

\* The steps of a request that has a session, up to those that write rows.
LEMMA FlightSteps ==
  ASSUME Sound, NEW r \in Request,
         \/ LoadContext(r) \/ RotateCsrf(r) \/ Logout(r) \/ CreateTenant(r)
         \/ LockTenant(r) \/ CommitStatus(r) \/ CreateInvitation(r)
         \/ \E s \in Session : LoadSession(r, s)
  PROVE  /\ UNCHANGED <<registered, member, grants, contested>>
         /\ CreateInvitation(r) \/ UNCHANGED invitation
         /\ pc[r] \notin {"open", "resolved"} /\ pc'[r] \notin {"open", "resolved"}
         /\ target'[r] \in {target[r], NoId}
         /\ \A q \in Request \ {r} :
               /\ pc'[q] = pc[q] /\ kind'[q] = kind[q] /\ view'[q] = view[q]
               /\ role'[q] = role[q] /\ target'[q] = target[q] /\ found'[q] = found[q]
<1>1. UNCHANGED <<registered, member, grants, contested>>
  BY DEF LoadContext, RotateCsrf, Logout, CreateTenant, LockTenant, CommitStatus,
         CreateInvitation, LoadSession, tables
<1>2. CreateInvitation(r) \/ UNCHANGED invitation
  BY DEF LoadContext, RotateCsrf, Logout, CreateTenant, LockTenant, CommitStatus,
         LoadSession, tables
<1>3. pc[r] \in {"idle", "session", "context", "locked"}
  BY DEF LoadContext, RotateCsrf, Logout, CreateTenant, LockTenant, CommitStatus,
         CreateInvitation, LoadSession
<1>4. CASE Finish(r)
  BY <1>1, <1>2, <1>3, <1>4, FinishTyped DEF Sound
<1>5. CASE ~Finish(r)
  <2>1. LockTenant(r) \/ LoadContext(r) \/ \E s \in Session : LoadSession(r, s)
    BY <1>5 DEF RotateCsrf, Logout, CreateTenant, CommitStatus, CreateInvitation, Answer
  <2>2. target' = target
    BY <1>5, <2>1 DEF LoadContext, LockTenant, LoadSession, Answer
  <2>3. /\ pc'[r] \in {"session", "context", "locked"}
        /\ \A q \in Request \ {r} :
              /\ pc'[q] = pc[q] /\ kind'[q] = kind[q] /\ view'[q] = view[q]
              /\ role'[q] = role[q] /\ found'[q] = found[q]
    <3>1. CASE LockTenant(r)
      BY <1>5, <3>1 DEF LockTenant, Answer, Sound, TypeOK
    <3>2. CASE LoadContext(r)
      BY <1>5, <3>2 DEF LoadContext, Answer, Sound, TypeOK
    <3>3. CASE \E s \in Session : LoadSession(r, s)
      BY <3>3 DEF LoadSession, Sound, TypeOK
    <3>4. QED
      BY <2>1, <3>1, <3>2, <3>3
  <2>4. QED
    BY <1>1, <1>2, <1>3, <2>2, <2>3
<1>6. QED
  BY <1>4, <1>5

-----------------------------------------------------------------------------
(* Sessions *)

LEMMA SessionSteps ==
  ASSUME Sound, [Next]_vars
  PROVE  \/ UNCHANGED <<session, issued, ended>>
         \/ \E u \in User, s \in Session : Login(u, s)
         \/ \E s \in Session : SessionExpires(s)
         \/ \E r \in Request : RotateCsrf(r) \/ Logout(r)
<1>1. ASSUME NEW r \in Request, LoadContext(r)
      PROVE  UNCHANGED <<session, issued, ended>>
  BY <1>1 DEF LoadContext, Touch, Sound, TypeOK, Placed
<1>2. QED
  BY <1>1 DEF Next, InvitationExpires, LoadSession, ReadInvitation, CreateTenant, LockTenant,
              CommitStatus, CreateInvitation, ResolveUser, CommitAcceptance,
              vars, tables, history

LEMMA StepSessions ==
  ASSUME Sound, SessionKeepsItsWrites, [Next]_vars
  PROVE  SessionKeepsItsWrites'
<1>1. CASE UNCHANGED <<session, issued, ended>>
  BY <1>1 DEF SessionKeepsItsWrites
<1>2. ASSUME NEW u \in User, NEW s \in Session, Login(u, s)
      PROVE  SessionKeepsItsWrites'
  BY <1>2 DEF Login, SessionKeepsItsWrites, Sound, TypeOK
<1>3. ASSUME NEW s \in Session, SessionExpires(s)
      PROVE  SessionKeepsItsWrites'
  <2>1. session[s].state = "live" /\ session' = [session EXCEPT ![s].state = "expired"]
        /\ UNCHANGED <<issued, ended>> /\ session[s] \in SessionRow
    BY <1>3 DEF SessionExpires, Sound, TypeOK, history
  <2>2. session'[s].csrf = session[s].csrf
    BY <2>1 DEF Sound, TypeOK, SessionRow
  <2>3. \A t \in Session \ {s} : session'[t] = session[t]
    BY <2>1 DEF Sound, TypeOK
  <2>4. QED
    BY <2>1, <2>2, <2>3 DEF SessionKeepsItsWrites
<1>4. ASSUME NEW r \in Request, RotateCsrf(r)
      PROVE  SessionKeepsItsWrites'
  <2> DEFINE s == signed[r]
  <2>1. s \in Session
    BY <1>4 DEF RotateCsrf, Sound, Placed
  <2>2. /\ session' = [session EXCEPT ![s].csrf = issued[s] + 1]
        /\ issued' = [issued EXCEPT ![s] = @ + 1] /\ ended' = ended
    BY <1>4 DEF RotateCsrf
  <2>3. session'[s].csrf = issued'[s] /\ session'[s].state = session[s].state
    BY <2>1, <2>2 DEF Sound, TypeOK, SessionRow
  <2>4. \A t \in Session \ {s} : session'[t] = session[t] /\ issued'[t] = issued[t]
    BY <2>1, <2>2 DEF Sound, TypeOK
  <2>5. QED
    BY <2>2, <2>3, <2>4 DEF SessionKeepsItsWrites
<1>5. ASSUME NEW r \in Request, Logout(r)
      PROVE  SessionKeepsItsWrites'
  <2> DEFINE s == signed[r]
  <2>1. s \in Session
    BY <1>5 DEF Logout, Sound, Placed
  <2>2. /\ session' = [session EXCEPT ![s].state = "revoked"]
        /\ ended' = ended \cup {s} /\ issued' = issued
    BY <1>5 DEF Logout
  <2>3. session'[s].csrf = session[s].csrf /\ session'[s].state = "revoked"
    BY <2>1, <2>2 DEF Sound, TypeOK, SessionRow
  <2>4. \A t \in Session \ {s} : session'[t] = session[t]
    BY <2>1, <2>2 DEF Sound, TypeOK
  <2>5. QED
    BY <2>2, <2>3, <2>4 DEF SessionKeepsItsWrites
<1>6. QED
  BY <1>1, <1>2, <1>3, <1>4, <1>5, SessionSteps

\* No request undoes a sign-out or a rotation with the copy it has of a session.
THEOREM SessionsAreKept == Spec => []SessionKeepsItsWrites
<1>1. Init => Sound /\ SessionKeepsItsWrites
  BY InitSound DEF Init, SessionKeepsItsWrites, NoSession
<1>2. Sound /\ SessionKeepsItsWrites /\ [Next]_vars => (Sound /\ SessionKeepsItsWrites)'
  BY StepSound, StepSessions
<1>3. QED
  BY <1>1, <1>2, PTL DEF Spec

-----------------------------------------------------------------------------
(* Invitations *)

\* A guest is in exactly when an invitation to it has been used.
Whole ==
    \A g \in Guest :
        /\ g \in registered <=> member[g] # "none"
        /\ g \in registered <=> \E i \in Invitation :
                                    invitation[i].state = "used" /\ invitation[i].email = g

\* An invitation is granted by its use, and one that is not contested is open
\* in the hands of one request; a role that was found is still there.
Single ==
    /\ \A i \in Invitation : invitation[i].state # "used" => grants[i] = 0
    /\ \A i \in Invitation \ contested :
          /\ grants[i] <= 1
          /\ \A q \in Request : target[q] = i =>
                grants[i] = 0 /\ \A r \in Request : target[r] = i => r = q

RolesStay ==
    \A r \in Request : pc[r] = "resolved" /\ role[r] # "none" => member[Invitee(r)] # "none"

Accepting == Whole /\ Single /\ RolesStay

\* Nothing about invitations changes but what a request may forget.
LEMMA AcceptingStays ==
  ASSUME Sound, Accepting,
         UNCHANGED <<registered, member, grants, contested>>,
         \A i \in Invitation :
            /\ invitation'[i].state = "used" <=> invitation[i].state = "used"
            /\ invitation[i].state # "absent" => invitation'[i].email = invitation[i].email,
         \A q \in Request :
            /\ target'[q] \in {target[q], NoId}
            /\ pc'[q] = "resolved" =>
                  pc[q] = "resolved" /\ role'[q] = role[q] /\ target'[q] = target[q]
  PROVE  Accepting'
<1>1. Whole'
  <2>1. \A i \in Invitation, g \in Guest :
          invitation'[i].state = "used" /\ invitation'[i].email = g
            <=> invitation[i].state = "used" /\ invitation[i].email = g
    OBVIOUS
  <2>2. QED
    BY <2>1 DEF Accepting, Whole
<1>2. Single'
  BY IdentityAssumption DEF Accepting, Single
<1>3. RolesStay'
  BY DEF Accepting, RolesStay, Invitee, Sound, Placed
<1>4. QED
  BY <1>1, <1>2, <1>3 DEF Accepting

LEMMA CreateAccepting ==
  ASSUME Sound, Accepting, NEW r \in Request, CreateInvitation(r)
  PROVE  Accepting'
<1>1. \A i \in Invitation :
         /\ invitation'[i].state = "used" <=> invitation[i].state = "used"
         /\ invitation[i].state # "absent" => invitation'[i].email = invitation[i].email
  <2>1. ASSUME NEW j \in Invitation, NEW g \in Guest, NEW x \in Role, invitation[j].state = "absent",
               invitation' = [invitation EXCEPT ![j] = [state |-> "open", email |-> g, role |-> x]]
        PROVE  \A i \in Invitation :
                 /\ invitation'[i].state = "used" <=> invitation[i].state = "used"
                 /\ invitation[i].state # "absent" => invitation'[i].email = invitation[i].email
    BY <2>1 DEF Sound, TypeOK
  <2>2. QED
    BY <2>1 DEF CreateInvitation, InvitableRole
<1>2. \A q \in Request :
         /\ target'[q] \in {target[q], NoId}
         /\ pc'[q] = "resolved" =>
               pc[q] = "resolved" /\ role'[q] = role[q] /\ target'[q] = target[q]
  BY FlightSteps
<1>3. QED
  BY <1>1, <1>2, FlightSteps, AcceptingStays

LEMMA ReadAccepting ==
  ASSUME Sound, Accepting, NEW r \in Request, NEW i \in Invitation, ReadInvitation(r, i)
  PROVE  Accepting'
<1>1. /\ pc[r] = "idle" /\ invitation[i].state = "open"
      /\ pc' = [pc EXCEPT ![r] = "open"] /\ target' = [target EXCEPT ![r] = i]
      /\ contested' = IF \E q \in Request : target[q] = i THEN contested \cup {i} ELSE contested
      /\ UNCHANGED <<registered, member, invitation, role, grants>>
  BY DEF ReadInvitation, tables
<1>2. Whole'
  BY <1>1 DEF Accepting, Whole
<1>3. Single'
  <2>1. grants[i] = 0
    BY <1>1 DEF Accepting, Single
  <2>2. ASSUME NEW j \in Invitation, j \notin contested', NEW q \in Request, target'[q] = j
        PROVE  grants[j] = 0 /\ \A p \in Request : target'[p] = j => p = q
    <3>1. CASE j = i
      BY <1>1, <2>1, <2>2, <3>1 DEF Sound, TypeOK
    <3>2. CASE j # i
      BY <1>1, <2>2, <3>2 DEF Accepting, Single, Sound, TypeOK
    <3>3. QED
      BY <3>1, <3>2
  <2>3. QED
    BY <1>1, <2>2 DEF Accepting, Single
<1>4. RolesStay'
  BY <1>1 DEF Accepting, RolesStay, Invitee, Sound, TypeOK
<1>5. QED
  BY <1>2, <1>3, <1>4 DEF Accepting

LEMMA ResolveAccepting ==
  ASSUME Sound, Accepting, NEW r \in Request, ResolveUser(r)
  PROVE  Accepting'
<1>1. /\ pc' = [pc EXCEPT ![r] = "resolved"] /\ role' = [role EXCEPT ![r] = member[Invitee(r)]]
      /\ UNCHANGED <<registered, member, invitation, grants, contested, target>>
  BY DEF ResolveUser, tables, history
<1>2. Whole' /\ Single'
  BY <1>1 DEF Accepting, Whole, Single
<1>3. RolesStay'
  BY <1>1 DEF Accepting, RolesStay, Invitee, Sound, TypeOK
<1>4. QED
  BY <1>2, <1>3 DEF Accepting

LEMMA CommitAccepting ==
  ASSUME Sound, Accepting, NEW r \in Request, CommitAcceptance(r)
  PROVE  Accepting'
<1> DEFINE i == target[r]
           e == Invitee(r)
<1>1. /\ pc[r] = "resolved" /\ i \in Invitation /\ e \in User
      /\ invitation[i].email = e /\ invitation[i].role \in Role
  BY DEF CommitAcceptance, Invitee, Sound, Placed, TypeOK, InvitationRow
<1>2. \A q \in Request :
         /\ target'[q] = IF q = r THEN NoId ELSE target[q]
         /\ pc'[q] = "resolved" => q # r /\ pc[q] = "resolved" /\ role'[q] = role[q]
  BY FinishTyped DEF CommitAcceptance, Answer, Sound
<1>3. contested' = contested
  BY DEF CommitAcceptance
<1>4. CASE Conflicts(r)
  BY <1>2, <1>3, <1>4, AcceptingStays DEF CommitAcceptance
<1>5. CASE ~Conflicts(r)
  <2>1. /\ registered' = registered \cup {e} /\ member' = Granted(r)
        /\ StateWrites(i, "used") /\ grants' = [grants EXCEPT ![i] = @ + 1]
    BY <1>5 DEF CommitAcceptance, Used, StateWrites
  <2>2. \A j \in Invitation :
           /\ invitation'[j].state = IF j = i THEN "used" ELSE invitation[j].state
           /\ invitation'[j].email = invitation[j].email
    BY <1>1, <2>1, StateWritten DEF Sound
  <2>3. /\ member'[e] # "none"
        /\ \A u \in User \ {e} : member'[u] = member[u]
        /\ \A u \in User : member[u] # "none" => member'[u] # "none"
    BY <1>1, <1>5, <2>1 DEF Granted, Accepting, RolesStay, Sound, TypeOK, Role
  <2>4. Whole'
    <3>1. ASSUME NEW g \in Guest
          PROVE  /\ g \in registered' <=> member'[g] # "none"
                 /\ g \in registered' <=> \E j \in Invitation :
                       invitation'[j].state = "used" /\ invitation'[j].email = g
      <4>1. CASE g = e
        BY <1>1, <2>1, <2>2, <2>3, <4>1
      <4>2. CASE g # e
        BY <1>1, <2>1, <2>2, <2>3, <4>2 DEF Accepting, Whole, User
      <4>3. QED
        BY <4>1, <4>2
    <3>2. QED
      BY <3>1 DEF Whole
  <2>5. Single'
    <3>1. /\ grants'[i] = grants[i] + 1 /\ grants[i] \in Nat
          /\ \A j \in Invitation \ {i} : grants'[j] = grants[j]
      BY <1>1, <2>1 DEF Sound, TypeOK
    <3>2. i \notin contested => grants[i] = 0
      BY <1>1 DEF Accepting, Single
    <3>3. ASSUME NEW q \in Request, target'[q] = i, i \notin contested
          PROVE  FALSE
      BY <1>1, <1>2, <3>3, IdentityAssumption DEF Accepting, Single
    <3>4. \A j \in Invitation : invitation'[j].state # "used" => grants'[j] = 0
      BY <2>2, <3>1 DEF Accepting, Single
    <3>5. ASSUME NEW j \in Invitation \ contested
          PROVE  /\ grants'[j] <= 1
                 /\ \A q \in Request : target'[q] = j =>
                       grants'[j] = 0 /\ \A p \in Request : target'[p] = j => p = q
      <4>1. CASE j = i
        BY <3>1, <3>2, <3>3, <4>1
      <4>2. CASE j # i
        BY <1>2, <3>1, <4>2, IdentityAssumption DEF Accepting, Single
      <4>3. QED
        BY <4>1, <4>2
    <3>6. QED
      BY <1>3, <3>4, <3>5 DEF Single
  <2>6. RolesStay'
    <3>1. ASSUME NEW q \in Request, pc'[q] = "resolved", role'[q] # "none"
          PROVE  member'[Invitee(q)'] # "none"
      <4>1. /\ target'[q] = target[q] /\ target[q] \in Invitation
            /\ pc[q] = "resolved" /\ role[q] # "none" /\ Invitee(q) \in User
        BY <1>2, <3>1 DEF Invitee, Sound, Placed, TypeOK, InvitationRow
      <4>2. Invitee(q)' = Invitee(q)
        BY <2>2, <4>1 DEF Invitee
      <4>3. QED
        BY <2>3, <4>1, <4>2 DEF Accepting, RolesStay
    <3>2. QED
      BY <3>1 DEF RolesStay
  <2>7. QED
    BY <2>4, <2>5, <2>6 DEF Accepting
<1>6. QED
  BY <1>4, <1>5

LEMMA StepAccepting ==
  ASSUME Sound, Accepting, [Next]_vars
  PROVE  Accepting'
<1>1. CASE UNCHANGED <<registered, member, grants, contested, invitation, target, pc, role>>
  BY <1>1, AcceptingStays
<1>2. ASSUME NEW i \in Invitation, InvitationExpires(i)
      PROVE  Accepting'
  <2>1. StateWrites(i, "expired") /\ invitation[i].state = "open"
    BY <1>2 DEF InvitationExpires, StateWrites
  <2>2. \A j \in Invitation :
           /\ invitation'[j].state = IF j = i THEN "expired" ELSE invitation[j].state
           /\ invitation'[j].email = invitation[j].email
    BY <2>1, StateWritten DEF Sound
  <2>3. UNCHANGED <<registered, member, grants, contested, target, pc, role>>
    BY <1>2 DEF InvitationExpires, flight, history
  <2>4. QED
    BY <2>1, <2>2, <2>3, AcceptingStays
<1>3. ASSUME NEW r \in Request,
             \/ LoadContext(r) \/ RotateCsrf(r) \/ Logout(r) \/ CreateTenant(r)
             \/ LockTenant(r) \/ CommitStatus(r) \/ \E s \in Session : LoadSession(r, s)
      PROVE  Accepting'
  <2>1. CreateInvitation(r) => Accepting'
    BY CreateAccepting
  <2>2. CASE UNCHANGED invitation
    <3>1. \A q \in Request :
             /\ target'[q] \in {target[q], NoId}
             /\ pc'[q] = "resolved" =>
                   pc[q] = "resolved" /\ role'[q] = role[q] /\ target'[q] = target[q]
      BY <1>3, FlightSteps
    <3>2. QED
      BY <1>3, <2>2, <3>1, FlightSteps, AcceptingStays
  <2>3. QED
    BY <1>3, <2>1, <2>2, FlightSteps
<1>4. QED
  BY <1>1, <1>2, <1>3, CreateAccepting, ReadAccepting, ResolveAccepting, CommitAccepting
     DEF Next, Login, SessionExpires, vars, tables, flight, history

\* Whichever requests accept invitations at once, a guest is registered and a
\* member exactly when an invitation to it is used, and an invitation that no
\* two requests have open at the same time is used once.
THEOREM AcceptancesAreWhole == Spec => []AcceptanceIsWhole
<1>1. Init => Sound /\ Accepting
  <2>1. Init => Accepting
    BY IdentityAssumption
       DEF Init, Accepting, Whole, Single, RolesStay, NoInvitation, User
  <2>2. QED
    BY <2>1, InitSound
<1>2. Sound /\ Accepting /\ [Next]_vars => (Sound /\ Accepting)'
  BY StepSound, StepAccepting
<1>3. Accepting => AcceptanceIsWhole
  BY DEF Accepting, Whole, Single, AcceptanceIsWhole
<1>4. QED
  BY <1>1, <1>2, <1>3, PTL DEF Spec

-----------------------------------------------------------------------------
(* The trail of the tenant's status *)

\* A step that does not commit a status leaves the tenant, or creates it.
LEMMA TenantSteps ==
  ASSUME [Next]_vars
  PROVE  \/ UNCHANGED <<tenant, trail>> /\ (blind => blind')
         \/ \E r \in Request : CreateTenant(r) \/ CommitStatus(r)
<1>1. ASSUME NEW r \in Request, LockTenant(r)
      PROVE  UNCHANGED <<tenant, trail>> /\ (blind => blind')
  BY <1>1 DEF LockTenant
<1>2. QED
  BY <1>1 DEF Next, Login, SessionExpires, InvitationExpires, LoadSession, LoadContext,
              RotateCsrf, Logout, CreateInvitation, ReadInvitation, ResolveUser,
              CommitAcceptance, vars, tables, history

LEMMA StepTrail ==
  ASSUME Sound, TrailIsTrue, [Next]_vars
  PROVE  TrailIsTrue'
<1>1. CASE UNCHANGED <<tenant, trail>> /\ (blind => blind')
  BY <1>1 DEF TrailIsTrue, After
<1>2. ASSUME NEW r \in Request, CreateTenant(r)
      PROVE  TrailIsTrue'
  <2>1. trail' = trail /\ blind' = blind
        /\ (tenant' = tenant \/ (tenant = "absent" /\ tenant' = "active"))
    BY <1>2 DEF CreateTenant
  <2>2. tenant = "absent" => Len(trail) = 0
    BY DEF Sound, Locked
  <2>3. QED
    BY <2>1, <2>2 DEF TrailIsTrue, After
<1>3. ASSUME NEW r \in Request, CommitStatus(r)
      PROVE  TrailIsTrue'
  <2>1. /\ pc[r] = "locked" /\ tenant' = kind[r] /\ blind' = blind
        /\ trail' = Append(trail, [before |-> view[r], after |-> kind[r]])
    BY <1>3 DEF CommitStatus
  <2>2. CASE blind
    BY <2>1, <2>2 DEF TrailIsTrue
  <2>3. CASE ~blind
    <3>1. PICK n \in Nat : n = Len(trail)
      BY DEF Sound, TypeOK
    <3>2. PICK old, new : old = view[r] /\ new = kind[r]
      OBVIOUS
    <3>3. /\ tenant # "absent" /\ old = tenant /\ tenant = After(n)
          /\ \A m \in 1..n : trail[m].before = After(m - 1)
      <4>1. tenant # "absent" /\ view[r] = tenant
        BY <2>1, <2>3 DEF Sound, Locked
      <4>2. DOMAIN trail = 1..n
        BY <3>1 DEF Sound, TypeOK
      <4>3. QED
        BY <2>3, <3>1, <3>2, <4>1, <4>2 DEF TrailIsTrue
    <3>4. /\ Len(trail') = n + 1 /\ DOMAIN trail' = 1..n + 1
          /\ trail'[n + 1] = [before |-> old, after |-> new]
          /\ \A m \in 1..n : trail'[m] = trail[m]
      BY <2>1, <3>1, <3>2 DEF Sound, TypeOK
    <3>5. \A m \in 0..n : After(m)' = After(m)
      BY <3>1, <3>4 DEF After
    <3>6. After(n + 1)' = new
      BY <3>1, <3>4 DEF After
    <3>7. ASSUME NEW m \in DOMAIN trail'
          PROVE  trail'[m].before = After(m - 1)'
      <4>1. CASE m = n + 1
        <5>1. After(m - 1)' = After(n)'
          BY <3>1, <4>1
        <5>2. QED
          BY <3>1, <3>3, <3>4, <3>5, <4>1, <5>1
      <4>2. CASE m \in 1..n
        <5>1. m - 1 \in 0..n
          BY <3>1, <4>2
        <5>2. QED
          BY <3>3, <3>4, <3>5, <4>2, <5>1
      <4>3. QED
        BY <3>1, <3>4, <3>7, <4>1, <4>2
    <3>8. tenant' = After(Len(trail))'
      BY <2>1, <3>2, <3>4, <3>6
    <3>9. QED
      BY <3>7, <3>8 DEF TrailIsTrue
  <2>4. QED
    BY <2>2, <2>3
<1>4. QED
  BY <1>1, <1>2, <1>3, TenantSteps

\* However many admins change the tenant's status at once, the audit trail is a
\* chain that ends in it, unless one decided on an object loaded before the lock.
THEOREM TrailStaysTrue == Spec => []TrailIsTrue
<1>1. Init => Sound /\ TrailIsTrue
  BY InitSound DEF Init, TrailIsTrue
<1>2. Sound /\ TrailIsTrue /\ [Next]_vars => (Sound /\ TrailIsTrue)'
  BY StepSound, StepTrail
<1>3. QED
  BY <1>1, <1>2, PTL DEF Spec

-----------------------------------------------------------------------------
(* Suspensions *)

\* A request under way notices an active tenant; one that goes by the tenant it
\* has loaded, or by the invitation's, has met it active.
Met ==
    \A r \in Request :
        /\ pc[r] # "idle" /\ tenant = "active" => metActive[r]
        /\ pc[r] = "context" /\ view[r] = "active" => metActive[r]
        /\ pc[r] \in {"open", "resolved"} => metActive[r]

\* What a request has met stays with it, and a tenant becomes active for all.
LEMMA MetStays ==
  ASSUME Met, NEW r \in Request,
         \A q \in Request \ {r} :
            /\ pc'[q] = pc[q] /\ view'[q] = view[q]
            /\ pc[q] # "idle" => metActive'[q] = metActive[q] \/ metActive'[q],
         tenant' = "active" /\ tenant # "active" =>
            \A q \in Request \ {r} : pc[q] # "idle" => metActive'[q],
         /\ pc'[r] # "idle" /\ tenant' = "active" => metActive'[r]
         /\ pc'[r] = "context" /\ view'[r] = "active" => metActive'[r]
         /\ pc'[r] \in {"open", "resolved"} => metActive'[r]
  PROVE  Met'
<1>1. ASSUME NEW q \in Request \ {r}
      PROVE  /\ pc'[q] # "idle" /\ tenant' = "active" => metActive'[q]
             /\ pc'[q] = "context" /\ view'[q] = "active" => metActive'[q]
             /\ pc'[q] \in {"open", "resolved"} => metActive'[q]
  BY DEF Met
<1>2. QED
  BY <1>1 DEF Met

LEMMA StepMet ==
  ASSUME Sound, Met, [Next]_vars
  PROVE  Met'
<1>1. CASE UNCHANGED <<tenant, pc, view, metActive>>
  BY <1>1 DEF Met
<1>2. ASSUME NEW r \in Request, NEW s \in Session, LoadSession(r, s)
      PROVE  Met'
  <2>1. tenant' = tenant /\ view' = view /\ pc' = [pc EXCEPT ![r] = "session"]
        /\ metActive' = [metActive EXCEPT ![r] = tenant = "active"]
    BY <1>2 DEF LoadSession, tables
  <2>2. QED
    BY <2>1, MetStays DEF Sound, TypeOK
<1>3. ASSUME NEW r \in Request, NEW i \in Invitation, ReadInvitation(r, i)
      PROVE  Met'
  <2>1. tenant' = tenant /\ view' = view /\ pc' = [pc EXCEPT ![r] = "open"]
        /\ metActive' = [metActive EXCEPT ![r] = TRUE]
    BY <1>3 DEF ReadInvitation, tables
  <2>2. QED
    BY <2>1, MetStays DEF Sound, TypeOK
<1>4. ASSUME NEW r \in Request, Answer(r), tenant' = tenant
      PROVE  Met'
  <2>1. pc'[r] = "idle" /\ \A q \in Request \ {r} : pc'[q] = pc[q] /\ view'[q] = view[q]
    BY <1>4, FinishTyped DEF Answer, Sound
  <2>2. \A q \in Request \ {r} : metActive'[q] = metActive[q]
    BY <1>4 DEF Answer, Forget, Sound, TypeOK
  <2>3. QED
    BY <1>4, <2>1, <2>2, MetStays
<1>5. ASSUME NEW r \in Request, CreateTenant(r) \/ CommitStatus(r)
      PROVE  Met'
  <2>1. Finish(r)
    BY <1>5 DEF CreateTenant, CommitStatus
  <2>2. CASE Forget(r) /\ tenant' # "active"
    <3>1. \A q \in Request \ {r} : metActive'[q] = metActive[q]
      BY <2>2 DEF Forget, Sound, TypeOK
    <3>2. QED
      BY <2>1, <2>2, <3>1, FinishTyped, MetStays DEF Sound
  <2>3. CASE MeetActive(r)
    <3>1. \A q \in Request \ {r} : pc[q] # "idle" => metActive'[q]
      BY <2>3 DEF MeetActive
    <3>2. QED
      BY <2>1, <3>1, FinishTyped, MetStays DEF Sound
  <2>4. CASE Forget(r) /\ tenant' = tenant
    BY <1>4, <2>1, <2>4 DEF Answer
  <2>5. QED
    BY <1>5, <2>2, <2>3, <2>4 DEF CreateTenant, CommitStatus, Sound, Locked
<1>6. ASSUME NEW r \in Request, LockTenant(r), ~Answer(r)
      PROVE  Met'
  <2>1. /\ UNCHANGED <<tenant, metActive>> /\ pc[r] = "context"
        /\ pc' = [pc EXCEPT ![r] = "locked"] /\ view' = [view EXCEPT ![r] = Seen(r)]
    BY <1>6 DEF LockTenant
  <2>2. pc'[r] = "locked" /\ \A q \in Request \ {r} : pc'[q] = pc[q] /\ view'[q] = view[q]
    BY <2>1 DEF Sound, TypeOK
  <2>3. QED
    BY <2>1, <2>2, MetStays DEF Met
<1>7. ASSUME NEW r \in Request, LoadContext(r), ~Answer(r)
      PROVE  Met'
  <2>1. PICK selects \in BOOLEAN :
           /\ UNCHANGED <<tenant, metActive>> /\ pc[r] = "session"
           /\ pc' = [pc EXCEPT ![r] = "context"]
           /\ view' = [view EXCEPT ![r] = TenantFor(r, selects)]
    BY <1>7 DEF LoadContext
  <2>2. /\ pc'[r] = "context" /\ view'[r] \in {tenant, "none"}
        /\ \A q \in Request \ {r} : pc'[q] = pc[q] /\ view'[q] = view[q]
    BY <2>1 DEF TenantFor, Sound, TypeOK
  <2>3. QED
    BY <2>1, <2>2, MetStays DEF Met
<1>8. ASSUME NEW r \in Request, ResolveUser(r)
      PROVE  Met'
  <2>1. UNCHANGED <<tenant, metActive, view>> /\ pc[r] = "open"
        /\ pc' = [pc EXCEPT ![r] = "resolved"]
    BY <1>8 DEF ResolveUser, tables, history
  <2>2. QED
    BY <2>1, MetStays DEF Met, Sound, TypeOK
<1>9. ASSUME NEW r \in Request,
             \/ RotateCsrf(r) \/ Logout(r) \/ CreateInvitation(r) \/ CommitAcceptance(r)
             \/ LockTenant(r) \/ LoadContext(r)
      PROVE  Met'
  <2>1. tenant' = tenant
    BY <1>9 DEF RotateCsrf, Logout, CreateInvitation, CommitAcceptance, LockTenant, LoadContext
  <2>2. CASE Answer(r)
    BY <1>4, <2>1, <2>2
  <2>3. CASE ~Answer(r)
    BY <1>6, <1>7, <1>9, <2>3 DEF RotateCsrf, Logout, CreateInvitation, CommitAcceptance
  <2>4. QED
    BY <2>2, <2>3
<1>10. QED
  BY <1>1, <1>2, <1>3, <1>5, <1>8, <1>9
     DEF Next, Login, SessionExpires, InvitationExpires, vars, tables, flight, history

\* Who joins, or is invited, does so by a request that has met the tenant active.
LEMMA JoinsMeet ==
  ASSUME Sound, Met, [Next]_vars,
         \/ member' # member
         \/ \E i \in Invitation : invitation[i].state = "absent" /\ invitation'[i].state = "open"
  PROVE  \E r \in Request : pc'[r] # pc[r] /\ metActive[r]
<1>1. ASSUME NEW r \in Request, CommitAcceptance(r)
      PROVE  pc'[r] # pc[r] /\ metActive[r]
  BY <1>1, FinishTyped DEF CommitAcceptance, Answer, Sound, Met
<1>2. ASSUME NEW r \in Request, CreateInvitation(r), invitation' # invitation
      PROVE  pc'[r] # pc[r] /\ metActive[r]
  BY <1>2, FinishTyped DEF CreateInvitation, MayInvite, Answer, Sound, Met
<1>3. ASSUME NEW i \in Invitation, InvitationExpires(i)
      PROVE  FALSE
  <2>1. StateWrites(i, "expired") /\ member' = member
    BY <1>3 DEF InvitationExpires, StateWrites
  <2>2. \A j \in Invitation : invitation'[j].state = IF j = i THEN "expired" ELSE invitation[j].state
    BY <2>1, StateWritten DEF Sound
  <2>3. QED
    BY <2>1, <2>2
<1>4. ASSUME NEW r \in Request,
             \/ LoadContext(r) \/ RotateCsrf(r) \/ Logout(r) \/ CreateTenant(r)
             \/ LockTenant(r) \/ CommitStatus(r) \/ ResolveUser(r)
             \/ (\E s \in Session : LoadSession(r, s))
             \/ (\E i \in Invitation : ReadInvitation(r, i))
      PROVE  FALSE
  BY <1>4 DEF LoadContext, RotateCsrf, Logout, CreateTenant, LockTenant, CommitStatus,
              ResolveUser, LoadSession, ReadInvitation, tables
<1>5. CASE UNCHANGED <<member, invitation>>
  BY <1>5
<1>6. ASSUME NEW r \in Request, CreateInvitation(r)
      PROVE  invitation' # invitation
  BY <1>6 DEF CreateInvitation
<1>7. QED
  BY <1>1, <1>2, <1>3, <1>4, <1>5, <1>6 DEF Next, Login, SessionExpires, vars, tables

\* A suspension holds: nobody joins the tenant or is invited to it by a request
\* that has only met it suspended.
THEOREM SuspensionsHold == Spec => SuspensionHolds
<1>1. Init => Sound /\ Met
  BY InitSound DEF Init, Met
<1>2. Sound /\ Met /\ [Next]_vars => (Sound /\ Met)'
  BY StepSound, StepMet
<1>3. Sound /\ Met /\ [Next]_vars =>
        [(member' # member \/ \E i \in Invitation : invitation[i].state = "absent"
                                                    /\ invitation'[i].state = "open")
         => \E r \in Request : pc'[r] # pc[r] /\ metActive[r]]_vars
  BY JoinsMeet
<1>4. QED
  BY <1>1, <1>2, <1>3, PTL DEF Spec, SuspensionHolds
=============================================================================
