--------------------------- MODULE IdentityAccess ---------------------------
(***************************************************************************)
(* Sign-in sessions, a tenant, its invitations and its memberships under   *)
(* concurrent requests (identity/service.py, identity/router.py,           *)
(* core/dependencies.py, core/permissions.py).                             *)
(*                                                                         *)
(* A request has a database session of its own.  An object it has loaded   *)
(* keeps its columns: a later SELECT of the same row returns it unchanged, *)
(* and SELECT ... FOR UPDATE locks the row without repopulating it.  A     *)
(* flush writes the columns that differ from the loaded ones, WHERE id = ?.*)
(***************************************************************************)
EXTENDS Naturals, Sequences, FiniteSets

CONSTANTS
    Request,        \* requests that may be in flight at once
    Guest,          \* people who can only come in by an invitation
    Root,           \* the platform admin
    Invitation,     \* ids of invitations
    Session,        \* ids of sign-in sessions
    NoRequest,      \* nobody holds the lock on the tenant's row
    NoId,           \* no row
    StatusBudget,   \* bound: changes of the tenant's status
    RotateBudget,   \* bound: rotations of a session's CSRF token
    ExpiryBudget    \* bound: sessions and invitations that expire unused

ASSUME IdentityAssumption ==
    /\ Root \notin Guest
    /\ NoRequest \notin Request
    /\ NoId \notin Invitation \cup Session
    /\ StatusBudget \in Nat
    /\ RotateBudget \in Nat
    /\ ExpiryBudget \in Nat

VARIABLES
    tenant,         \* tenant.status, "absent" before its creation
    trail,          \* audit records of its status: before and after
    lock,           \* the request that has the tenant's row FOR UPDATE
    registered,     \* the users there are
    member,         \* membership.role, "none" without a membership
    invitation,     \* rows of invitations
    session,        \* rows of sessions
    pc, kind,       \* where a request is, and what it wants
    signed, copy,   \* its session's id, and that row as it loaded it
    view,           \* the status of the tenant as it loaded it
    role,           \* the role it found for its user
    target, found,  \* the invitation it accepts, and whether its user was there
    issued,         \* history: the CSRF token a session was last given
    ended,          \* history: sessions that were signed out
    grants,         \* history: how often an invitation was accepted
    contested,      \* history: invitations two requests have had open at once
    metActive,      \* history: the tenant was active at some time of the request
    blind           \* history: a status was changed on the word of an old object

tables  == <<tenant, trail, lock, registered, member, invitation, session>>
flight  == <<pc, kind, signed, copy, view, role, target, found>>
history == <<issued, ended, grants, contested, metActive, blind>>
vars    == <<tables, flight, history>>

User   == Guest \cup {Root}
Role   == {"tenant_admin", "operator"}
\* "suspended" and "active" are the two payloads of update_tenant_status.
Kind   == {"none", "create", "invite", "suspended", "active", "rotate", "logout", "accept"}
Status == {"absent", "active", "suspended"}

InvitationRow == [state : {"absent", "open", "expired", "used"}, email : User, role : Role]
SessionRow    == [user : User, state : {"absent", "live", "expired", "revoked"}, csrf : Nat]

NoSession    == [user |-> Root, state |-> "absent", csrf |-> 0]
NoInvitation == [state |-> "absent", email |-> Root, role |-> "operator"]

TypeOK ==
    /\ tenant \in Status
    /\ trail \in Seq([before : Status, after : Status]) /\ Len(trail) <= StatusBudget
    /\ lock \in Request \cup {NoRequest}
    /\ registered \subseteq User
    /\ member \in [User -> Role \cup {"none"}]
    /\ invitation \in [Invitation -> InvitationRow]
    /\ session \in [Session -> SessionRow]
    /\ pc \in [Request -> {"idle", "session", "context", "locked", "open", "resolved"}]
    /\ kind \in [Request -> Kind]
    /\ signed \in [Request -> Session \cup {NoId}]
    /\ copy \in [Request -> SessionRow]
    /\ view \in [Request -> Status \cup {"none"}]
    /\ role \in [Request -> Role \cup {"platform_admin", "none"}]
    /\ target \in [Request -> Invitation \cup {NoId}]
    /\ found \in [Request -> BOOLEAN]
    /\ issued \in [Session -> Nat]
    /\ ended \subseteq Session
    /\ grants \in [Invitation -> Nat]
    /\ contested \subseteq Invitation
    /\ metActive \in [Request -> BOOLEAN]
    /\ blind \in BOOLEAN

Init ==
    /\ tenant     = "absent"
    /\ trail      = << >>
    /\ lock       = NoRequest
    /\ registered = {Root}
    /\ member     = [u \in User |-> "none"]
    /\ invitation = [i \in Invitation |-> NoInvitation]
    /\ session    = [s \in Session |-> NoSession]
    /\ pc         = [r \in Request |-> "idle"]
    /\ kind       = [r \in Request |-> "none"]
    /\ signed     = [r \in Request |-> NoId]
    /\ copy       = [r \in Request |-> NoSession]
    /\ view       = [r \in Request |-> "none"]
    /\ role       = [r \in Request |-> "none"]
    /\ target     = [r \in Request |-> NoId]
    /\ found      = [r \in Request |-> FALSE]
    /\ issued     = [s \in Session |-> 0]
    /\ ended      = {}
    /\ grants     = [i \in Invitation |-> 0]
    /\ contested  = {}
    /\ metActive  = [r \in Request |-> FALSE]
    /\ blind      = FALSE

-----------------------------------------------------------------------------
(* Requests begin and end *)

\* The request is answered and its database session closed.
Finish(r) ==
    /\ pc'        = [pc EXCEPT ![r] = "idle"]
    /\ kind'      = [kind EXCEPT ![r] = "none"]
    /\ signed'    = [signed EXCEPT ![r] = NoId]
    /\ copy'      = [copy EXCEPT ![r] = NoSession]
    /\ view'      = [view EXCEPT ![r] = "none"]
    /\ role'      = [role EXCEPT ![r] = "none"]
    /\ target'    = [target EXCEPT ![r] = NoId]
    /\ found'     = [found EXCEPT ![r] = FALSE]

Forget(r) == metActive' = [metActive EXCEPT ![r] = FALSE]

Answer(r) == Finish(r) /\ Forget(r)

\* The tenant becomes active while the other requests are under way.
MeetActive(r) == metActive' = [q \in Request |-> q # r /\ pc[q] # "idle"]

\* authenticate: a new session for a user with the right password.
Login(u, s) ==
    /\ u \in registered
    /\ session[s].state = "absent"
    /\ session' = [session EXCEPT ![s] = [user |-> u, state |-> "live", csrf |-> 1]]
    /\ issued'  = [issued EXCEPT ![s] = 1]
    /\ UNCHANGED <<tenant, trail, lock, registered, member, invitation, flight,
                   ended, grants, contested, metActive, blind>>

MayExpire ==
    Cardinality({s \in Session : session[s].state = "expired"})
        + Cardinality({i \in Invitation : invitation[i].state = "expired"}) < ExpiryBudget

SessionExpires(s) ==
    /\ session[s].state = "live"
    /\ MayExpire
    /\ session' = [session EXCEPT ![s].state = "expired"]
    /\ UNCHANGED <<tenant, trail, lock, registered, member, invitation, flight, history>>

InvitationExpires(i) ==
    /\ invitation[i].state = "open"
    /\ MayExpire
    /\ invitation' = [invitation EXCEPT ![i].state = "expired"]
    /\ UNCHANGED <<tenant, trail, lock, registered, member, session, flight, history>>

-----------------------------------------------------------------------------
(* Authentication of a request: get_auth_context and what depends on it *)

\* The session of the cookie is loaded with its user; only a live one goes on.
LoadSession(r, s) ==
    /\ pc[r] = "idle"
    /\ session[s].state = "live"
    /\ pc'        = [pc EXCEPT ![r] = "session"]
    /\ signed'    = [signed EXCEPT ![r] = s]
    /\ copy'      = [copy EXCEPT ![r] = session[s]]
    /\ metActive' = [metActive EXCEPT ![r] = tenant = "active"]
    /\ UNCHANGED <<tables, kind, view, role, target, found,
                   issued, ended, grants, contested, blind>>

IsPlatformAdmin(r) == copy[r].user = Root

\* With a tenant in the header or the cookie the request needs that tenant
\* active and, but for a platform admin, a membership in it.
Admitted(r, selects) ==
    selects => tenant = "active" /\ (IsPlatformAdmin(r) \/ member[copy[r].user] # "none")

\* Without one, the only membership of a user brings its tenant along, in
\* whatever status; a platform admin has no tenant then.
TenantFor(r, selects) ==
    IF selects \/ (~IsPlatformAdmin(r) /\ member[copy[r].user] # "none") THEN tenant ELSE "none"

RoleFor(r) == IF IsPlatformAdmin(r) THEN "platform_admin" ELSE member[copy[r].user]

\* ROLE_PERMISSIONS, for the permissions these requests ask for.
HasPermission(x, k) ==
    CASE k \in {"create", "suspended", "active"} -> x = "platform_admin"
      [] k = "invite"                            -> x \in {"platform_admin", "tenant_admin"}
      [] OTHER                                   -> TRUE

\* Mutant of Touch: the update of last_seen_at writes every column as it was loaded.
TouchRow(row, loaded) == loaded

\* The touch of last_seen_at, a column that no other request reads, leaves the
\* rest of the row as it is.
Touch(row, loaded) == row

\* The tenant and the membership are loaded, and a session not seen for a while
\* is touched and committed; a request without the permission it needs, or
\* without the CSRF token of the loaded session, is refused only then.  What
\* the context took from the session's row is not used any more.
LoadContext(r) ==
    /\ pc[r] = "session"
    /\ \E selects \in BOOLEAN :
          \/ ~Admitted(r, selects) /\ Answer(r) /\ UNCHANGED session
          \/ /\ Admitted(r, selects)
             /\ session' \in {session, [session EXCEPT ![signed[r]] = Touch(@, copy[r])]}
             /\ \/ Answer(r)
                \/ \E k \in Kind \ {"none", "accept"} :
                      /\ HasPermission(RoleFor(r), k)
                      /\ pc'   = [pc EXCEPT ![r] = "context"]
                      /\ kind' = [kind EXCEPT ![r] = k]
                      /\ view' = [view EXCEPT ![r] = TenantFor(r, selects)]
                      /\ role' = [role EXCEPT ![r] = RoleFor(r)]
                      /\ copy' = [copy EXCEPT ![r] = NoSession]
                      /\ UNCHANGED <<signed, target, found, metActive>>
    /\ UNCHANGED <<tenant, trail, lock, registered, member, invitation,
                   issued, ended, grants, contested, blind>>

-----------------------------------------------------------------------------
(* The session's own requests *)

\* rotate_csrf writes the token's column of the loaded row, by its id.
RotateCsrf(r) ==
    LET s == signed[r] IN
    /\ pc[r] = "context" /\ kind[r] = "rotate"
    /\ issued[s] <= RotateBudget
    /\ issued'  = [issued EXCEPT ![s] = @ + 1]
    /\ session' = [session EXCEPT ![s].csrf = issued[s] + 1]
    /\ Answer(r)
    /\ UNCHANGED <<tenant, trail, lock, registered, member, invitation,
                   ended, grants, contested, blind>>

Logout(r) ==
    /\ pc[r] = "context" /\ kind[r] = "logout"
    /\ session' = [session EXCEPT ![signed[r]].state = "revoked"]
    /\ ended'   = ended \cup {signed[r]}
    /\ Answer(r)
    /\ UNCHANGED <<tenant, trail, lock, registered, member, invitation,
                   issued, grants, contested, blind>>

-----------------------------------------------------------------------------
(* The platform admin and the tenant *)

\* create_tenant: the unique slug refuses a second one.
CreateTenant(r) ==
    /\ pc[r] = "context" /\ kind[r] = "create"
    /\ IF tenant = "absent"
       THEN tenant' = "active" /\ MeetActive(r)
       ELSE Forget(r) /\ UNCHANGED tenant
    /\ Finish(r)
    /\ UNCHANGED <<trail, lock, registered, member, invitation, session,
                   issued, ended, grants, contested, blind>>

\* What the locking SELECT of update_tenant_status returns.
Seen(r) == IF view[r] = "none" THEN tenant ELSE view[r]

\* Mutant of LockIsFree: the row is read without FOR UPDATE.
ReadUnlocked(r) == TRUE

LockIsFree(r) == lock = NoRequest

\* update_tenant_status waits for the row's lock; nothing is to be done when
\* the object it then has is in the wanted status.
LockTenant(r) ==
    /\ pc[r] = "context" /\ kind[r] \in {"suspended", "active"}
    /\ LockIsFree(r)
    /\ blind' = (blind \/ (tenant # "absent" /\ Seen(r) # tenant))
    /\ IF tenant = "absent" \/ Seen(r) = kind[r]
       THEN Answer(r) /\ UNCHANGED lock
       ELSE /\ Len(trail) < StatusBudget
            /\ lock' = r
            /\ pc'   = [pc EXCEPT ![r] = "locked"]
            /\ view' = [view EXCEPT ![r] = Seen(r)]
            /\ UNCHANGED <<kind, signed, copy, role, target, found, metActive>>
    /\ UNCHANGED <<tenant, trail, registered, member, invitation, session,
                   issued, ended, grants, contested>>

\* The new status and its audit record are one transaction.
CommitStatus(r) ==
    /\ pc[r] = "locked"
    /\ tenant' = kind[r]
    /\ trail'  = Append(trail, [before |-> view[r], after |-> kind[r]])
    /\ lock'   = NoRequest
    /\ IF kind[r] = "active" THEN MeetActive(r) ELSE Forget(r)
    /\ Finish(r)
    /\ UNCHANGED <<registered, member, invitation, session,
                   issued, ended, grants, contested, blind>>

-----------------------------------------------------------------------------
(* Invitations *)

\* Mutant of InvitableRole: the role is not looked at.
AnyRole == Role \cup {"platform_admin"}

\* A platform admin cannot be invited.
InvitableRole == Role

\* Mutant of MayInvite: the status of the tenant is not asked for.
AnyTenant(r) == view[r] # "none" /\ role[r] \in {"platform_admin", "tenant_admin"}

\* create_invitation looks the tenant and the membership up again, and finds
\* the objects that the context has loaded.
MayInvite(r) == view[r] = "active" /\ role[r] \in {"platform_admin", "tenant_admin"}

CreateInvitation(r) ==
    /\ pc[r] = "context" /\ kind[r] = "invite"
    /\ IF MayInvite(r)
       THEN \E i \in Invitation, e \in Guest, x \in InvitableRole :
               /\ invitation[i].state = "absent"
               /\ invitation' = [invitation EXCEPT ![i] = [state |-> "open", email |-> e, role |-> x]]
       ELSE UNCHANGED invitation
    /\ Answer(r)
    /\ UNCHANGED <<tenant, trail, lock, registered, member, session,
                   issued, ended, grants, contested, blind>>

\* accept_invitation, which needs no session: the invitation must be open and
\* its tenant active.
ReadInvitation(r, i) ==
    /\ pc[r] = "idle"
    /\ invitation[i].state = "open"
    /\ tenant = "active"
    /\ pc'        = [pc EXCEPT ![r] = "open"]
    /\ kind'      = [kind EXCEPT ![r] = "accept"]
    /\ target'    = [target EXCEPT ![r] = i]
    /\ contested' = IF \E q \in Request : target[q] = i THEN contested \cup {i} ELSE contested
    /\ metActive' = [metActive EXCEPT ![r] = TRUE]
    /\ UNCHANGED <<tables, signed, copy, view, role, found, issued, ended, grants, blind>>

Invitee(r) == invitation[target[r]].email

\* Its user and the membership are looked up.
ResolveUser(r) ==
    /\ pc[r] = "open"
    /\ pc'    = [pc EXCEPT ![r] = "resolved"]
    /\ found' = [found EXCEPT ![r] = Invitee(r) \in registered]
    /\ role'  = [role EXCEPT ![r] = member[Invitee(r)]]
    /\ UNCHANGED <<tables, kind, signed, copy, view, target, history>>

\* The unique indexes on users.email and on the membership: what this request
\* is to insert has been inserted in the meantime.
Conflicts(r) ==
    \/ ~found[r] /\ Invitee(r) \in registered
    \/ role[r] = "none" /\ member[Invitee(r)] # "none"

\* Mutant of Granted: a new membership is not added to the session.
GrantedToMembers(r) ==
    IF role[r] = "none" THEN member
    ELSE [member EXCEPT ![Invitee(r)] = invitation[target[r]].role]

\* The role is written when it differs from the loaded one.
Granted(r) ==
    LET x == invitation[target[r]].role IN
    IF role[r] # x THEN [member EXCEPT ![Invitee(r)] = x] ELSE member

Used(r) == [invitation EXCEPT ![target[r]].state = "used"]

\* User, membership and accepted_at are one transaction, written by id; one
\* that conflicts is rolled back.
CommitAcceptance(r) ==
    /\ pc[r] = "resolved"
    /\ IF Conflicts(r)
       THEN UNCHANGED <<registered, member, invitation, grants>>
       ELSE /\ registered' = registered \cup {Invitee(r)}
            /\ member'     = Granted(r)
            /\ invitation' = Used(r)
            /\ grants'     = [grants EXCEPT ![target[r]] = @ + 1]
    /\ Answer(r)
    /\ UNCHANGED <<tenant, trail, lock, session, issued, ended, contested, blind>>

-----------------------------------------------------------------------------
Next ==
    \/ \E u \in User, s \in Session : Login(u, s)
    \/ \E s \in Session : SessionExpires(s)
    \/ \E i \in Invitation : InvitationExpires(i)
    \/ \E r \in Request, s \in Session : LoadSession(r, s)
    \/ \E r \in Request, i \in Invitation : ReadInvitation(r, i)
    \/ \E r \in Request :
          \/ LoadContext(r) \/ RotateCsrf(r) \/ Logout(r)
          \/ CreateTenant(r) \/ LockTenant(r) \/ CommitStatus(r)
          \/ CreateInvitation(r) \/ ResolveUser(r) \/ CommitAcceptance(r)

Spec == Init /\ [][Next]_vars
-----------------------------------------------------------------------------
(* What the code promises *)

\* Accepting is all or nothing: a guest is registered, and a member, exactly
\* when one of the invitations sent to it has been used, whichever of two
\* requests for one guest wins.  And an invitation is used once
\* ("invitation_used"), unless two requests had it open at the same time.
AcceptanceIsWhole ==
    /\ \A g \in Guest :
          /\ g \in registered <=> member[g] # "none"
          /\ g \in registered <=> \E i \in Invitation :
                                      invitation[i].state = "used" /\ invitation[i].email = g
    /\ \A i \in Invitation : grants[i] <= 1 \/ i \in contested

\* A session keeps what was last written to it: a sign-out is not undone, and
\* the CSRF token that was answered last is the one that counts, although the
\* requests that rotate, touch and sign out hold copies of the row.
SessionKeepsItsWrites ==
    \A s \in Session : /\ session[s].csrf = issued[s]
                       /\ s \in ended => session[s].state = "revoked"

\* The audit trail of the tenant's status is a chain that ends in the present
\* status, however many admins change it at once; unless one of them had the
\* tenant selected, and decided on the object its context had loaded.
After(n) == IF n = 0 THEN "active" ELSE trail[n].after

TrailIsTrue ==
    ~blind => /\ \A n \in DOMAIN trail : trail[n].before = After(n - 1)
              /\ tenant # "absent" => tenant = After(Len(trail))

\* A suspension holds: whoever joins a tenant or is invited to it does so by a
\* request that met the tenant active.
SuspensionHolds ==
    [][(member' # member \/ \E i \in Invitation : invitation[i].state = "absent"
                                                  /\ invitation'[i].state = "open")
       => \E r \in Request : pc'[r] # pc[r] /\ metActive[r]]_vars
=============================================================================
