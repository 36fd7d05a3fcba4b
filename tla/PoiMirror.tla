------------------------------ MODULE PoiMirror ------------------------------
(***************************************************************************)
(* The mirror of a merchant's service POIs (stores/service.py,             *)
(* stores/operations.py, connections/service_poi_live.py) and the platform *)
(* it mirrors.                                                             *)
(*                                                                         *)
(* A new POI is an application: the platform answers with a number, and    *)
(* the mirror keeps a row under "audit:<number>" until a synchronization   *)
(* finds a store of the same name and address in the platform's list and   *)
(* gives the row that store's id.  Operators map stores to rows, so the    *)
(* row must be the one that is carried over.                               *)
(*                                                                         *)
(* A slot executes one command; every call to the platform and every       *)
(* commit is a step.  The queue is abstracted as in InventorySync.  A row  *)
(* is its id, its place (name and address) and its status.  Left out: the  *)
(* rows of map points ("map:<id>"), which no synchronization touches.      *)
(*                                                                         *)
(* Assumed of the platform: a store may enter its list at any time after   *)
(* the application, and it refuses a call about a store it does not list.  *)
(***************************************************************************)
EXTENDS Naturals, FiniteSets

CONSTANTS
    Place,          \* names and addresses
    Slot,           \* worker slots
    TicketBound,    \* bound: applications the platform receives
    CommandBudget,  \* bound: commands
    LossBudget,     \* bound: lost answers, and crashes before a commit
    RerunBudget     \* bound: crashes between the commit and the mark

ASSUME PoiMirrorAssumption ==
    /\ Place # {}
    /\ TicketBound \in Nat \ {0}
    /\ {CommandBudget, LossBudget, RerunBudget} \subseteq Nat

Ticket == 1..TicketBound
RowId  == 1..(2 * TicketBound)

VARIABLES
    remote,           \* the platform: what became of each application
    rows,             \* the table service_pois
    slot,             \* the slots
    commands, losses, reruns,   \* spent budgets
    applied,          \* the places applied for
    fresh             \* the platform has not changed since the last listing

poiVars == <<remote, rows, slot, commands, losses, reruns, applied, fresh>>

Review    == {"under_review", "approved"}
RowStatus == Review \cup {"pending", "deleted"}
OnRow     == {"update", "delete", "refresh"}

\* external_poi_id: "audit:<ticket>", or once linked the id of the store that
\* came of the ticket.
RowRecord == [id : RowId, ticket : Ticket, linked : BOOLEAN, place : Place,
              status : RowStatus]

\* A row as create makes it.
Application(id, ticket, place) ==
    [id |-> id, ticket |-> ticket, linked |-> FALSE, place |-> place,
     status |-> "under_review"]

\* A slot: the row it loaded or will insert, the status the platform answered
\* with, and of a synchronization the list and the rows it has read.
SlotState == [pc : {"idle", "call", "read", "commit", "mark"},
              command : OnRow \cup {"none", "create", "sync"},
              row : RowRecord, answer : RowStatus,
              listing : SUBSET [ticket : Ticket, status : Review],
              seen : SUBSET RowRecord]

Idle == [pc |-> "idle", command |-> "none",
         row |-> Application(1, 1, CHOOSE p \in Place : TRUE), answer |-> "pending",
         listing |-> {}, seen |-> {}]

PoiTypeOK ==
    /\ remote \in [Ticket -> [state : {"unused", "waiting", "listed", "gone"},
                              place : Place, status : Review]]
    /\ rows \subseteq RowRecord
    /\ \A r, q \in rows : (r.id = q.id \/ (r.linked = q.linked /\ r.ticket = q.ticket))
                            => r = q
    /\ slot \in [Slot -> SlotState]
    /\ commands \in 0..CommandBudget
    /\ losses \in 0..LossBudget
    /\ reruns \in 0..RerunBudget
    /\ applied \subseteq Place
    /\ fresh \in BOOLEAN

PoiInit ==
    /\ remote = [t \in Ticket |-> [state |-> "unused", place |-> Idle.row.place,
                                   status |-> "under_review"]]
    /\ rows = {}
    /\ slot = [w \in Slot |-> Idle]
    /\ commands = 0 /\ losses = 0 /\ reruns = 0
    /\ applied = {}
    /\ fresh = FALSE

-----------------------------------------------------------------------------
Listed == {t \in Ticket : remote[t].state = "listed"}

\* Mutant of RowsOf: only the rows of approved stores are looked up.
ApprovedRowsOf(t) == {r \in rows : r.linked /\ r.ticket = t /\ r.status = "approved"}

\* The row with a store's id.
RowsOf(t) == {r \in rows : r.linked /\ r.ticket = t}

At(w, command, pc) == slot[w].command = command /\ slot[w].pc = pc

Goto(w, pc) == slot' = [slot EXCEPT ![w].pc = pc]

Finish(w) == slot' = [slot EXCEPT ![w] = Idle]

\* A flush writes a column when it differs from what the session loaded.
Flushed(row, loaded, status) ==
    [row EXCEPT !.status = IF loaded = status THEN @ ELSE status]

-----------------------------------------------------------------------------
\* The platform reviews applications and changes its list on its own.
Platform(t, change) ==
    /\ remote' = [remote EXCEPT ![t] = change]
    /\ fresh' = FALSE
    /\ UNCHANGED <<rows, slot, commands, losses, reruns, applied>>

Publish(t, status) ==
    /\ remote[t].state = "waiting"
    /\ Platform(t, [remote[t] EXCEPT !.state = "listed", !.status = status])

Approve(t) ==
    /\ t \in Listed /\ remote[t].status = "under_review"
    /\ Platform(t, [remote[t] EXCEPT !.status = "approved"])

Withdraw(t) ==
    /\ remote[t].state \in {"waiting", "listed"}
    /\ Platform(t, [remote[t] EXCEPT !.state = "gone"])

-----------------------------------------------------------------------------
\* A command at its start, with the row it is about.
Begun(command, row) == [Idle EXCEPT !.pc = "call", !.command = command, !.row = row]

\* A slot starts a command that a user has queued.
StartCommand(w, command, row) ==
    /\ slot[w] = Idle
    /\ commands < CommandBudget
    /\ commands' = commands + 1
    /\ slot' = [slot EXCEPT ![w] = Begun(command, row)]
    /\ UNCHANGED <<remote, rows, losses, reruns, fresh>>

StartCreate(w, place) ==
    /\ place \notin applied
    /\ applied' = applied \cup {place}
    /\ StartCommand(w, "create", Application(1, 1, place))

StartSync(w) == StartCommand(w, "sync", Idle.row) /\ UNCHANGED applied

\* The handler loads the row and keeps it while it calls the platform.
StartOnRow(w, command, row) == StartCommand(w, command, row) /\ UNCHANGED applied

\* An answer is lost, or the slot dies with nothing committed: the command is
\* executed again from its start, on the row as it is by then.
Restart(w) ==
    /\ losses < LossBudget
    /\ losses' = losses + 1
    /\ \E row \in IF slot[w].command \in OnRow
                  THEN {r \in rows : r.id = slot[w].row.id} ELSE {slot[w].row} :
         slot' = [slot EXCEPT ![w] = Begun(slot[w].command, row)]

SlotDies(w) ==
    /\ slot[w].pc \in {"read", "commit"}
    /\ Restart(w)
    /\ fresh' = (fresh /\ slot[w].command # "sync")
    /\ UNCHANGED <<remote, rows, commands, reruns, applied>>

-----------------------------------------------------------------------------
\* create: add_store takes an application, whatever came before it.
CreateCall(w) ==
    /\ At(w, "create", "call")
    /\ \E t \in Ticket :
         /\ remote[t].state = "unused"
         /\ \A u \in Ticket : remote[u].state = "unused" => t <= u
         /\ remote' = [remote EXCEPT ![t].state = "waiting",
                                     ![t].place = slot[w].row.place]
         /\ \/ /\ slot' = [slot EXCEPT ![w].pc = "commit", ![w].row.ticket = t]
               /\ UNCHANGED losses
            \/ Restart(w)
    /\ fresh' = FALSE
    /\ UNCHANGED <<rows, commands, reruns, applied>>

\* save_poi_result: the row of the application.
CreateCommit(w) ==
    /\ At(w, "create", "commit")
    /\ rows' = rows \cup {[slot[w].row EXCEPT !.id = Cardinality(rows) + 1]}
    /\ Goto(w, "mark")
    /\ UNCHANGED <<remote, commands, losses, reruns, applied, fresh>>

\* The operation is marked, or the slot dies first and it is executed again.
CreateMark(w) ==
    /\ At(w, "create", "mark")
    /\ \/ Finish(w) /\ UNCHANGED reruns
       \/ reruns < RerunBudget /\ reruns' = reruns + 1 /\ Goto(w, "call")
    /\ UNCHANGED <<remote, rows, commands, losses, applied, fresh>>

-----------------------------------------------------------------------------
\* sync: every page of the platform's list.
SyncList(w) ==
    /\ At(w, "sync", "call")
    /\ slot' = [slot EXCEPT ![w].pc = "read", ![w].listing =
                  {[ticket |-> t, status |-> remote[t].status] : t \in Listed}]
    /\ fresh' = TRUE
    /\ UNCHANGED <<remote, rows, commands, losses, reruns, applied>>

SyncRead(w) ==
    /\ At(w, "sync", "read")
    /\ slot' = [slot EXCEPT ![w].pc = "commit", ![w].seen = rows]
    /\ UNCHANGED <<remote, rows, commands, losses, reruns, applied, fresh>>

\* Mutant of Pending: the application's name and address are not compared.
AnyPending(seen, place) == {r \in seen : ~r.linked}

\* The rows of applications at a place.
Pending(seen, place) == {r \in seen : ~r.linked /\ r.place = place}

\* Where one application waits at a place, the first new store there takes
\* over its row.
Links(seen, new) ==
    LET places == {p \in Place : /\ Cardinality(Pending(seen, p)) = 1
                                 /\ \E t \in new : remote[t].place = p}
    IN {f \in [places -> new] : \A p \in places : remote[f[p]].place = p}

\* Mutant of Missing: the rows of applications are not spared.
MissingAtAll(row, tickets) == row.ticket \notin tickets

\* The list has lost the store of a row; applications are not in it yet.
Missing(row, tickets) == row.linked /\ row.ticket \notin tickets

\* What the commit writes to a row: the store that takes it over, the answer
\* about its store, or that the store is gone.
Synced(row, seen, listing, takers) ==
    LET tickets == {e.ticket : e \in listing}
        loaded  == {q \in seen : q.id = row.id}
        before  == IF loaded = {} THEN row.status ELSE (CHOOSE q \in loaded : TRUE).status
        now     == IF takers = {} THEN row
                   ELSE [row EXCEPT !.linked = TRUE, !.ticket = CHOOSE t \in takers : TRUE]
    IN IF now.linked /\ now.ticket \in tickets
       THEN Flushed(now, before, (CHOOSE e \in listing : e.ticket = now.ticket).status)
       ELSE IF \E q \in loaded : Missing(q, tickets)
       THEN Flushed(now, before, "deleted")
       ELSE now

SyncCommit(w) ==
    /\ At(w, "sync", "commit")
    /\ LET listing == slot[w].listing
           seen    == slot[w].seen
           new     == {t \in {e.ticket : e \in listing} : RowsOf(t) = {}}
       IN \E link \in Links(seen, new) :
            LET added     == new \ {link[p] : p \in DOMAIN link}
                id(t)     == Cardinality(rows) + Cardinality({u \in added : u <= t})
                takers(r) == {link[p] : p \in {p \in DOMAIN link :
                                \E q \in Pending(seen, p) : q.id = r.id}}
            IN rows' = {Synced(r, seen, listing, takers(r)) : r \in rows} \cup
                       {[id |-> id(e.ticket), ticket |-> e.ticket, linked |-> TRUE,
                         place |-> remote[e.ticket].place, status |-> e.status] :
                           e \in {e \in listing : e.ticket \in added}}
    /\ Finish(w)
    /\ UNCHANGED <<remote, commands, losses, reruns, applied, fresh>>

-----------------------------------------------------------------------------
\* update, delete and refresh call the platform about the store of one row.
OnStore(w) == slot[w].row.linked /\ slot[w].row.ticket \in Listed

\* The platform refuses: the operation fails and the row stays.
Refused(w) ==
    /\ slot[w].pc = "call" /\ slot[w].command \in OnRow
    /\ ~OnStore(w)
    /\ Finish(w)
    /\ UNCHANGED <<remote, rows, commands, losses, reruns, applied, fresh>>

Answered(w, command, answer) ==
    /\ At(w, command, "call") /\ OnStore(w)
    /\ \/ /\ slot' = [slot EXCEPT ![w].pc = "commit", ![w].answer = answer]
          /\ UNCHANGED losses
       \/ Restart(w)
    /\ UNCHANGED <<rows, commands, reruns, applied>>

UpdateCall(w) ==
    /\ Answered(w, "update", "pending")
    /\ fresh' = FALSE
    /\ UNCHANGED remote

DeleteCall(w) ==
    /\ Answered(w, "delete", "deleted")
    /\ remote' = [remote EXCEPT ![slot[w].row.ticket].state = "gone"]
    /\ fresh' = FALSE

RefreshCall(w) ==
    /\ Answered(w, "refresh", remote[slot[w].row.ticket].status)
    /\ UNCHANGED <<remote, fresh>>

\* The answer is written over the row.
RowCommit(w) ==
    /\ slot[w].pc = "commit" /\ slot[w].command \in OnRow
    /\ rows' = {IF r.id = slot[w].row.id
                THEN Flushed(r, slot[w].row.status, slot[w].answer) ELSE r : r \in rows}
    /\ Finish(w)
    /\ UNCHANGED <<remote, commands, losses, reruns, applied, fresh>>

-----------------------------------------------------------------------------
PoiNext ==
    \/ \E t \in Ticket : \/ \E status \in Review : Publish(t, status)
                         \/ Approve(t)
                         \/ Withdraw(t)
    \/ \E w \in Slot :
         \/ \E place \in Place : StartCreate(w, place)
         \/ StartSync(w)
         \/ \E command \in OnRow, row \in rows : StartOnRow(w, command, row)
         \/ SlotDies(w)
         \/ CreateCall(w) \/ CreateCommit(w) \/ CreateMark(w)
         \/ SyncList(w) \/ SyncRead(w) \/ SyncCommit(w)
         \/ Refused(w) \/ UpdateCall(w) \/ DeleteCall(w) \/ RefreshCall(w)
         \/ RowCommit(w)

PoiSpec == PoiInit /\ [][PoiNext]_poiVars

-----------------------------------------------------------------------------
\* No command is at work and the platform is still as it was last listed.
Synchronized == fresh /\ \A w \in Slot : slot[w] = Idle

\* After a synchronization the mirror is the platform's list: every listed
\* store has its row with its status, every other store's row is deleted, and
\* the row of an application is not (stores/service.py, sync_pois).
MirrorsTheList ==
    Synchronized =>
      /\ \A t \in Listed : \E r \in RowsOf(t) : r.status = remote[t].status
      /\ \A r \in rows : IF r.linked THEN r.ticket \notin Listed => r.status = "deleted"
                         ELSE r.status # "deleted"

\* After a synchronization no application still waits for a store that the
\* platform lists: the row that operators mapped is the one that is kept
\* current (stores/service.py, the pending matches of sync_pois).  It needs
\* that no creation was executed again after its commit: two rows that wait
\* for one place are both left behind.
ApplicationsAreCarriedOver ==
    Synchronized /\ reruns = 0 => \A r \in rows : r.linked \/ r.ticket \notin Listed
==============================================================================
