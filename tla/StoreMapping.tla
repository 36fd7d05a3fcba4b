---------------------------- MODULE StoreMapping -----------------------------
(***************************************************************************)
(* A tenant's stores, the suggested matches between stores and service     *)
(* POIs, and the mappings that people confirm (stores/service.py, and      *)
(* create_store of stores/router.py with the licence's store limit).       *)
(*                                                                         *)
(* A user has one API request at a time; it runs in a session of its own   *)
(* and reads before it commits.  Worker slots generate candidates after a  *)
(* synchronization.                                                        *)
(* The tenant has one connection, whose POI rows are all present; scores,  *)
(* names and addresses are left out.                                       *)
(***************************************************************************)
EXTENDS Naturals, FiniteSets

CONSTANTS
    Store,          \* store codes
    Poi,            \* rows of service_pois
    User,           \* whose API requests are concurrent
    Generator,      \* worker slots that generate candidates
    MaxStores,      \* the licence's limit
    RequestBudget,  \* bound: requests
    RunBudget       \* bound: generations of candidates

ASSUME StoreMappingAssumption ==
    /\ Store # {} /\ Poi # {}
    /\ "nobody" \notin User
    /\ MaxStores \in Nat \ {0}
    /\ {RequestBudget, RunBudget} \subseteq Nat

VARIABLES
    store,          \* the table stores
    mapping,        \* the table store_poi_mappings
    candidate,      \* the table match_candidates
    request,        \* what each user's request is doing
    run,            \* what each slot has read
    edits,          \* per store, the edits that were answered with success
    requests, runs  \* spent budgets

storeVars == <<store, mapping, candidate, request, run, edits, requests, runs>>

Pair == Store \X Poi

\* A request at rest has the answer of the last one.
Request == [pc : {"idle", "insert store", "write store", "insert mapping", "unbind"},
            answer : {"none", "ok", "conflict", "limit"},
            store : Store, poi : Poi, version : Nat, status : {"active", "inactive"},
            mapping : Nat]

NoRequest == [pc |-> "idle", answer |-> "none", store |-> CHOOSE s \in Store : TRUE,
              poi |-> CHOOSE p \in Poi : TRUE, version |-> 1, status |-> "active",
              mapping |-> 0]

\* A row of store_poi_mappings; by is the user who has unbound it.
Mapping == [id : Nat, store : Store, poi : Poi, by : User \cup {"nobody"}]

\* What a slot holds: the pairs it is going to score, and those that had a row.
Run == [busy : BOOLEAN, pairs : SUBSET Pair, seen : SUBSET Pair]

StoreRow == [status : {"absent", "active", "inactive"}, version : Nat]

StoreTypeOK ==
    /\ store \in [Store -> [status : {"absent", "active", "inactive"},
                            version : 1..(RequestBudget + 1)]]
    /\ mapping \subseteq Mapping
    /\ \A m, n \in mapping : m.id = n.id => m = n
    /\ candidate \in [Pair -> {"none", "open", "dismissed"}]
    /\ request \in [User -> Request]
    /\ run \in [Generator -> Run]
    /\ edits \in [Store -> 0..RequestBudget]
    /\ requests \in 0..RequestBudget
    /\ runs \in 0..RunBudget

NoRun == [busy |-> FALSE, pairs |-> {}, seen |-> {}]

StoreInit ==
    /\ store = [s \in Store |-> [status |-> "absent", version |-> 1]]
    /\ mapping = {}
    /\ candidate = [c \in Pair |-> "none"]
    /\ request = [c \in User |-> NoRequest]
    /\ run = [w \in Generator |-> NoRun]
    /\ edits = [s \in Store |-> 0]
    /\ requests = 0 /\ runs = 0

-----------------------------------------------------------------------------
Present == {s \in Store : store[s].status # "absent"}

\* A mapping has ended once somebody has unbound it.
IsActive(m) == m.by = "nobody"

ActiveFor(s, p) == {m \in mapping : IsActive(m) /\ (m.store = s \/ m.poi = p)}

Begin(c) ==
    /\ request[c].pc = "idle"
    /\ requests < RequestBudget
    /\ requests' = requests + 1

Answer(c, answer) == request' = [request EXCEPT ![c] = [NoRequest EXCEPT !.answer = answer]]

Continue(c, pc, r) == request' = [request EXCEPT ![c] = [r EXCEPT !.pc = pc]]

-----------------------------------------------------------------------------
\* The limit counts the stores that are not "archived".
Counted == {s \in Present : store[s].status # "archived"}

\* create_store of the router: the limit, then the insert.
CreateCheck(c, s) ==
    /\ Begin(c)
    /\ IF Cardinality(Counted) >= MaxStores
       THEN Answer(c, "limit")
       ELSE Continue(c, "insert store", [NoRequest EXCEPT !.store = s])
    /\ UNCHANGED <<store, mapping, candidate, run, edits, runs>>

CreateInsert(c) ==
    /\ request[c].pc = "insert store"
    /\ LET s == request[c].store
       IN IF s \in Present
          THEN Answer(c, "conflict") /\ UNCHANGED store
          ELSE /\ store' = [store EXCEPT ![s].status = "active"]
               /\ Answer(c, "ok")
    /\ UNCHANGED <<mapping, candidate, run, edits, requests, runs>>

\* update_store: the version that the client saw is compared, and compared
\* again by the UPDATE.
UpdateRead(c, s, version, status) ==
    /\ Begin(c)
    /\ s \in Present /\ version \in 1..store[s].version
    /\ IF store[s].version # version
       THEN Answer(c, "conflict")
       ELSE Continue(c, "write store",
                     [NoRequest EXCEPT !.store = s, !.version = version, !.status = status])
    /\ UNCHANGED <<store, mapping, candidate, run, edits, runs>>

\* Mutant of Matches: the UPDATE has no version in its WHERE.
AnyVersion(s, version) == s \in Present

Matches(s, version) == s \in Present /\ store[s].version = version

\* Mutant of Edit: the version is counted twice.
EditTwice(s, status, version) ==
    /\ store' = [store EXCEPT ![s] = [status |-> status, version |-> version + 2]]
    /\ edits' = [edits EXCEPT ![s] = @ + 1]

\* What an UPDATE of a store does, with the version it is to have.
Edit(s, status, version) ==
    /\ store' = [store EXCEPT ![s] = [status |-> status, version |-> version + 1]]
    /\ edits' = [edits EXCEPT ![s] = @ + 1]

UpdateWrite(c) ==
    /\ request[c].pc = "write store"
    /\ LET r == request[c]
       IN IF Matches(r.store, r.version)
          THEN Edit(r.store, r.status, r.version) /\ Answer(c, "ok")
          ELSE Answer(c, "conflict") /\ UNCHANGED <<store, edits>>
    /\ UNCHANGED <<mapping, candidate, run, requests, runs>>

Unbound(m, c) == [m EXCEPT !.by = c]

\* archive_store: one transaction for the store and its mappings.
Archive(c, s, version) ==
    /\ Begin(c)
    /\ s \in Present /\ version \in 1..store[s].version
    /\ IF Matches(s, version)
       THEN /\ Edit(s, "inactive", version)
            /\ mapping' = {IF m.store = s /\ IsActive(m) THEN Unbound(m, c) ELSE m : m \in mapping}
            /\ Answer(c, "ok")
       ELSE Answer(c, "conflict") /\ UNCHANGED <<store, edits, mapping>>
    /\ UNCHANGED <<candidate, run, runs>>

-----------------------------------------------------------------------------
\* generate_candidates: everything is read, then committed at once.
GenerateRead(w) ==
    /\ ~run[w].busy
    /\ runs < RunBudget
    /\ runs' = runs + 1
    /\ LET free(c) == /\ \A m \in mapping : IsActive(m) => m.store # c[1] /\ m.poi # c[2]
                      /\ store[c[1]].status = "active"
       IN run' = [run EXCEPT ![w] =
                    [busy |-> TRUE, seen |-> {c \in Pair : candidate[c] # "none"},
                     pairs |-> {c \in Pair : free(c) /\ candidate[c] # "dismissed"}]]
    /\ UNCHANGED <<store, mapping, candidate, request, edits, requests>>

\* Mutant of Scored: the whole row is written, as it was read.
Replaced(c) == "open"

\* A new score leaves the dismissal of a row alone.
Scored(c) == IF candidate[c] = "none" THEN "open" ELSE candidate[c]

\* A row that another slot has inserted since makes the commit fail.
GenerateCommit(w) ==
    /\ run[w].busy
    /\ candidate' = IF \E c \in run[w].pairs \ run[w].seen : candidate[c] # "none"
                    THEN candidate
                    ELSE [c \in Pair |-> IF c \in run[w].pairs THEN Scored(c) ELSE candidate[c]]
    /\ run' = [run EXCEPT ![w] = NoRun]
    /\ UNCHANGED <<store, mapping, request, edits, requests, runs>>

Dismiss(c, pair) ==
    /\ Begin(c)
    /\ candidate[pair] # "none"
    /\ candidate' = [candidate EXCEPT ![pair] = "dismissed"]
    /\ Answer(c, "ok")
    /\ UNCHANGED <<store, mapping, run, edits, runs>>

-----------------------------------------------------------------------------
\* manual_map, and confirm_candidate of one that is not dismissed.
MapRead(c, pair) ==
    /\ Begin(c)
    /\ pair[1] \in Present
    /\ LET conflict == ActiveFor(pair[1], pair[2])
       IN IF conflict = {}
          THEN Continue(c, "insert mapping",
                        [NoRequest EXCEPT !.store = pair[1], !.poi = pair[2]])
          ELSE \E m \in conflict :
                 Answer(c, IF <<m.store, m.poi>> = pair THEN "ok" ELSE "conflict")
    /\ UNCHANGED <<store, mapping, candidate, run, edits, runs>>

\* Mutant of Free: no unique index.
NoIndex(s, p) == TRUE

\* The unique indexes on active mappings.
Free(s, p) == ActiveFor(s, p) = {}

MapInsert(c) ==
    /\ request[c].pc = "insert mapping"
    /\ LET s == request[c].store
           p == request[c].poi
       IN IF Free(s, p)
          THEN /\ mapping' = mapping \cup
                    {[id |-> Cardinality(mapping) + 1, store |-> s, poi |-> p, by |-> "nobody"]}
               /\ Answer(c, "ok")
          ELSE Answer(c, "conflict") /\ UNCHANGED mapping
    /\ UNCHANGED <<store, candidate, run, edits, requests, runs>>

UnbindRead(c, m) ==
    /\ Begin(c)
    /\ IsActive(m)
    /\ Continue(c, "unbind", [NoRequest EXCEPT !.mapping = m.id])
    /\ UNCHANGED <<store, mapping, candidate, run, edits, runs>>

\* The row is written by its id, whatever has become of it.
UnbindWrite(c) ==
    /\ request[c].pc = "unbind"
    /\ mapping' = {IF m.id = request[c].mapping THEN Unbound(m, c) ELSE m : m \in mapping}
    /\ Answer(c, "ok")
    /\ UNCHANGED <<store, candidate, run, edits, requests, runs>>

-----------------------------------------------------------------------------
StoreNext ==
    \/ \E c \in User :
         \/ \E s \in Store : CreateCheck(c, s)
         \/ CreateInsert(c)
         \/ \E s \in Store, v \in 1..RequestBudget, st \in {"active", "inactive"} :
              UpdateRead(c, s, v, st)
         \/ UpdateWrite(c)
         \/ \E s \in Store, v \in 1..RequestBudget : Archive(c, s, v)
         \/ \E pair \in Pair : Dismiss(c, pair) \/ MapRead(c, pair)
         \/ MapInsert(c)
         \/ \E m \in mapping : UnbindRead(c, m)
         \/ UnbindWrite(c)
    \/ \E w \in Generator : GenerateRead(w) \/ GenerateCommit(w)

StoreSpec == StoreInit /\ [][StoreNext]_storeVars

-----------------------------------------------------------------------------
\* A store has at most one active mapping, and so has a POI, however requests
\* interleave (stores/models.py, the unique indexes of StorePoiMapping).
OneActiveMapping ==
    \A m, n \in mapping :
        IsActive(m) /\ IsActive(n) /\ (m.store = n.store \/ m.poi = n.poi) => m = n

\* The version counts the edits that were answered with success: none of them
\* was made over a version its client had not seen (stores/service.py,
\* update_store and archive_store).
EveryEditCounts == \A s \in Store : store[s].version = edits[s] + 1

\* A dismissed suggestion stays dismissed, even when a generation has read it
\* before it was dismissed (stores/service.py, generate_candidates).
DismissalIsKept ==
    [][\A c \in Pair : candidate[c] = "dismissed" => candidate'[c] = "dismissed"]_storeVars
==============================================================================
