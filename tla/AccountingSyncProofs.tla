------------------------ MODULE AccountingSyncProofs ------------------------
(***************************************************************************)
(* What AccountingSync promises, for any requests, keys, dates, slots,     *)
(* feeds, ids, amounts and limits.                                         *)
(*                                                                         *)
(* KeyDecides rests on rows that are made once: whatever a slot does to an *)
(* operation, its date stays.  ImportIsComplete is an argument about pages *)
(* that are read while entries are added behind them: HasRead and          *)
(* ReadSoFar say that what a slot has read is of its feeds and that the    *)
(* pages behind the cursor hold everything there that was listed when the  *)
(* import began, LoadedRows what the session knows of the mirror when it   *)
(* commits.                                                                *)
(*                                                                         *)
(* SummaryIsHonest is about sums over the rows of two queries, of which    *)
(* there are finitely many; ReadTwice says what the first knows when the   *)
(* second returns.  SumFunctionOnSet is a recursion over subsets;          *)
(* SubsetInduction, the form that well-founded induction takes for a set   *)
(* of subsets instead of a predicate, is what its laws follow from: a sum  *)
(* may begin with any element, and splits over disjoint sets.              *)
(***************************************************************************)
EXTENDS AccountingSync, FiniteSetTheorems, WellFoundedInduction, TLAPS

Reading == {"funds", "bills"}

\* The entry of a page of a feed, and its place.
LEMMA EntryShape ==
  /\ \A e \in Entry : e[1] \in Feed /\ e[2] \in 1..Length[e[1]] /\ e = <<e[1], e[2]>>
  /\ \A f \in Feed : \A n \in 1..Length[f] : <<f, n>> \in Entry
<1>1. ASSUME NEW e \in Entry
      PROVE  e[1] \in Feed /\ e[2] \in 1..Length[e[1]] /\ e = <<e[1], e[2]>>
  <2>1. PICK f \in Feed : e \in {<<f, n>> : n \in 1..Length[f]}
    BY DEF Entry
  <2>2. PICK n \in 1..Length[f] : e = <<f, n>>
    BY <2>1
  <2>3. QED
    BY <2>1, <2>2
<1>2. ASSUME NEW f \in Feed, NEW n \in 1..Length[f]
      PROVE  <<f, n>> \in Entry
  BY DEF Entry
<1>3. QED
  BY <1>1, <1>2

\* A set of subsets of S that holds every one whose proper subsets it holds.
LEMMA SubsetInduction ==
  ASSUME NEW S, IsFiniteSet(S), NEW T,
         \A s \in SUBSET S : (\A r \in SUBSET s : r # s => r \in T) => s \in T
  PROVE  \A s \in SUBSET S : s \in T
<1> SUFFICES ASSUME NEW s0 \in SUBSET S, s0 \notin T PROVE FALSE
  OBVIOUS
<1> DEFINE Out == {s \in SUBSET S : s \notin T}
<1>1. IsWellFoundedOn(StrictSubsetOrdering(S), SUBSET S)
  <2>1. FiniteSubsetsOf(S) = SUBSET S
    BY FS_FiniteSubsetsOfFinite
  <2>2. IsWellFoundedOn(StrictSubsetOrdering(S), FiniteSubsetsOf(S))
    BY FS_StrictSubsetOrderingWellFounded
  <2>3. QED
    BY <2>1, <2>2
<1>2. Out \subseteq SUBSET S /\ Out # {}
  OBVIOUS
<1> HIDE DEF Out
<1>3. PICK s \in Out : \A r \in Out : ~ (<<r, s>> \in StrictSubsetOrdering(S))
  BY <1>1, <1>2, WFMin
<1>4. s \in SUBSET S /\ s \notin T
  BY <1>3 DEF Out
<1>5. ASSUME NEW r \in SUBSET s, r # s PROVE r \in T
  <2> SUFFICES ASSUME r \notin T PROVE FALSE
    OBVIOUS
  <2>1. r \in Out
    BY <1>4 DEF Out
  <2>2. <<r, s>> \in StrictSubsetOrdering(S)
    BY <1>4, <1>5 DEF StrictSubsetOrdering
  <2>3. QED
    BY <1>3, <2>1, <2>2
<1>6. QED
  BY <1>4, <1>5

-----------------------------------------------------------------------------
(* Types *)

\* A slot that is not idle has an operation, an operation that exists has a
\* date, a request that was made has its key and date, and a slot at rest
\* begins with the first page.
AtWork ==
    /\ \A w \in Worker : phase[w] # "idle" =>
          job[w] \in Key /\ operation[job[w]].status # "absent"
    /\ \A k \in Key : operation[k].status # "absent" => operation[k].date \in Date
    /\ \A q \in Request : reply[q] # "none" => want[q].key \in Key /\ want[q].date \in Date
    /\ \A w \in Worker : phase[w] = "idle" => page[w] = 0

\* A slot keeps what it has read while it works, of the feeds of its operation,
\* in versions there have been, and it has read finitely many entries.
ReadIn(w) == {e \in Entry : got[w][e] > 0}

HasReadBy(w) ==
    /\ IsFiniteSet(ReadIn(w))
    /\ \A e \in Entry : got[w][e] > 0 =>
          /\ phase[w] # "idle"
          /\ e[1] \in {"funds", operation[job[w]].date}
          /\ got[w][e] <= version[e]

HasRead == \A w \in Worker : HasReadBy(w)

LEMMA NothingTyped == Nothing \in [Entry -> Nat] /\ NoRows \in [Id -> Int \cup {NoRow}]
  BY DEF Nothing, NoRows

LEMMA FreeTyped ==
  ASSUME TypeOK, NEW w \in Worker, Free(w)
  PROVE  /\ phase' \in [Worker -> {"idle", "funds", "bills", "fetched", "loaded", "committed"}]
         /\ job' \in [Worker -> Key \cup {NoKey}]
         /\ page' \in [Worker -> 0..(PageLimit - 1)]
         /\ got' \in [Worker -> [Entry -> Nat]]
         /\ base' \in [Worker -> [Id -> Int \cup {NoRow}]]
         /\ asOf' \in [Worker -> [Entry -> Nat]]
         /\ alone' \in [Worker -> BOOLEAN]
  BY AccountingAssumption, NothingTyped DEF TypeOK, Free

\* A row that is there stays, with its date.
RowsStay ==
    \A k \in Key : operation[k].status # "absent" =>
        operation'[k].status # "absent" /\ operation'[k].date = operation[k].date

\* What a slot writes to the row of its operation keeps the types and the rows.
LEMMA StatusStays ==
  ASSUME TypeOK, AtWork, NEW k \in Key, NEW s \in Status \ {"absent"},
         operation[k].status # "absent",
         operation' = [operation EXCEPT ![k].status = s]
  PROVE  /\ operation' \in [Key -> [status : Status, date : Date \cup {NoDate}]]
         /\ RowsStay
         /\ \A j \in Key : operation'[j].status # "absent" => operation'[j].date \in Date
<1>1. operation' \in [Key -> [status : Status, date : Date \cup {NoDate}]]
  BY DEF TypeOK
<1>2. \A j \in Key : /\ operation'[j].date = operation[j].date
                     /\ operation'[j].status = IF j = k THEN s ELSE operation[j].status
  BY DEF TypeOK
<1>3. QED
  BY <1>1, <1>2 DEF RowsStay, AtWork

\* A slot that goes back to rest leaves the rest as it should be.
LEMMA FreeStays ==
  ASSUME TypeOK, AtWork, NEW w \in Worker, Free(w), UNCHANGED requests,
         operation' \in [Key -> [status : Status, date : Date \cup {NoDate}]],
         RowsStay,
         \A j \in Key : operation'[j].status # "absent" => operation'[j].date \in Date
  PROVE  AtWork'
<1>1. \A v \in Worker : phase'[v] # "idle" => phase'[v] = phase[v] /\ job'[v] = job[v]
  BY DEF Free, TypeOK
<1>2. \A v \in Worker : phase'[v] = "idle" => page'[v] = 0
  BY DEF Free, TypeOK, AtWork
<1>3. QED
  BY <1>1, <1>2 DEF AtWork, RowsStay, requests

LEMMA InitTyped == Init => TypeOK /\ AtWork
<1> SUFFICES ASSUME Init PROVE TypeOK /\ AtWork
  OBVIOUS
<1>1. NoOperation \in [status : Status, date : Date \cup {NoDate}]
  BY DEF NoOperation, Status
<1>2. \A e \in Entry : 1 <= Len(Amounts[e])
  <2> SUFFICES ASSUME NEW e \in Entry PROVE 1 <= Len(Amounts[e])
    OBVIOUS
  <2>1. Amounts[e] \in Seq(Int \cup {Unreadable}) /\ Amounts[e] # <<>>
    BY AccountingAssumption
  <2>2. QED
    BY <2>1
<1>3. page \in [Worker -> 0..(PageLimit - 1)] /\ faults \in 0..FaultBudget
  BY AccountingAssumption DEF Init
<1>4. published \in [Feed -> Nat] /\ \A f \in Feed : published[f] <= Length[f]
  BY AccountingAssumption DEF Init
<1>5. TypeOK
  <2>1. version \in [Entry -> Nat \ {0}] /\ \A e \in Entry : version[e] <= Len(Amounts[e])
    BY <1>2 DEF Init
  <2>2. mirror \in [Id -> Int \cup {NoRow}] /\ began \in [Id -> Int \cup {NoRow}]
    BY NothingTyped DEF Init
  <2>3. /\ got \in [Worker -> [Entry -> Nat]]
        /\ base \in [Worker -> [Id -> Int \cup {NoRow}]]
        /\ asOf \in [Worker -> [Entry -> Nat]]
    BY NothingTyped DEF Init
  <2>4. operation \in [Key -> [status : Status, date : Date \cup {NoDate}]]
    BY <1>1 DEF Init
  <2>5. /\ want \in [Request -> [key : Key \cup {NoKey}, date : Date \cup {NoDate}]]
        /\ reply \in [Request -> {"none", "inserting", "accepted", "conflict"}]
        /\ phase \in [Worker -> {"idle", "funds", "bills", "fetched", "loaded", "committed"}]
        /\ job \in [Worker -> Key \cup {NoKey}]
        /\ alone \in [Worker -> BOOLEAN]
        /\ reading \in BOOLEAN /\ torn \in BOOLEAN
    BY DEF Init
  <2>6. QED
    BY <1>3, <1>4, <2>1, <2>2, <2>3, <2>4, <2>5 DEF TypeOK
<1>6. AtWork
  BY DEF Init, AtWork, NoOperation
<1>7. QED
  BY <1>5, <1>6

\* What a page adds are versions of the platform.
LEMMA ExtendedTyped ==
  ASSUME TypeOK, NEW w \in Worker, NEW f \in Feed, NEW n \in Nat \ {0}
  PROVE  /\ Listed(<<f, n>>) => <<f, n>> \in Entry
         /\ Extended(w, <<f, n>>) \in [Entry -> Nat]
         /\ \A e \in Entry : Extended(w, <<f, n>>)[e] =
                IF e = <<f, n>> /\ Listed(e) THEN version[e] ELSE got[w][e]
<1>1. Listed(<<f, n>>) => <<f, n>> \in Entry
  <2> SUFFICES ASSUME Listed(<<f, n>>) PROVE n \in 1..Length[f]
    BY EntryShape
  <2>1. n <= published[f] /\ published[f] <= Length[f] /\ Length[f] \in Nat /\ published[f] \in Nat
    BY AccountingAssumption DEF TypeOK, Listed
  <2>2. QED
    BY <2>1
<1>2. CASE Listed(<<f, n>>)
  <2>1. version[<<f, n>>] \in Nat /\ got[w] \in [Entry -> Nat]
    BY <1>1, <1>2 DEF TypeOK
  <2>2. Extended(w, <<f, n>>) = [got[w] EXCEPT ![<<f, n>>] = version[<<f, n>>]]
    BY <1>2 DEF Extended
  <2>3. QED
    BY <1>1, <1>2, <2>1, <2>2
<1>3. CASE ~Listed(<<f, n>>)
  BY <1>3 DEF Extended, TypeOK
<1>4. QED
  BY <1>1, <1>2, <1>3

\* The feed a slot reads: the funds first, then the bills of its date.
LEMMA FeedOfIsFeed ==
  ASSUME TypeOK, AtWork, NEW w \in Worker, phase[w] \in Reading
  PROVE  FeedOf(w) \in Feed
  BY DEF TypeOK, AtWork, FeedOf, Feed, Reading

\* The end of a handler that fails.
LEMMA FailTyped ==
  ASSUME TypeOK, AtWork, NEW w \in Worker, NEW s \in Status \ {"absent"},
         phase[w] # "idle", Fail(w, s), UNCHANGED <<platform, mirror, requests, reader>>,
         faults' \in 0..FaultBudget
  PROVE  TypeOK' /\ AtWork' /\ RowsStay
<1>1. job[w] \in Key /\ operation[job[w]].status # "absent"
  BY DEF AtWork
<1>2. /\ operation' \in [Key -> [status : Status, date : Date \cup {NoDate}]]
      /\ RowsStay
      /\ \A j \in Key : operation'[j].status # "absent" => operation'[j].date \in Date
  BY <1>1, StatusStays DEF Fail
<1>3. TypeOK'
  BY <1>2, FreeTyped DEF TypeOK, Fail, platform, requests, reader
<1>4. QED
  BY <1>2, <1>3, FreeStays DEF Fail

\* A request asks under a key and makes its row.
LEMMA RequestTyped ==
  ASSUME TypeOK, AtWork, NEW q \in Request, LookUp(q) \/ Insert(q)
  PROVE  TypeOK' /\ AtWork' /\ RowsStay
<1>1. CASE LookUp(q)
  <2>1. PICK k \in Key, d \in Date :
          /\ want' = [want EXCEPT ![q] = [key |-> k, date |-> d]]
          /\ reply' = [reply EXCEPT ![q] =
                IF operation[k].status = "absent"
                THEN "inserting" ELSE EnsureSameRequest([key |-> k, date |-> d])]
    BY <1>1 DEF LookUp
  <2>2. reply' \in [Request -> {"none", "inserting", "accepted", "conflict"}]
    BY <2>1 DEF TypeOK, EnsureSameRequest
  <2>3. want' \in [Request -> [key : Key \cup {NoKey}, date : Date \cup {NoDate}]]
    BY <2>1 DEF TypeOK
  <2>4. TypeOK'
    BY <1>1, <2>2, <2>3 DEF TypeOK, LookUp, platform, slots, reader
  <2>5. \A p \in Request : reply'[p] # "none" => want'[p].key \in Key /\ want'[p].date \in Date
    BY <2>1 DEF TypeOK, AtWork
  <2>6. QED
    BY <1>1, <2>4, <2>5 DEF AtWork, RowsStay, LookUp, slots
<1>2. CASE Insert(q)
  <2>1. want[q].key \in Key /\ want[q].date \in Date
    BY <1>2 DEF Insert, AtWork
  <2>2. reply' \in [Request -> {"none", "inserting", "accepted", "conflict"}]
    BY <1>2 DEF TypeOK, Insert, Loser, EnsureSameRequest
  <2>3. \A p \in Request : reply'[p] # "none" => reply[p] # "none"
    BY <1>2 DEF TypeOK, Insert
  <2>4. /\ operation' \in [Key -> [status : Status, date : Date \cup {NoDate}]]
        /\ RowsStay
        /\ \A k \in Key : operation'[k].status # "absent" => operation'[k].date \in Date
    <3>1. CASE operation[want[q].key].status # "absent"
      BY <1>2, <3>1 DEF Insert, RowsStay, AtWork, TypeOK
    <3>2. CASE operation[want[q].key].status = "absent"
      <4>1. operation' = [operation EXCEPT ![want[q].key] =
                             [status |-> "queued", date |-> want[q].date]]
        BY <1>2, <3>2 DEF Insert
      <4>2. [status |-> "queued", date |-> want[q].date]
                \in [status : Status, date : Date \cup {NoDate}]
        BY <2>1 DEF Status
      <4>3. QED
        BY <2>1, <3>2, <4>1, <4>2 DEF TypeOK, RowsStay, AtWork
    <3>3. QED
      BY <3>1, <3>2
  <2>5. TypeOK'
    BY <1>2, <2>2, <2>4 DEF TypeOK, Insert, platform, slots, reader
  <2>6. QED
    BY <1>2, <2>3, <2>4, <2>5 DEF AtWork, RowsStay, Insert, slots
<1>3. QED
  BY <1>1, <1>2

\* A slot takes an operation.
LEMMA ClaimTyped ==
  ASSUME TypeOK, AtWork, NEW w \in Worker, NEW k \in Key, Claim(w, k)
  PROVE  TypeOK' /\ AtWork' /\ RowsStay
<1>1. /\ operation' \in [Key -> [status : Status, date : Date \cup {NoDate}]]
      /\ RowsStay
      /\ \A j \in Key : operation'[j].status # "absent" => operation'[j].date \in Date
  BY StatusStays DEF Claim, Status
<1>2. asOf' \in [Worker -> [Entry -> Nat]]
  BY DEF Claim, TypeOK
<1>3. TypeOK'
  BY <1>1, <1>2 DEF TypeOK, Claim, platform, requests, reader
<1>4. \A v \in Worker : phase'[v] # "idle" => job'[v] = k \/ (phase[v] # "idle" /\ job'[v] = job[v])
  BY DEF Claim, TypeOK
<1>5. QED
  BY <1>1, <1>3, <1>4 DEF AtWork, RowsStay, Claim, requests, TypeOK

\* A slot reads a page.
LEMMA ReadPageTyped ==
  ASSUME TypeOK, AtWork, NEW w \in Worker, ReadPage(w)
  PROVE  TypeOK' /\ AtWork' /\ RowsStay
<1> DEFINE f == FeedOf(w)
           n == page[w] + 1
<1>1. f \in Feed /\ n \in Nat \ {0} /\ n <= PageLimit
  BY FeedOfIsFeed, AccountingAssumption DEF ReadPage, TypeOK, Reading
<1>2. PICK more \in BOOLEAN :
        /\ published[f] > n => more
        /\ IF more /\ LimitReached(n)
           THEN Fail(w, "failed")
           ELSE /\ got'   = [got EXCEPT ![w] = Extended(w, <<f, n>>)]
                /\ page'  = [page EXCEPT ![w] = IF more THEN n ELSE 0]
                /\ phase' = [phase EXCEPT ![w] = IF more THEN @
                                                 ELSE IF @ = "funds" THEN "bills" ELSE "fetched"]
                /\ UNCHANGED <<operation, job, base, asOf, alone>>
  BY DEF ReadPage
<1>3. CASE more /\ LimitReached(n)
  BY <1>2, <1>3, FailTyped DEF ReadPage, Status, TypeOK
<1>4. CASE ~(more /\ LimitReached(n))
  <2>1. got' \in [Worker -> [Entry -> Nat]]
    <3>1. Extended(w, <<f, n>>) \in [Entry -> Nat]
      BY <1>1, ExtendedTyped
    <3>2. QED
      BY <1>2, <1>4, <3>1 DEF TypeOK
  <2>2. page' \in [Worker -> 0..(PageLimit - 1)]
    <3>1. more => n \in 0..(PageLimit - 1)
      BY <1>1, <1>4, AccountingAssumption DEF LimitReached
    <3>2. (IF more THEN n ELSE 0) \in 0..(PageLimit - 1)
      BY <3>1, AccountingAssumption
    <3>3. QED
      BY <1>2, <1>4, <3>2 DEF TypeOK
  <2>3. TypeOK'
    BY <1>2, <1>4, <2>1, <2>2 DEF TypeOK, ReadPage, platform, requests, reader
  <2>4. \A v \in Worker : /\ phase'[v] # "idle" => phase[v] # "idle"
                          /\ phase'[v] = "idle" => phase[v] = "idle" /\ page'[v] = page[v]
    BY <1>2, <1>4 DEF ReadPage, TypeOK
  <2>5. QED
    BY <1>2, <1>4, <2>3, <2>4 DEF AtWork, RowsStay, ReadPage, requests
<1>5. QED
  BY <1>3, <1>4

\* The last of finitely many entries.
LEMMA LastIsLast ==
  ASSUME NEW S, S \subseteq Entry, IsFiniteSet(S), S # {}
  PROVE  LastOf(S) \in S /\ \A d \in S : d[2] <= LastOf(S)[2]
<1> DEFINE Has(s) == \E e \in s : \A d \in s : d[2] <= e[2]
           Good == {s \in SUBSET S : s # {} => Has(s)}
<1>0. \A e \in S : e[2] \in Int
  BY EntryShape, AccountingAssumption
<1>1. ASSUME NEW s \in SUBSET S, \A r \in SUBSET s : r # s => r \in Good
      PROVE  s \in Good
  <2> SUFFICES ASSUME s # {} PROVE Has(s)
    OBVIOUS
  <2>1. PICK x \in s : TRUE
    OBVIOUS
  <2>2. CASE s = {x}
    BY <1>0, <2>2
  <2>3. CASE s # {x}
    <3>1. s \ {x} # {} /\ s \ {x} \in Good
      BY <1>1, <2>1, <2>3
    <3>2. PICK e \in s \ {x} : \A d \in s \ {x} : d[2] <= e[2]
      BY <3>1
    <3>3. CASE x[2] <= e[2]
      BY <3>2, <3>3
    <3>4. CASE ~(x[2] <= e[2])
      <4>1. \A d \in s : d[2] <= x[2]
        BY <1>0, <2>1, <3>2, <3>4
      <4>2. QED
        BY <2>1, <4>1
    <3>5. QED
      BY <3>3, <3>4
  <2>4. QED
    BY <2>2, <2>3
<1> HIDE DEF Good
<1>2. S \in Good
  BY <1>1, SubsetInduction
<1>3. Has(S)
  BY <1>2 DEF Good
<1>4. QED
  BY <1>3 DEF LastOf

\* The amounts of what a slot has read under an id are numbers.
LEMMA UnderTyped ==
  ASSUME TypeOK, HasRead, NEW w \in Worker, NEW i \in Id
  PROVE  /\ \A e \in Under(w, i) : AmountOf(w, e) \in Int
         /\ Under(w, i) # {} =>
               /\ LastOf(Under(w, i)) \in Under(w, i)
               /\ \A e \in Under(w, i) : e[2] <= LastOf(Under(w, i))[2]
<1>1. ASSUME NEW e \in Under(w, i)
      PROVE  AmountOf(w, e) \in Int
  <2> DEFINE v == got[w][e]
  <2>1. e \in Entry /\ v > 0 /\ v \in Nat /\ version[e] \in Nat
    BY DEF Under, TypeOK
  <2>2. Amounts[e] \in Seq(Int \cup {Unreadable})
    BY <2>1, AccountingAssumption
  <2>3. v <= version[e] /\ version[e] <= Len(Amounts[e])
    BY <2>1 DEF HasRead, HasReadBy, TypeOK
  <2>4. v \in 1..Len(Amounts[e])
    <3>1. Len(Amounts[e]) \in Nat
      BY <2>2
    <3>2. QED
      BY <2>1, <2>3, <3>1
  <2>5. Amounts[e][v] \in Int \cup {Unreadable}
    BY <2>2, <2>4
  <2>6. QED
    BY <2>5 DEF AmountOf, AsInt
<1>2. Under(w, i) \subseteq ReadIn(w) /\ Under(w, i) \subseteq Entry
  BY DEF Under, ReadIn
<1>3. IsFiniteSet(Under(w, i))
  BY <1>2, FS_Subset DEF HasRead, HasReadBy
<1>4. QED
  BY <1>1, <1>2, <1>3, LastIsLast

\* A row that is written is written a number, and no row is lost.
LEMMA FlushedTyped ==
  ASSUME TypeOK, HasRead, NEW w \in Worker, mirror' = Flushed(w)
  PROVE  /\ mirror' \in [Id -> Int \cup {NoRow}]
         /\ \A i \in Id : mirror[i] # NoRow => mirror'[i] # NoRow
<1>1. ASSUME NEW i \in Id
      PROVE  mirror'[i] = mirror[i] \/ mirror'[i] \in Int
  <2>1. mirror'[i] = IF \E e \in Under(w, i) : AmountOf(w, e) # base[w][i]
                     THEN AmountOf(w, LastOf(Under(w, i))) ELSE mirror[i]
    BY DEF Flushed
  <2>2. QED
    BY <2>1, UnderTyped
<1>2. mirror' = [i \in Id |-> mirror'[i]]
  BY DEF Flushed
<1>3. \A i \in Id : mirror'[i] \in Int \cup {NoRow}
  BY <1>1 DEF TypeOK
<1>4. QED
  BY <1>1, <1>2, <1>3, AccountingAssumption

\* A slot loads the rows, and commits.
LEMMA CommitTyped ==
  ASSUME TypeOK, AtWork, HasRead, NEW w \in Worker, Load(w) \/ Commit(w)
  PROVE  TypeOK' /\ AtWork' /\ RowsStay
<1>1. CASE Load(w)
  <2>1. base' \in [Worker -> [Id -> Int \cup {NoRow}]]
    BY <1>1 DEF Load, TypeOK
  <2>2. TypeOK'
    BY <1>1, <2>1 DEF TypeOK, Load, platform, requests, reader
  <2>3. QED
    BY <1>1, <2>2 DEF AtWork, RowsStay, Load, requests, TypeOK
<1>2. CASE Commit(w) /\ Clashes(w)
  <2>1. Free(w) /\ UNCHANGED <<platform, mirror, operation, requests, reader, faults>>
    BY <1>2 DEF Commit, reader
  <2>2. TypeOK'
    BY <2>1, FreeTyped DEF TypeOK, platform, requests, reader
  <2>3. QED
    BY <2>1, <2>2, FreeStays DEF TypeOK, AtWork, RowsStay
<1>3. CASE Commit(w) /\ ~Clashes(w)
  <2>1. mirror' \in [Id -> Int \cup {NoRow}] /\ torn' \in BOOLEAN
    BY <1>3, FlushedTyped DEF Commit, TypeOK
  <2>2. /\ phase' = [phase EXCEPT ![w] = "committed"]
        /\ got' = [got EXCEPT ![w] = Nothing]
        /\ base' = [base EXCEPT ![w] = NoRows]
        /\ asOf' = [asOf EXCEPT ![w] = Nothing]
        /\ alone' = [v \in Worker |-> v = w \/ phase[v] # "loaded"]
        /\ UNCHANGED <<published, version, operation, want, reply, job, page, reading, began, faults>>
    BY <1>3 DEF Commit, platform, requests
  <2>3. /\ got' \in [Worker -> [Entry -> Nat]]
        /\ base' \in [Worker -> [Id -> Int \cup {NoRow}]]
        /\ asOf' \in [Worker -> [Entry -> Nat]]
        /\ alone' \in [Worker -> BOOLEAN]
    BY <2>2, NothingTyped DEF TypeOK
  <2>4. phase' \in [Worker -> {"idle", "funds", "bills", "fetched", "loaded", "committed"}]
    BY <2>2 DEF TypeOK
  <2>5. TypeOK'
    BY <2>1, <2>2, <2>3, <2>4 DEF TypeOK
  <2>6. phase[w] # "idle" /\ \A v \in Worker : phase'[v] = "idle" <=> phase[v] = "idle"
    BY <1>3, <2>2 DEF Commit, TypeOK
  <2>7. QED
    BY <2>2, <2>5, <2>6 DEF AtWork, RowsStay
<1>4. QED
  BY <1>1, <1>2, <1>3

LEMMA StepTyped ==
  ASSUME TypeOK, AtWork, HasRead, [Next]_vars
  PROVE  TypeOK' /\ AtWork' /\ RowsStay
<1>1. CASE UNCHANGED vars
  BY <1>1 DEF TypeOK, AtWork, RowsStay, vars, platform, requests, slots, reader
<1>2. ASSUME NEW f \in Feed, Publish(f)
      PROVE  TypeOK' /\ AtWork' /\ RowsStay
  <2>1. published' \in [Feed -> Nat] /\ \A g \in Feed : published'[g] <= Length[g]
    <3>1. published[f] + 1 \in Nat /\ published[f] + 1 <= Length[f]
      <4>1. published[f] \in Nat /\ Length[f] \in Nat
        BY AccountingAssumption DEF TypeOK
      <4>2. published[f] < Length[f]
        BY <1>2 DEF Publish
      <4>3. QED
        BY <4>1, <4>2
    <3>2. published' = [published EXCEPT ![f] = published[f] + 1]
      BY <1>2 DEF Publish
    <3>3. QED
      BY <3>1, <3>2 DEF TypeOK
  <2>2. QED
    BY <1>2, <2>1 DEF TypeOK, AtWork, RowsStay, Publish, requests, slots, reader
<1>3. ASSUME NEW e \in Entry, Amend(e)
      PROVE  TypeOK' /\ AtWork' /\ RowsStay
  <2>1. version[e] \in Nat \ {0} /\ version[e] < Len(Amounts[e]) /\ Len(Amounts[e]) \in Nat
    <3>1. Amounts[e] \in Seq(Int \cup {Unreadable})
      BY AccountingAssumption
    <3>2. QED
      BY <1>3, <3>1 DEF Amend, TypeOK
  <2>2. version' = [version EXCEPT ![e] = version[e] + 1]
    BY <1>3 DEF Amend
  <2>3. version' \in [Entry -> Nat \ {0}] /\ \A d \in Entry : version'[d] <= Len(Amounts[d])
    BY <2>1, <2>2 DEF TypeOK
  <2>4. QED
    BY <1>3, <2>3 DEF TypeOK, AtWork, RowsStay, Amend, requests, slots, reader
<1>4. ASSUME NEW w \in Worker, CallFails(w) \/ CallTimesOut(w)
      PROVE  TypeOK' /\ AtWork' /\ RowsStay
  <2>1. phase[w] # "idle" /\ UNCHANGED <<platform, mirror, requests, reader>>
    BY <1>4 DEF CallFails, CallTimesOut
  <2>2. faults' \in 0..FaultBudget
    BY <1>4, AccountingAssumption DEF CallFails, CallTimesOut, Fault, TypeOK
  <2>3. Fail(w, "failed") \/ Fail(w, "queued")
    BY <1>4 DEF CallFails, CallTimesOut
  <2>4. QED
    BY <2>1, <2>2, <2>3, FailTyped DEF Status
<1>5. ASSUME NEW w \in Worker, MarkSucceeded(w)
      PROVE  TypeOK' /\ AtWork' /\ RowsStay
  <2>1. Fail(w, "succeeded") /\ phase[w] # "idle" /\ UNCHANGED <<platform, mirror, requests, reader, faults>>
    BY <1>5 DEF MarkSucceeded, Fail
  <2>2. QED
    BY <2>1, FailTyped DEF Status, TypeOK
<1>6. ASSUME NEW w \in Worker, Crash(w)
      PROVE  TypeOK' /\ AtWork' /\ RowsStay
  <2>1. Free(w) /\ UNCHANGED <<platform, mirror, operation, requests, reader>>
    BY <1>6 DEF Crash
  <2>2. faults' \in 0..FaultBudget
    BY <1>6, AccountingAssumption DEF Crash, Fault, TypeOK
  <2>3. TypeOK'
    BY <2>1, <2>2, FreeTyped DEF TypeOK, platform, requests, reader
  <2>4. QED
    BY <2>1, <2>3, FreeStays DEF TypeOK, AtWork, RowsStay
<1>7. ASSUME NEW k \in Key, LeaseExpires(k)
      PROVE  TypeOK' /\ AtWork' /\ RowsStay
  <2>1. /\ operation' \in [Key -> [status : Status, date : Date \cup {NoDate}]]
        /\ RowsStay
        /\ \A j \in Key : operation'[j].status # "absent" => operation'[j].date \in Date
    BY <1>7, StatusStays DEF LeaseExpires, Abandoned, Status
  <2>2. QED
    BY <1>7, <2>1 DEF TypeOK, AtWork, RowsStay, LeaseExpires, platform, requests, slots, reader
<1>8. CASE ReadFunds \/ ReadBills
  <2>1. reading' \in BOOLEAN /\ torn' \in BOOLEAN /\ began' \in [Id -> Int \cup {NoRow}]
    BY <1>8, NothingTyped DEF ReadFunds, ReadBills, TypeOK
  <2>2. UNCHANGED <<platform, mirror, operation, requests, slots, faults>>
    BY <1>8 DEF ReadFunds, ReadBills
  <2>3. QED
    BY <2>1, <2>2 DEF TypeOK, AtWork, RowsStay, platform, requests, slots
<1>9. QED
  BY <1>1, <1>2, <1>3, <1>4, <1>5, <1>6, <1>7, <1>8, RequestTyped, ClaimTyped, ReadPageTyped,
     CommitTyped DEF Next

SlotStays(v) ==
    /\ phase'[v] = phase[v] /\ job'[v] = job[v] /\ page'[v] = page[v]
    /\ got'[v] = got[v] /\ base'[v] = base[v] /\ asOf'[v] = asOf[v]

PlatformGrows ==
    \A e \in Entry : (Listed(e) => Listed(e)') /\ version[e] <= version'[e]

\* The platform only adds entries and amends what it lists.
LEMMA PlatformSteps ==
  ASSUME TypeOK, [Next]_vars
  PROVE  PlatformGrows
<1>0. \A e \in Entry : version[e] \in Int
  BY DEF TypeOK
<1>1. ASSUME UNCHANGED platform
      PROVE  PlatformGrows
  <2>1. published' = published /\ version' = version
    BY <1>1 DEF platform
  <2>2. QED
    BY <1>0, <2>1 DEF PlatformGrows, Listed
<1>2. ASSUME NEW f \in Feed, Publish(f)
      PROVE  PlatformGrows
  <2>1. ASSUME NEW e \in Entry, Listed(e)
        PROVE  Listed(e)'
    <3>1. e[1] \in Feed /\ e[2] \in Int /\ published[e[1]] \in Int
      BY EntryShape DEF TypeOK
    <3>2. published'[e[1]] \in {published[e[1]], published[e[1]] + 1}
      BY <1>2, <3>1 DEF Publish, TypeOK
    <3>3. QED
      BY <2>1, <3>1, <3>2 DEF Listed
  <2>2. version' = version
    BY <1>2 DEF Publish
  <2>3. QED
    BY <1>0, <2>1, <2>2 DEF PlatformGrows
<1>3. ASSUME NEW d \in Entry, Amend(d)
      PROVE  PlatformGrows
  BY <1>3 DEF PlatformGrows, Amend, TypeOK, Listed
<1>4. ASSUME NEW w \in Worker, ReadPage(w) \/ CallFails(w) \/ CallTimesOut(w) \/ Load(w)
                                 \/ Commit(w) \/ MarkSucceeded(w) \/ Crash(w)
      PROVE  UNCHANGED platform
  BY <1>4 DEF ReadPage, CallFails, CallTimesOut, Load, Commit, MarkSucceeded, Crash
<1>5. QED
  BY <1>1, <1>2, <1>3, <1>4 DEF Next, vars, LookUp, Insert, Claim, LeaseExpires, ReadFunds, ReadBills

\* The other slots are not touched by a slot's step.
LEMMA OthersStay ==
  ASSUME TypeOK, NEW w \in Worker, NEW v \in Worker \ {w},
         \/ \E k \in Key : Claim(w, k)
         \/ ReadPage(w) \/ CallFails(w) \/ CallTimesOut(w) \/ Load(w)
         \/ Commit(w) \/ MarkSucceeded(w) \/ Crash(w)
  PROVE  SlotStays(v)
<1>1. CASE Free(w)
  BY <1>1 DEF Free, SlotStays, TypeOK
<1>2. CASE ~Free(w) /\ ReadPage(w)
  BY <1>2 DEF ReadPage, Fail, SlotStays, TypeOK
<1>3. CASE ~Free(w) /\ ~ReadPage(w)
  BY <1>3 DEF Claim, CallFails, CallTimesOut, Fail, Load, Commit, MarkSucceeded, Crash,
              SlotStays, TypeOK
<1>4. QED
  BY <1>1, <1>2, <1>3

\* A slot that has read nothing.
LEMMA NothingRead ==
  ASSUME NEW w \in Worker, got'[w] = Nothing
  PROVE  HasReadBy(w)'
<1>1. \A e \in Entry : ~(got'[w][e] > 0)
  BY DEF Nothing
<1>2. ReadIn(w)' = {}
  BY <1>1 DEF ReadIn
<1>3. IsFiniteSet(ReadIn(w)')
  BY <1>2, FS_EmptySet
<1>4. QED
  BY <1>1, <1>3 DEF HasReadBy

LEMMA InitHasRead == Init => HasRead
<1> SUFFICES ASSUME Init, NEW w \in Worker PROVE HasReadBy(w)
  BY DEF HasRead
<1>1. got[w] = Nothing
  BY DEF Init
<1>2. \A e \in Entry : ~(got[w][e] > 0)
  BY <1>1 DEF Nothing
<1>3. ReadIn(w) = {}
  BY <1>2 DEF ReadIn
<1>4. QED
  BY <1>2, <1>3, FS_EmptySet DEF HasReadBy

LEMMA StayHas ==
  ASSUME TypeOK, AtWork, RowsStay, PlatformGrows, TypeOK',
         NEW v \in Worker, SlotStays(v), HasReadBy(v)
  PROVE  HasReadBy(v)'
<1>1. got'[v] = got[v] /\ phase'[v] = phase[v] /\ job'[v] = job[v]
  BY DEF SlotStays
<1>2. ReadIn(v)' = ReadIn(v)
  BY <1>1 DEF ReadIn
<1>3. ASSUME NEW e \in Entry, got'[v][e] > 0
      PROVE  /\ phase'[v] # "idle"
             /\ e[1] \in {"funds", operation'[job'[v]].date}
             /\ got'[v][e] <= version'[e]
  <2>1. phase[v] # "idle" /\ e[1] \in {"funds", operation[job[v]].date} /\ got[v][e] <= version[e]
    BY <1>1, <1>3 DEF HasReadBy
  <2>2. operation'[job[v]].date = operation[job[v]].date
    BY <2>1 DEF AtWork, RowsStay
  <2>3. version[e] <= version'[e] /\ version[e] \in Int /\ version'[e] \in Int /\ got[v][e] \in Int
    BY DEF PlatformGrows, TypeOK
  <2>4. QED
    BY <1>1, <2>1, <2>2, <2>3
<1>4. QED
  BY <1>2, <1>3 DEF HasReadBy

\* A page adds at most one entry, of the feed that is read.
LEMMA ReadPageHas ==
  ASSUME TypeOK, AtWork, HasRead, NEW w \in Worker, ReadPage(w), TypeOK'
  PROVE  HasReadBy(w)'
<1> DEFINE f == FeedOf(w)
           n == page[w] + 1
<1>1. f \in Feed /\ n \in Nat \ {0} /\ phase[w] \in Reading
  <2>1. phase[w] \in Reading
    BY DEF ReadPage, Reading
  <2>2. page[w] \in Nat
    BY AccountingAssumption DEF TypeOK
  <2>3. QED
    BY <2>1, <2>2, FeedOfIsFeed
<1>2. PICK more \in BOOLEAN :
        /\ published[f] > n => more
        /\ IF more /\ LimitReached(n)
           THEN Fail(w, "failed")
           ELSE /\ got'   = [got EXCEPT ![w] = Extended(w, <<f, n>>)]
                /\ page'  = [page EXCEPT ![w] = IF more THEN n ELSE 0]
                /\ phase' = [phase EXCEPT ![w] = IF more THEN @
                                                 ELSE IF @ = "funds" THEN "bills" ELSE "fetched"]
                /\ UNCHANGED <<operation, job, base, asOf, alone>>
  BY DEF ReadPage
<1>3. CASE more /\ LimitReached(n)
  <2>1. got'[w] = Nothing
    BY <1>2, <1>3 DEF Fail, Free, TypeOK
  <2>2. QED
    BY <2>1, NothingRead
<1>4. CASE ~(more /\ LimitReached(n))
  <2>1. /\ got'[w] = Extended(w, <<f, n>>) /\ phase'[w] # "idle"
        /\ UNCHANGED <<platform, operation, job>>
    BY <1>1, <1>2, <1>4 DEF ReadPage, Reading, TypeOK
  <2>2. \A e \in Entry : got'[w][e] = IF e = <<f, n>> /\ Listed(e) THEN version[e] ELSE got[w][e]
    BY <1>1, <2>1, ExtendedTyped
  <2>3. f \in {"funds", operation[job[w]].date}
    BY DEF FeedOf
  <2>4. HasReadBy(w)
    BY DEF HasRead
  <2>5. version' = version
    BY <2>1 DEF platform
  <2> HIDE DEF f, n
  <2>6. ASSUME NEW e \in Entry, got'[w][e] > 0
        PROVE  e[1] \in {"funds", operation'[job'[w]].date} /\ got'[w][e] <= version'[e]
    <3>1. CASE e = <<f, n>> /\ Listed(e)
      <4>1. version[e] \in Int /\ got'[w][e] = version[e]
        BY <2>2, <3>1 DEF TypeOK
      <4>2. e[1] = f
        BY <3>1
      <4>3. QED
        BY <2>1, <2>3, <2>5, <4>1, <4>2
    <3>2. CASE ~(e = <<f, n>> /\ Listed(e))
      BY <2>1, <2>2, <2>4, <2>5, <2>6, <3>2 DEF HasReadBy
    <3>3. QED
      BY <3>1, <3>2
  <2>7. ReadIn(w)' \subseteq ReadIn(w) \cup {<<f, n>>}
    BY <2>2 DEF ReadIn
  <2>8. IsFiniteSet(ReadIn(w) \cup {<<f, n>>})
    BY <2>4, FS_AddElement DEF HasReadBy
  <2>9. IsFiniteSet(ReadIn(w)')
    BY <2>7, <2>8, FS_Subset
  <2>10. QED
    BY <2>1, <2>6, <2>9 DEF HasReadBy
<1>5. QED
  BY <1>3, <1>4

LEMMA StepHasRead ==
  ASSUME TypeOK, AtWork, HasRead, [Next]_vars
  PROVE  HasRead'
<1>1. TypeOK' /\ AtWork' /\ RowsStay /\ PlatformGrows
  BY StepTyped, PlatformSteps
<1>2. ASSUME NEW v \in Worker, SlotStays(v)
      PROVE  HasReadBy(v)'
  BY <1>1, <1>2, StayHas DEF HasRead
<1>3. CASE UNCHANGED slots
  BY <1>2, <1>3 DEF HasRead, SlotStays, slots
<1>4. ASSUME NEW w \in Worker,
             \/ \E k \in Key : Claim(w, k)
             \/ ReadPage(w) \/ CallFails(w) \/ CallTimesOut(w) \/ Load(w)
             \/ Commit(w) \/ MarkSucceeded(w) \/ Crash(w),
             HasReadBy(w)'
      PROVE  HasRead'
  BY <1>2, <1>4, OthersStay DEF HasRead
<1>5. ASSUME NEW w \in Worker, NEW k \in Key, Claim(w, k)
      PROVE  HasReadBy(w)'
  <2>1. got' = got /\ phase[w] = "idle" /\ HasReadBy(w)
    BY <1>5 DEF Claim, HasRead
  <2>2. \A e \in Entry : ~(got[w][e] > 0)
    BY <2>1 DEF HasReadBy
  <2>3. ReadIn(w)' = ReadIn(w)
    BY <2>1 DEF ReadIn
  <2>4. QED
    BY <2>1, <2>2, <2>3 DEF HasReadBy
<1>6. ASSUME NEW w \in Worker, CallFails(w) \/ CallTimesOut(w) \/ Commit(w)
                                 \/ MarkSucceeded(w) \/ Crash(w)
      PROVE  HasReadBy(w)'
  <2>1. got'[w] = Nothing
    BY <1>6 DEF CallFails, CallTimesOut, Commit, MarkSucceeded, Crash, Fail, Free, TypeOK
  <2>2. QED
    BY <2>1, NothingRead
<1>7. ASSUME NEW w \in Worker, Load(w)
      PROVE  HasReadBy(w)'
  <2>1. phase'[w] = "loaded" /\ got' = got /\ job' = job /\ operation' = operation /\ version' = version
    BY <1>7 DEF Load, TypeOK, platform
  <2>2. ReadIn(w)' = ReadIn(w)
    BY <2>1 DEF ReadIn
  <2>3. HasReadBy(w)
    BY DEF HasRead
  <2>4. QED
    BY <2>1, <2>2, <2>3 DEF HasReadBy
<1>8. ASSUME NEW w \in Worker, ReadPage(w)
      PROVE  HasReadBy(w)'
  BY <1>1, <1>8, ReadPageHas
<1>9. ASSUME NEW w \in Worker,
             \/ \E k \in Key : Claim(w, k)
             \/ ReadPage(w) \/ CallFails(w) \/ CallTimesOut(w) \/ Load(w)
             \/ Commit(w) \/ MarkSucceeded(w) \/ Crash(w)
      PROVE  HasRead'
  BY <1>4, <1>5, <1>6, <1>7, <1>8, <1>9
<1>10. CASE \/ \E f \in Feed : Publish(f)
            \/ \E e \in Entry : Amend(e)
            \/ \E q \in Request : LookUp(q) \/ Insert(q)
            \/ \E k \in Key : LeaseExpires(k)
            \/ ReadFunds \/ ReadBills
            \/ UNCHANGED vars
  BY <1>3, <1>10 DEF Publish, Amend, LookUp, Insert, LeaseExpires, ReadFunds, ReadBills, vars
<1>11. QED
  BY <1>9, <1>10 DEF Next

\* The types of rows, requests and slots are preserved by every step of a
\* request, a slot or the platform.
THEOREM TypeCorrect == Spec => []TypeOK
<1>1. Init => TypeOK /\ AtWork /\ HasRead
  BY InitTyped, InitHasRead
<1>2. TypeOK /\ AtWork /\ HasRead /\ [Next]_vars => (TypeOK /\ AtWork /\ HasRead)'
  BY StepTyped, StepHasRead
<1>3. QED
  BY <1>1, <1>2, PTL DEF Spec

-----------------------------------------------------------------------------
(* Idempotency keys *)

\* A step that is not a request's leaves the requests alone.
LEMMA RequestSteps ==
  ASSUME [Next]_vars
  PROVE  UNCHANGED requests \/ \E q \in Request : LookUp(q) \/ Insert(q)
<1>1. ASSUME NEW w \in Worker, ReadPage(w) \/ CallFails(w) \/ CallTimesOut(w) \/ Load(w)
                                 \/ Commit(w) \/ MarkSucceeded(w) \/ Crash(w)
      PROVE  UNCHANGED requests
  BY <1>1 DEF ReadPage, CallFails, CallTimesOut, Load, Commit, MarkSucceeded, Crash
<1>2. QED
  BY <1>1 DEF Next, vars, Publish, Amend, Claim, LeaseExpires, ReadFunds, ReadBills

LEMMA StepKeyDecides ==
  ASSUME TypeOK, AtWork, HasRead, KeyDecides, [Next]_vars
  PROVE  KeyDecides'
<1>1. TypeOK' /\ AtWork' /\ RowsStay
  BY StepTyped
<1>2. ASSUME NEW p \in Request, want'[p] = want[p], reply'[p] = reply[p],
             reply'[p] \in {"accepted", "conflict"}
      PROVE  /\ operation'[want'[p].key].status # "absent"
             /\ reply'[p] = "accepted" <=> operation'[want'[p].key].date = want'[p].date
  BY <1>1, <1>2 DEF KeyDecides, AtWork, RowsStay
<1>3. CASE UNCHANGED requests
  BY <1>2, <1>3 DEF KeyDecides, requests
<1>4. ASSUME NEW q \in Request, LookUp(q)
      PROVE  KeyDecides'
  <2>1. PICK k \in Key, d \in Date :
          /\ want' = [want EXCEPT ![q] = [key |-> k, date |-> d]]
          /\ reply' = [reply EXCEPT ![q] =
                IF operation[k].status = "absent"
                THEN "inserting" ELSE EnsureSameRequest([key |-> k, date |-> d])]
          /\ operation' = operation
    BY <1>4 DEF LookUp
  <2>2. /\ want'[q] = [key |-> k, date |-> d]
        /\ reply'[q] = IF operation[k].status = "absent" THEN "inserting"
                       ELSE IF operation[k].date = d THEN "accepted" ELSE "conflict"
        /\ \A p \in Request \ {q} : want'[p] = want[p] /\ reply'[p] = reply[p]
    BY <2>1 DEF TypeOK, EnsureSameRequest
  <2>3. QED
    BY <1>2, <2>1, <2>2 DEF KeyDecides
<1>5. ASSUME NEW q \in Request, Insert(q)
      PROVE  KeyDecides'
  <2> DEFINE k == want[q].key
             d == want[q].date
  <2>1. k \in Key /\ d \in Date /\ want' = want
    BY <1>5 DEF Insert, AtWork
  <2>2. \A p \in Request \ {q} : reply'[p] = reply[p]
    BY <1>5 DEF Insert, TypeOK
  <2>3. /\ operation'[k].status # "absent"
        /\ reply'[q] = IF operation'[k].date = d THEN "accepted" ELSE "conflict"
    <3>1. CASE operation[k].status = "absent"
      BY <1>5, <2>1, <3>1 DEF Insert, TypeOK
    <3>2. CASE operation[k].status # "absent"
      BY <1>5, <2>1, <3>2 DEF Insert, TypeOK, Loser, EnsureSameRequest
    <3>3. QED
      BY <3>1, <3>2
  <2>4. QED
    BY <1>2, <2>1, <2>2, <2>3 DEF KeyDecides
<1>6. QED
  BY <1>3, <1>4, <1>5, RequestSteps

\* A key stands for one request: whoever was accepted under it asked for what
\* its operation does, however many requests insert it at once.
THEOREM KeysDecide == Spec => []KeyDecides
<1>1. Init => TypeOK /\ AtWork /\ HasRead /\ KeyDecides
  BY InitTyped, InitHasRead DEF Init, KeyDecides
<1>2. TypeOK /\ AtWork /\ HasRead /\ KeyDecides /\ [Next]_vars
        => (TypeOK /\ AtWork /\ HasRead /\ KeyDecides)'
  BY StepTyped, StepHasRead, StepKeyDecides
<1>3. QED
  BY <1>1, <1>2, PTL DEF Spec

-----------------------------------------------------------------------------
(* Imports *)

\* The pages behind the cursor of slot w hold the entry.
Read(w, e) ==
    \/ phase[w] = "funds" /\ e[1] = "funds" /\ e[2] <= page[w]
    \/ phase[w] = "bills" /\ e[1] = "funds"
    \/ phase[w] = "bills" /\ e[1] = operation[job[w]].date /\ e[2] <= page[w]
    \/ phase[w] \in {"fetched", "loaded"} /\ e[1] \in {"funds", operation[job[w]].date}

\* What was listed when the import began still is, in a version that is not
\* older, and the slot has read it on the pages behind its cursor.
ReadBy(w) ==
    \A e \in Entry : asOf[w][e] > 0 =>
        /\ Listed(e) /\ asOf[w][e] <= version[e]
        /\ Read(w, e) => asOf[w][e] <= got[w][e]

ReadSoFar == \A w \in Worker : ReadBy(w)

\* What the session of slot w has loaded is there, and is still so unless
\* another import has committed since.
LoadedBy(w) ==
    phase[w] = "loaded" =>
        \A i \in Id :
            /\ base[w][i] # NoRow => mirror[i] # NoRow
            /\ alone[w] /\ Under(w, i) # {} => base[w][i] = mirror[i]

LoadedRows == \A w \in Worker : LoadedBy(w)

\* A slot keeps what it has read, whatever else happens.
LEMMA StayRead ==
  ASSUME TypeOK, AtWork, RowsStay, PlatformGrows, TypeOK',
         NEW v \in Worker, SlotStays(v), ReadBy(v)
  PROVE  ReadBy(v)'
<1> SUFFICES ASSUME NEW e \in Entry, asOf'[v][e] > 0
             PROVE  /\ Listed(e)' /\ asOf'[v][e] <= version'[e]
                    /\ Read(v, e)' => asOf'[v][e] <= got'[v][e]
  BY DEF ReadBy
<1>1. asOf[v][e] > 0 /\ Listed(e) /\ asOf[v][e] <= version[e]
  BY DEF SlotStays, ReadBy
<1>2. Listed(e)' /\ version[e] <= version'[e]
  BY <1>1 DEF PlatformGrows
<1>3. asOf[v][e] \in Int /\ version[e] \in Int /\ version'[e] \in Int
  BY DEF TypeOK
<1>4. phase[v] # "idle" => operation'[job[v]].date = operation[job[v]].date
  BY DEF AtWork, RowsStay
<1>5. Read(v, e)' => Read(v, e)
  BY <1>4 DEF Read, SlotStays
<1>6. QED
  BY <1>1, <1>2, <1>3, <1>5 DEF SlotStays, ReadBy

\* A slot that has let go of its operation claims nothing.
LEMMA FreeRead ==
  ASSUME TypeOK, NEW w \in Worker, asOf'[w] = Nothing
  PROVE  ReadBy(w)'
  BY DEF ReadBy, Nothing

\* A page brings what was listed on it when the import began.
LEMMA PageIsRead ==
  ASSUME TypeOK, AtWork, NEW w \in Worker, phase[w] \in Reading,
         NEW e \in Entry, asOf[w][e] > 0, ReadBy(w),
         e[1] = FeedOf(w), e[2] <= page[w] + 1
  PROVE  asOf[w][e] <= Extended(w, <<FeedOf(w), page[w] + 1>>)[e]
<1> DEFINE n == page[w] + 1
<1>1. FeedOf(w) \in Feed /\ n \in Nat \ {0} /\ page[w] \in Nat
  BY FeedOfIsFeed, AccountingAssumption DEF TypeOK
<1>2. Extended(w, <<FeedOf(w), n>>)[e] =
          IF e = <<FeedOf(w), n>> /\ Listed(e) THEN version[e] ELSE got[w][e]
  BY <1>1, ExtendedTyped
<1>3. Listed(e) /\ asOf[w][e] <= version[e]
  BY DEF ReadBy
<1>4. e[2] \in Int /\ e = <<e[1], e[2]>>
  BY EntryShape
<1>5. CASE e[2] = n
  BY <1>2, <1>3, <1>4, <1>5
<1>6. CASE e[2] # n
  <2>1. e[2] <= page[w] /\ e # <<FeedOf(w), n>>
    BY <1>1, <1>4, <1>6
  <2>2. Read(w, e)
    BY <2>1 DEF Read, FeedOf, Reading
  <2>3. QED
    BY <1>2, <2>1, <2>2 DEF ReadBy
<1>7. QED
  BY <1>5, <1>6

\* After its last page a slot has read everything of the feed that was listed
\* when the import began.
LEMMA ReadPageRead ==
  ASSUME TypeOK, AtWork, ReadSoFar, NEW w \in Worker, ReadPage(w), TypeOK'
  PROVE  ReadBy(w)'
<1> DEFINE f == FeedOf(w)
           n == page[w] + 1
<1>1. f \in Feed /\ n \in Nat \ {0} /\ phase[w] \in Reading /\ page[w] \in Nat
  <2>1. phase[w] \in Reading
    BY DEF ReadPage, Reading
  <2>2. page[w] \in Nat
    BY AccountingAssumption DEF TypeOK
  <2>3. QED
    BY <2>1, <2>2, FeedOfIsFeed
<1>2. PICK more \in BOOLEAN :
        /\ published[f] > n => more
        /\ IF more /\ LimitReached(n)
           THEN Fail(w, "failed")
           ELSE /\ got'   = [got EXCEPT ![w] = Extended(w, <<f, n>>)]
                /\ page'  = [page EXCEPT ![w] = IF more THEN n ELSE 0]
                /\ phase' = [phase EXCEPT ![w] = IF more THEN @
                                                 ELSE IF @ = "funds" THEN "bills" ELSE "fetched"]
                /\ UNCHANGED <<operation, job, base, asOf, alone>>
  BY DEF ReadPage
<1>3. CASE more /\ LimitReached(n)
  <2>1. asOf'[w] = Nothing
    BY <1>2, <1>3 DEF Fail, Free, TypeOK
  <2>2. QED
    BY <2>1, FreeRead
<1>4. CASE ~(more /\ LimitReached(n))
  <2>1. /\ got'[w] = Extended(w, <<f, n>>) /\ page'[w] = IF more THEN n ELSE 0
        /\ phase'[w] = IF more THEN phase[w]
                       ELSE IF phase[w] = "funds" THEN "bills" ELSE "fetched"
        /\ asOf'[w] = asOf[w] /\ UNCHANGED <<platform, operation, job>>
    BY <1>2, <1>4 DEF ReadPage, TypeOK
  <2> SUFFICES ASSUME NEW e \in Entry, asOf[w][e] > 0
               PROVE  /\ Listed(e)' /\ asOf[w][e] <= version'[e]
                      /\ Read(w, e)' => asOf[w][e] <= got'[w][e]
    BY <2>1 DEF ReadBy
  <2>2. Listed(e)' /\ asOf[w][e] <= version'[e]
    BY <2>1 DEF ReadSoFar, ReadBy, Listed, platform
  <2>3. e[1] \in Feed /\ e[2] \in Int /\ 1 <= e[2] /\ e[2] <= published[e[1]]
    BY EntryShape DEF ReadSoFar, ReadBy, Listed
  <2>4. CASE e[1] = f
    <3>1. ASSUME Read(w, e)' PROVE e[2] <= n
      <4>1. CASE more
        BY <1>1, <2>1, <2>4, <3>1, <4>1, AccountingAssumption DEF Read, FeedOf, Feed, Reading, AtWork
      <4>2. CASE ~more
        <5>1. published[f] <= n /\ published[f] \in Int
          BY <1>1, <1>2, <4>2 DEF TypeOK
        <5>2. QED
          BY <1>1, <2>3, <2>4, <5>1
      <4>3. QED
        BY <4>1, <4>2
    <3>2. QED
      BY <1>1, <2>1, <2>2, <2>4, <3>1, PageIsRead DEF ReadSoFar
  <2>5. CASE e[1] # f
    <3>1. Read(w, e)' => Read(w, e)
      BY <1>1, <2>1, <2>3, <2>5 DEF Read, FeedOf, Reading
    <3>2. Extended(w, <<f, n>>)[e] = got[w][e]
      BY <1>1, <2>5, ExtendedTyped
    <3>3. QED
      BY <2>1, <2>2, <3>1, <3>2 DEF ReadSoFar, ReadBy
  <2>6. QED
    BY <2>4, <2>5
<1>5. QED
  BY <1>3, <1>4

LEMMA StepReadSoFar ==
  ASSUME TypeOK, AtWork, HasRead, ReadSoFar, [Next]_vars
  PROVE  ReadSoFar'
<1>1. TypeOK' /\ AtWork' /\ RowsStay /\ PlatformGrows
  BY StepTyped, PlatformSteps
<1>2. ASSUME NEW v \in Worker, SlotStays(v)
      PROVE  ReadBy(v)'
  BY <1>1, <1>2, StayRead DEF ReadSoFar
<1>3. CASE UNCHANGED slots
  BY <1>2, <1>3 DEF ReadSoFar, SlotStays, slots
<1>4. ASSUME NEW w \in Worker,
             \/ \E k \in Key : Claim(w, k)
             \/ ReadPage(w) \/ CallFails(w) \/ CallTimesOut(w) \/ Load(w)
             \/ Commit(w) \/ MarkSucceeded(w) \/ Crash(w),
             ReadBy(w)'
      PROVE  ReadSoFar'
  BY <1>2, <1>4, OthersStay DEF ReadSoFar
<1>5. ASSUME NEW w \in Worker, NEW k \in Key, Claim(w, k)
      PROVE  ReadBy(w)'
  <2>1. /\ phase'[w] = "funds" /\ page'[w] = 0 /\ UNCHANGED platform
        /\ \A e \in Entry : asOf'[w][e] = IF Listed(e) THEN version[e] ELSE 0
    BY <1>5 DEF Claim, TypeOK, AtWork
  <2>2. \A e \in Entry : Read(w, e)' => FALSE
    BY <2>1, EntryShape DEF Read
  <2>3. \A e \in Entry : version[e] <= version[e]
    BY DEF TypeOK
  <2>4. QED
    BY <2>1, <2>2, <2>3 DEF ReadBy, Listed, platform
<1>6. ASSUME NEW w \in Worker, CallFails(w) \/ CallTimesOut(w) \/ Commit(w)
                                 \/ MarkSucceeded(w) \/ Crash(w)
      PROVE  ReadBy(w)'
  <2>1. asOf'[w] = Nothing
    BY <1>6 DEF CallFails, CallTimesOut, Commit, MarkSucceeded, Crash, Fail, Free, TypeOK
  <2>2. QED
    BY <2>1, FreeRead
<1>7. ASSUME NEW w \in Worker, Load(w)
      PROVE  ReadBy(w)'
  <2>1. /\ phase[w] = "fetched" /\ phase'[w] = "loaded"
        /\ UNCHANGED <<platform, operation, job, page, got, asOf>>
    BY <1>7 DEF Load, TypeOK
  <2>2. ReadBy(w)
    BY DEF ReadSoFar
  <2>3. \A e \in Entry : Read(w, e)' => Read(w, e)
    BY <2>1 DEF Read
  <2>4. QED
    BY <2>1, <2>2, <2>3 DEF ReadBy, Listed, platform
<1>8. ASSUME NEW w \in Worker, ReadPage(w)
      PROVE  ReadBy(w)'
  BY <1>1, <1>8, ReadPageRead
<1>9. ASSUME NEW w \in Worker,
             \/ \E k \in Key : Claim(w, k)
             \/ ReadPage(w) \/ CallFails(w) \/ CallTimesOut(w) \/ Load(w)
             \/ Commit(w) \/ MarkSucceeded(w) \/ Crash(w)
      PROVE  ReadSoFar'
  BY <1>4, <1>5, <1>6, <1>7, <1>8, <1>9
<1>10. CASE \/ \E f \in Feed : Publish(f)
            \/ \E e \in Entry : Amend(e)
            \/ \E q \in Request : LookUp(q) \/ Insert(q)
            \/ \E k \in Key : LeaseExpires(k)
            \/ ReadFunds \/ ReadBills
            \/ UNCHANGED vars
  BY <1>3, <1>10 DEF Publish, Amend, LookUp, Insert, LeaseExpires, ReadFunds, ReadBills, vars
<1>11. QED
  BY <1>9, <1>10 DEF Next

\* A slot that has not loaded its rows in this step knows them as before.
LEMMA StayLoaded ==
  ASSUME NEW v \in Worker, LoadedBy(v), SlotStays(v), mirror' = mirror,
         phase[v] = "loaded" => alone'[v] = alone[v]
  PROVE  LoadedBy(v)'
<1>1. \A i \in Id : Under(v, i)' = Under(v, i)
  BY DEF SlotStays, Under
<1>2. QED
  BY <1>1 DEF LoadedBy, SlotStays

LEMMA StepLoadedRows ==
  ASSUME TypeOK, HasRead, LoadedRows, [Next]_vars
  PROVE  LoadedRows'
<1>1. ASSUME NEW w \in Worker,
             \/ \E k \in Key : Claim(w, k)
             \/ ReadPage(w) \/ CallFails(w) \/ CallTimesOut(w)
             \/ MarkSucceeded(w) \/ Crash(w)
      PROVE  LoadedRows'
  <2>1. mirror' = mirror /\ phase'[w] # "loaded"
    BY <1>1 DEF Claim, ReadPage, CallFails, CallTimesOut, Fail, MarkSucceeded, Crash, Free, TypeOK
  <2>2. \A v \in Worker \ {w} : alone'[v] = alone[v]
    BY <1>1 DEF Claim, ReadPage, CallFails, CallTimesOut, Fail, MarkSucceeded, Crash, Free, TypeOK
  <2>3. \A v \in Worker \ {w} : SlotStays(v)
    BY <1>1, OthersStay
  <2>4. QED
    BY <2>1, <2>2, <2>3, StayLoaded DEF LoadedRows, LoadedBy
<1>2. ASSUME NEW w \in Worker, Load(w)
      PROVE  LoadedRows'
  <2>1. mirror' = mirror /\ alone' = alone /\ got' = got
    BY <1>2 DEF Load
  <2>2. \A i \in Id : /\ base'[w][i] = IF Under(w, i) # {} THEN mirror[i] ELSE NoRow
                      /\ Under(w, i)' = Under(w, i)
    BY <1>2, <2>1 DEF Load, TypeOK, Under
  <2>3. LoadedBy(w)'
    BY <2>1, <2>2 DEF LoadedBy
  <2>4. \A v \in Worker \ {w} : SlotStays(v)
    BY <1>2, OthersStay
  <2>5. QED
    BY <2>1, <2>3, <2>4, StayLoaded DEF LoadedRows
<1>3. ASSUME NEW w \in Worker, Commit(w)
      PROVE  LoadedRows'
  <2>1. \A v \in Worker \ {w} : SlotStays(v)
    BY <1>3, OthersStay
  <2>2. phase'[w] # "loaded"
    BY <1>3 DEF Commit, Free, TypeOK
  <2>3. CASE Clashes(w)
    <3>1. mirror' = mirror /\ \A v \in Worker \ {w} : alone'[v] = alone[v]
      BY <1>3, <2>3 DEF Commit, Free, TypeOK
    <3>2. QED
      BY <2>1, <2>2, <3>1, StayLoaded DEF LoadedRows, LoadedBy
  <2>4. CASE ~Clashes(w)
    <3>1. /\ mirror' = Flushed(w) /\ phase[w] = "loaded"
          /\ \A v \in Worker : alone'[v] = (v = w \/ phase[v] # "loaded")
      BY <1>3, <2>4 DEF Commit
    <3>2. \A i \in Id : mirror[i] # NoRow => mirror'[i] # NoRow
      BY <3>1, FlushedTyped
    <3>3. ASSUME NEW v \in Worker \ {w}
          PROVE  LoadedBy(v)'
      <4>1. phase[v] = "loaded" => alone'[v] = FALSE
        BY <3>1
      <4>2. QED
        BY <2>1, <3>2, <4>1 DEF LoadedRows, LoadedBy, SlotStays
    <3>4. QED
      BY <2>2, <3>3 DEF LoadedRows, LoadedBy
  <2>5. QED
    BY <2>3, <2>4
<1>4. CASE \/ \E f \in Feed : Publish(f)
           \/ \E e \in Entry : Amend(e)
           \/ \E q \in Request : LookUp(q) \/ Insert(q)
           \/ \E k \in Key : LeaseExpires(k)
           \/ ReadFunds \/ ReadBills
           \/ UNCHANGED vars
  <2>1. UNCHANGED slots /\ mirror' = mirror
    BY <1>4 DEF Publish, Amend, LookUp, Insert, LeaseExpires, ReadFunds, ReadBills, vars
  <2>2. QED
    BY <2>1, StayLoaded DEF LoadedRows, SlotStays, slots
<1>5. QED
  BY <1>1, <1>2, <1>3, <1>4 DEF Next

\* Only a commit without a clash takes a slot from its rows to their mirror.
LEMMA CommitSteps ==
  ASSUME TypeOK, [Next]_vars, NEW w \in Worker, phase[w] = "loaded", phase'[w] = "committed"
  PROVE  Commit(w) /\ ~Clashes(w)
<1>1. ASSUME NEW v \in Worker,
             \/ \E k \in Key : Claim(v, k)
             \/ ReadPage(v) \/ CallFails(v) \/ CallTimesOut(v) \/ Load(v)
             \/ Commit(v) \/ MarkSucceeded(v) \/ Crash(v)
      PROVE  Commit(w) /\ ~Clashes(w)
  <2>1. v = w
    BY <1>1, OthersStay DEF SlotStays
  <2>2. ~Free(w)
    BY DEF Free, TypeOK
  <2>3. QED
    BY <1>1, <2>1, <2>2 DEF Claim, ReadPage, CallFails, CallTimesOut, Fail, Load, Commit,
                            MarkSucceeded, Crash
<1>2. CASE \/ \E f \in Feed : Publish(f)
           \/ \E e \in Entry : Amend(e)
           \/ \E q \in Request : LookUp(q) \/ Insert(q)
           \/ \E k \in Key : LeaseExpires(k)
           \/ ReadFunds \/ ReadBills
           \/ UNCHANGED vars
  <2>1. UNCHANGED slots
    BY <1>2 DEF Publish, Amend, LookUp, Insert, LeaseExpires, ReadFunds, ReadBills, vars
  <2>2. QED
    BY <2>1 DEF slots
<1>3. QED
  BY <1>1, <1>2 DEF Next

\* Entries of one row that an import has read are of one feed.
LEMMA OneFeed ==
  ASSUME TypeOK, HasRead, NEW w \in Worker, NEW e \in Entry, NEW d \in Entry,
         e[1] \in {"funds", operation[job[w]].date}, got[w][d] > 0,
         ExternalId(d) = ExternalId(e), ExternalId(e) # NoId
  PROVE  d[1] = e[1]
<1>1. d[1] \in {"funds", operation[job[w]].date}
  BY DEF HasRead, HasReadBy
<1>2. \A x \in Entry : ExternalId(x) # NoId =>
          ExternalId(x) \in IF x[1] = "funds" THEN FundId ELSE BillId
  BY AccountingAssumption DEF ExternalId
<1>3. FundId \cap BillId = {}
  BY AccountingAssumption
<1>4. QED
  BY <1>1, <1>2, <1>3

\* What an import commits under the id of an entry that was listed when it
\* began, and the entry and the version it commits unless another import has
\* committed in between.
LEMMA CommitIsComplete ==
  ASSUME TypeOK, HasRead, ReadSoFar, LoadedRows, NEW w \in Worker, Commit(w), ~Clashes(w),
         NEW e \in Entry, e[1] \in {"funds", operation[job[w]].date}, asOf[w][e] > 0,
         ExternalId(e) # NoId
  PROVE  /\ mirror'[ExternalId(e)] # NoRow
         /\ alone[w] =>
              \E d \in Entry :
                 /\ d[1] = e[1] /\ d[2] >= e[2] /\ ExternalId(d) = ExternalId(e)
                 /\ \E v \in 1..version[d] :
                       v >= asOf[w][d] /\ mirror'[ExternalId(e)] = AsInt(Amounts[d][v])
<1> DEFINE i == ExternalId(e)
           S == Under(w, i)
           l == LastOf(S)
<1>1. phase[w] = "loaded" /\ mirror' = Flushed(w)
  BY DEF Commit
<1>2. i \in Id
  BY AccountingAssumption DEF ExternalId, Id
<1>3. \A d \in Entry : /\ got[w][d] \in Nat /\ asOf[w][d] \in Nat /\ version[d] \in Nat
                       /\ d[2] \in Int
  BY EntryShape, AccountingAssumption DEF TypeOK
<1>4. \A d \in Entry : d[1] = e[1] /\ asOf[w][d] > 0 => asOf[w][d] <= got[w][d]
  BY <1>1 DEF ReadSoFar, ReadBy, Read
<1>5. e \in S
  BY <1>3, <1>4 DEF Under
<1>6. ASSUME NEW d \in S
      PROVE  /\ d \in Entry /\ d[1] = e[1] /\ ExternalId(d) = i
             /\ got[w][d] \in 1..version[d] /\ got[w][d] >= asOf[w][d]
             /\ AmountOf(w, d) \in Int
  <2>1. d \in Entry /\ got[w][d] > 0 /\ ExternalId(d) = i
    BY DEF Under
  <2>2. d[1] = e[1]
    BY <2>1, OneFeed
  <2>3. got[w][d] <= version[d]
    BY <2>1 DEF HasRead, HasReadBy
  <2>4. got[w][d] >= asOf[w][d]
    BY <1>3, <1>4, <2>1, <2>2
  <2>5. AmountOf(w, d) \in Int
    BY <1>2, UnderTyped
  <2> HIDE DEF i, S
  <2>6. QED
    BY <1>3, <2>1, <2>2, <2>3, <2>4, <2>5
<1>7. mirror'[i] = IF \E d \in S : AmountOf(w, d) # base[w][i] THEN AmountOf(w, l) ELSE mirror[i]
  BY <1>1, <1>2 DEF Flushed
<1>8. l \in S /\ e[2] <= l[2]
  BY <1>2, <1>5, UnderTyped
<1>9. /\ base[w][i] # NoRow => mirror[i] # NoRow
      /\ alone[w] => base[w][i] = mirror[i]
  BY <1>1, <1>2, <1>5 DEF LoadedRows, LoadedBy
<1>10. ASSUME NEW d \in S, e[2] <= d[2], mirror'[i] = AmountOf(w, d)
       PROVE  \E c \in Entry :
                 /\ c[1] = e[1] /\ c[2] >= e[2] /\ ExternalId(c) = i
                 /\ \E v \in 1..version[c] :
                       v >= asOf[w][c] /\ mirror'[i] = AsInt(Amounts[c][v])
  <2>1. d \in Entry /\ d[2] >= e[2]
    BY <1>3, <1>6, <1>10
  <2>2. mirror'[i] = AsInt(Amounts[d][got[w][d]])
    BY <1>10 DEF AmountOf
  <2> HIDE DEF i, S
  <2>3. QED
    BY <1>6, <2>1, <2>2
<1>11. NoRow \notin Int
  BY AccountingAssumption
<1> HIDE DEF i, S, l
<1>12. CASE \E d \in S : AmountOf(w, d) # base[w][i]
  <2>1. mirror'[i] = AmountOf(w, l) /\ AmountOf(w, l) \in Int
    BY <1>6, <1>7, <1>8, <1>12
  <2>2. QED
    BY <1>8, <1>10, <1>11, <2>1 DEF i
<1>13. CASE ~ \E d \in S : AmountOf(w, d) # base[w][i]
  <2>1. mirror'[i] = mirror[i] /\ AmountOf(w, e) = base[w][i] /\ AmountOf(w, e) \in Int
    BY <1>5, <1>6, <1>7, <1>13
  <2>2. mirror'[i] # NoRow /\ (alone[w] => mirror'[i] = AmountOf(w, e))
    BY <1>9, <1>11, <2>1
  <2>3. e[2] <= e[2]
    BY <1>3
  <2>4. QED
    BY <1>5, <1>10, <2>2, <2>3 DEF i
<1>14. QED
  BY <1>12, <1>13

\* Pages that show up while a feed is read, other imports, restarts and clashes
\* never make an import commit less than what was listed when it began: of every
\* entry with an id there is a row, and its amount is one of the entry's, or of
\* one behind it with the same id, that is not older.
THEOREM ImportsAreComplete == Spec => ImportIsComplete
<1> DEFINE IInv == TypeOK /\ AtWork /\ HasRead /\ ReadSoFar /\ LoadedRows
<1>1. Init => IInv
  <2> SUFFICES ASSUME Init PROVE ReadSoFar /\ LoadedRows
    BY InitTyped, InitHasRead
  <2>1. \A w \in Worker, e \in Entry : ~(asOf[w][e] > 0)
    BY DEF Init, Nothing
  <2>2. \A w \in Worker : phase[w] # "loaded"
    BY DEF Init
  <2>3. QED
    BY <2>1, <2>2 DEF ReadSoFar, ReadBy, LoadedRows, LoadedBy
<1>2. IInv /\ [Next]_vars => IInv'
  BY StepTyped, StepHasRead, StepReadSoFar, StepLoadedRows
<1>3. IInv /\ [Next]_vars =>
        [\A w \in Worker :
          phase[w] = "loaded" /\ phase'[w] = "committed" =>
              \A e \in Entry :
                  /\ e[1] \in {"funds", operation[job[w]].date}
                  /\ asOf[w][e] > 0
                  /\ ExternalId(e) # NoId
                  => /\ mirror'[ExternalId(e)] # NoRow
                     /\ alone[w] =>
                          \E d \in Entry :
                             /\ d[1] = e[1] /\ d[2] >= e[2] /\ ExternalId(d) = ExternalId(e)
                             /\ \E v \in 1..version[d] :
                                   /\ v >= asOf[w][d]
                                   /\ mirror'[ExternalId(e)] = AsInt(Amounts[d][v])]_vars
  BY CommitSteps, CommitIsComplete
<1>4. QED
  BY <1>1, <1>2, <1>3, PTL DEF Spec, ImportIsComplete

-----------------------------------------------------------------------------
(* Sums over finite sets *)

First(s) == CHOOSE x \in s : TRUE

\* The recursion behind SumFunctionOnSet.
IsSum(g, f, S) ==
    g = [s \in SUBSET S |-> IF s = {} THEN 0 ELSE f[First(s)] + g[s \ {First(s)}]]

SumOf(f, S) == CHOOSE g : IsSum(g, f, S)

LEMMA SumIsFold == \A f, S : SumFunctionOnSet(f, S) = SumOf(f, S)[S]
  BY Zenon DEF SumFunctionOnSet, FoldFunctionOnSet, MapThenFoldSet, SumOf, IsSum, First

LEMMA SumOfNone ==
  ASSUME NEW f, NEW S, NEW g, IsSum(g, f, S)
  PROVE  g[{}] = 0
  BY DEF IsSum

LEMMA SumRecurs ==
  ASSUME NEW f, NEW S, NEW g, IsSum(g, f, S), NEW s, s \subseteq S, s # {}
  PROVE  g[s] = f[First(s)] + g[s \ {First(s)}]
  BY DEF IsSum

LEMMA FirstIsIn == \A s : s # {} => First(s) \in s
  BY DEF First

\* Two such functions agree where both are defined.
LEMMA SumIsUnique ==
  ASSUME NEW f, NEW A, NEW B, IsFiniteSet(A), NEW g, NEW h, IsSum(g, f, A), IsSum(h, f, B)
  PROVE  \A s \in SUBSET (A \cap B) : g[s] = h[s]
<1> DEFINE Good == {s \in SUBSET (A \cap B) : g[s] = h[s]}
<1>1. IsFiniteSet(A \cap B)
  BY FS_Subset
<1>2. ASSUME NEW s \in SUBSET (A \cap B), \A r \in SUBSET s : r # s => r \in Good
      PROVE  s \in Good
  <2>0. s \subseteq A /\ s \subseteq B
    OBVIOUS
  <2>1. CASE s = {}
    <3>1. g[s] = 0
      BY <2>1, SumOfNone
    <3>2. h[s] = 0
      BY <2>1, SumOfNone
    <3>3. QED
      BY <3>1, <3>2
  <2>2. CASE s # {}
    <3>1. s \ {First(s)} \in Good
      BY <1>2, <2>2, FirstIsIn
    <3>2. g[s] = f[First(s)] + g[s \ {First(s)}]
      BY <2>0, <2>2 DEF IsSum
    <3>3. h[s] = f[First(s)] + h[s \ {First(s)}]
      BY <2>0, <2>2 DEF IsSum
    <3>4. QED
      BY <3>1, <3>2, <3>3
  <2>3. QED
    BY <2>1, <2>2
<1>3. \A s \in SUBSET (A \cap B) : s \in Good
  <2> HIDE DEF Good
  <2> QED
    BY <1>1, <1>2, SubsetInduction
<1>4. QED
  BY <1>3

LEMMA SumExists ==
  ASSUME NEW f, NEW S, IsFiniteSet(S)
  PROVE  IsSum(SumOf(f, S), f, S)
<1> DEFINE Good == {s \in SUBSET S : IsSum(SumOf(f, s), f, s)}
<1>1. ASSUME NEW s \in SUBSET S, \A r \in SUBSET s : r # s => r \in Good
      PROVE  s \in Good
  <2> DEFINE part(r) == SumOf(f, r)[r]
             g == [r \in SUBSET s |-> IF r = {} THEN 0 ELSE f[First(r)] + part(r \ {First(r)})]
  <2>1. ASSUME NEW q \in SUBSET s, q # s PROVE g[q] = part(q)
    <3>1. IsSum(SumOf(f, q), f, q) /\ IsFiniteSet(q)
      BY <1>1, <2>1, FS_Subset
    <3>2. CASE q = {}
      BY <3>1, <3>2, SumOfNone
    <3>3. CASE q # {}
      <4> DEFINE p == q \ {First(q)}
      <4>1. p \in SUBSET s /\ p # s /\ p \in SUBSET q
        BY <3>3, FirstIsIn
      <4>2. IsSum(SumOf(f, p), f, p)
        BY <1>1, <4>1
      <4>3. SumOf(f, q)[p] = SumOf(f, p)[p]
        BY <3>1, <4>1, <4>2, SumIsUnique
      <4>4. SumOf(f, q)[q] = f[First(q)] + SumOf(f, q)[p]
        BY <3>1, <3>3, SumRecurs
      <4>5. g[q] = f[First(q)] + part(p)
        BY <3>3
      <4>6. QED
        BY <4>3, <4>4, <4>5
    <3>4. QED
      BY <3>2, <3>3
  <2>2. ASSUME NEW r \in SUBSET s, r # {} PROVE g[r \ {First(r)}] = part(r \ {First(r)})
    <3>1. r \ {First(r)} \in SUBSET s /\ r \ {First(r)} # s
      BY <2>2, FirstIsIn
    <3>2. QED
      BY <2>1, <3>1
  <2>3. g = [r \in SUBSET s |-> IF r = {} THEN 0 ELSE f[First(r)] + g[r \ {First(r)}]]
    <3>1. \A r \in SUBSET s : (IF r = {} THEN 0 ELSE f[First(r)] + part(r \ {First(r)}))
                            = (IF r = {} THEN 0 ELSE f[First(r)] + g[r \ {First(r)}])
      <4> HIDE DEF g, part
      <4> QED
        BY <2>2
    <3>2. QED
      BY <3>1
  <2>4. IsSum(g, f, s)
    BY <2>3 DEF IsSum
  <2> HIDE DEF g
  <2>5. IsSum(SumOf(f, s), f, s)
    BY <2>4 DEF SumOf
  <2>6. QED
    BY <2>5
<1> HIDE DEF Good
<1>2. S \in Good
  BY <1>1, SubsetInduction
<1>3. QED
  BY <1>2 DEF Good

\* The laws of sums.
LEMMA SumOfEmpty == \A f : SumFunctionOnSet(f, {}) = 0
<1> SUFFICES ASSUME NEW f PROVE SumFunctionOnSet(f, {}) = 0
  OBVIOUS
<1>1. SumOf(f, {})[{}] = 0
  BY FS_EmptySet, SumExists, SumOfNone
<1>2. QED
  BY <1>1, SumIsFold

LEMMA SumUnfolds ==
  ASSUME NEW f, NEW S, IsFiniteSet(S), S # {}
  PROVE  SumFunctionOnSet(f, S) = f[First(S)] + SumFunctionOnSet(f, S \ {First(S)})
<1> DEFINE R == S \ {First(S)}
<1>1. IsSum(SumOf(f, S), f, S)
  BY SumExists
<1>2. IsSum(SumOf(f, R), f, R)
  BY FS_Subset, SumExists
<1>3. SumOf(f, S)[S] = f[First(S)] + SumOf(f, S)[R]
  BY <1>1 DEF IsSum
<1>4. SumOf(f, S)[R] = SumOf(f, R)[R]
  BY <1>1, <1>2, SumIsUnique
<1>5. SumFunctionOnSet(f, S) = SumOf(f, S)[S] /\ SumFunctionOnSet(f, R) = SumOf(f, R)[R]
  BY SumIsFold
<1> HIDE DEF R
<1>6. SumFunctionOnSet(f, S) = f[First(S)] + SumFunctionOnSet(f, R)
  BY <1>3, <1>4, <1>5
<1>7. QED
  BY <1>6 DEF R

LEMMA SumIsInt ==
  ASSUME NEW f, NEW S, IsFiniteSet(S), \A x \in S : f[x] \in Int
  PROVE  SumFunctionOnSet(f, S) \in Int
<1> DEFINE Good == {s \in SUBSET S : SumFunctionOnSet(f, s) \in Int}
<1>1. ASSUME NEW s \in SUBSET S, \A r \in SUBSET s : r # s => r \in Good
      PROVE  s \in Good
  <2>1. CASE s = {}
    BY <2>1, SumOfEmpty
  <2>2. CASE s # {}
    <3>1. First(s) \in s /\ f[First(s)] \in Int
      BY <2>2, FirstIsIn
    <3>2. SumFunctionOnSet(f, s \ {First(s)}) \in Int
      BY <1>1, <3>1
    <3>3. IsFiniteSet(s)
      BY FS_Subset
    <3>4. SumFunctionOnSet(f, s) = f[First(s)] + SumFunctionOnSet(f, s \ {First(s)})
      BY <2>2, <3>3, SumUnfolds
    <3>5. QED
      BY <3>1, <3>2, <3>4
  <2>3. QED
    BY <2>1, <2>2
<1> HIDE DEF Good
<1>2. S \in Good
  BY <1>1, SubsetInduction
<1>3. QED
  BY <1>2 DEF Good

\* A sum may begin with any of its elements.
LEMMA SumWithout ==
  ASSUME NEW f, NEW S, IsFiniteSet(S), \A x \in S : f[x] \in Int, NEW e \in S
  PROVE  SumFunctionOnSet(f, S) = f[e] + SumFunctionOnSet(f, S \ {e})
<1> DEFINE Sum(s) == SumFunctionOnSet(f, s)
<1> DEFINE Good == {s \in SUBSET S : \A x \in s : Sum(s) = f[x] + Sum(s \ {x})}
<1>0. \A s \in SUBSET S : Sum(s) \in Int
  BY FS_Subset, SumIsInt
<1>1. \A s \in SUBSET S : s # {} => Sum(s) = f[First(s)] + Sum(s \ {First(s)})
  BY FS_Subset, SumUnfolds
<1> HIDE DEF Sum
<1>2. ASSUME NEW s \in SUBSET S, \A r \in SUBSET s : r # s => r \in Good
      PROVE  s \in Good
  <2> SUFFICES ASSUME NEW x \in s PROVE Sum(s) = f[x] + Sum(s \ {x})
    OBVIOUS
  <2> DEFINE y == First(s)
  <2>1. y \in s /\ Sum(s) = f[y] + Sum(s \ {y})
    BY <1>1, FirstIsIn
  <2>2. CASE x = y
    BY <2>1, <2>2
  <2>3. CASE x # y
    <3> HIDE DEF y
    <3> DEFINE rest == s \ {x, y}
    <3>1. s \ {y} \in Good /\ s \ {x} \in Good
      BY <1>2, <2>1
    <3>2. (s \ {y}) \ {x} = rest /\ (s \ {x}) \ {y} = rest
      OBVIOUS
    <3>3. Sum(s \ {y}) = f[x] + Sum(rest) /\ Sum(s \ {x}) = f[y] + Sum(rest)
      <4>1. x \in s \ {y} /\ y \in s \ {x}
        BY <2>1, <2>3
      <4>2. QED
        BY <3>1, <3>2, <4>1
    <3>4. f[x] \in Int /\ f[y] \in Int /\ Sum(rest) \in Int
      BY <1>0, <2>1
    <3> HIDE DEF rest
    <3>5. QED
      BY <2>1, <3>3, <3>4
  <2>4. QED
    BY <2>2, <2>3
<1> HIDE DEF Good
<1>3. S \in Good
  BY <1>2, SubsetInduction
<1>4. QED
  BY <1>3 DEF Good, Sum

LEMMA SumOfUnion ==
  ASSUME NEW f, NEW A, IsFiniteSet(A), NEW B, IsFiniteSet(B), A \cap B = {},
         \A x \in A \cup B : f[x] \in Int
  PROVE  SumFunctionOnSet(f, A \cup B) = SumFunctionOnSet(f, A) + SumFunctionOnSet(f, B)
<1> DEFINE Sum(s) == SumFunctionOnSet(f, s)
<1> DEFINE Good == {s \in SUBSET B : Sum(A \cup s) = Sum(A) + Sum(s)}
<1>0. \A s \in SUBSET (A \cup B) : IsFiniteSet(s) /\ Sum(s) \in Int
  <2>1. IsFiniteSet(A \cup B)
    BY FS_Union
  <2>2. QED
    BY <2>1, FS_Subset, SumIsInt
<1>1. ASSUME NEW s \in SUBSET (A \cup B), NEW x \in s
      PROVE  Sum(s) = f[x] + Sum(s \ {x})
  <2>1. IsFiniteSet(s) /\ \A y \in s : f[y] \in Int
    BY <1>0
  <2>2. QED
    BY <2>1, SumWithout
<1>2. Sum({}) = 0
  BY SumOfEmpty
<1> HIDE DEF Sum
<1>3. ASSUME NEW s \in SUBSET B, \A r \in SUBSET s : r # s => r \in Good
      PROVE  s \in Good
  <2>1. CASE s = {}
    BY <1>0, <1>2, <2>1
  <2>2. CASE s # {}
    <3> DEFINE x == First(s)
               r == s \ {x}
    <3>1. x \in s
      BY <2>2, FirstIsIn
    <3> HIDE DEF x
    <3>2. Sum(A \cup r) = Sum(A) + Sum(r)
      BY <1>3, <3>1
    <3>3. Sum(s) = f[x] + Sum(r)
      BY <1>1, <3>1
    <3>4. Sum(A \cup s) = f[x] + Sum(A \cup r)
      <4>1. (A \cup s) \ {x} = A \cup r
        BY <3>1
      <4>2. QED
        BY <1>1, <3>1, <4>1
    <3>5. f[x] \in Int /\ Sum(A) \in Int /\ Sum(r) \in Int
      BY <1>0, <3>1
    <3> HIDE DEF r
    <3>6. QED
      BY <3>2, <3>3, <3>4, <3>5
  <2>3. QED
    BY <2>1, <2>2
<1> HIDE DEF Good
<1>4. B \in Good
  BY <1>3, SubsetInduction
<1>5. QED
  BY <1>4 DEF Good, Sum

LEMMA SumOfZeros ==
  ASSUME NEW f, NEW S, IsFiniteSet(S), \A x \in S : f[x] = 0
  PROVE  SumFunctionOnSet(f, S) = 0
<1> DEFINE Good == {s \in SUBSET S : SumFunctionOnSet(f, s) = 0}
<1>1. ASSUME NEW s \in SUBSET S, \A r \in SUBSET s : r # s => r \in Good
      PROVE  s \in Good
  <2>1. CASE s = {}
    BY <2>1, SumOfEmpty
  <2>2. CASE s # {}
    <3>1. First(s) \in s /\ f[First(s)] = 0
      BY <2>2, FirstIsIn
    <3>2. SumFunctionOnSet(f, s \ {First(s)}) = 0
      BY <1>1, <3>1
    <3>3. IsFiniteSet(s)
      BY FS_Subset
    <3>4. SumFunctionOnSet(f, s) = f[First(s)] + SumFunctionOnSet(f, s \ {First(s)})
      BY <2>2, <3>3, SumUnfolds
    <3>5. QED
      BY <3>1, <3>2, <3>4
  <2>3. QED
    BY <2>1, <2>2
<1> HIDE DEF Good
<1>2. S \in Good
  BY <1>1, SubsetInduction
<1>3. QED
  BY <1>2 DEF Good

-----------------------------------------------------------------------------
(* The reconciliation *)

RowsIn(r) == {i \in Id : r[i] # NoRow}

\* Rows that a query may return: finitely many, of numbers.
AreRows(r) == r \in [Id -> Int \cup {NoRow}] /\ IsFiniteSet(RowsIn(r))

\* Until the second query of a reconciliation has returned, the rows of the
\* first are there, and as they were if no import has committed since.
ReadTwice ==
    /\ AreRows(mirror) /\ AreRows(began)
    /\ reading => \A i \in Id : began[i] # NoRow => mirror[i] # NoRow
    /\ reading /\ ~torn => began = mirror

LEMMA NoRowsAreRows == AreRows(NoRows)
<1>1. RowsIn(NoRows) = {}
  BY DEF RowsIn, NoRows
<1>2. QED
  BY <1>1, NothingTyped, FS_EmptySet DEF AreRows

\* An import that commits adds finitely many rows.
LEMMA FlushedAreRows ==
  ASSUME TypeOK, HasRead, AreRows(mirror), NEW w \in Worker, mirror' = Flushed(w)
  PROVE  AreRows(mirror')
<1> DEFINE R == ReadIn(w)
           T == {ExternalId(e) : e \in R}
           f == [e \in R |-> ExternalId(e)]
<1>1. IsFiniteSet(R)
  BY DEF HasRead, HasReadBy
<1>2. f \in Surjection(R, T)
  BY DEF Surjection
<1>3. IsFiniteSet(T)
  BY <1>1, <1>2, FS_Surjection
<1>4. IsFiniteSet(RowsIn(mirror) \cup T)
  BY <1>3, FS_Union DEF AreRows
<1>5. RowsIn(mirror') \subseteq RowsIn(mirror) \cup T
  <2> SUFFICES ASSUME NEW i \in Id, mirror'[i] # NoRow, mirror[i] = NoRow PROVE i \in T
    BY DEF RowsIn
  <2>1. mirror'[i] = IF \E e \in Under(w, i) : AmountOf(w, e) # base[w][i]
                     THEN AmountOf(w, LastOf(Under(w, i))) ELSE mirror[i]
    BY DEF Flushed
  <2>2. PICK e \in Under(w, i) : TRUE
    BY <2>1
  <2>3. e \in R /\ ExternalId(e) = i
    BY DEF Under, ReadIn
  <2>4. QED
    BY <2>3
<1> HIDE DEF T
<1>6. QED
  BY <1>4, <1>5, FlushedTyped, FS_Subset DEF AreRows

LEMMA StepReadTwice ==
  ASSUME TypeOK, HasRead, ReadTwice, [Next]_vars
  PROVE  ReadTwice'
<1>1. CASE UNCHANGED <<mirror, reader>>
  BY <1>1 DEF ReadTwice, AreRows, RowsIn, reader
<1>2. CASE ReadFunds
  BY <1>2 DEF ReadFunds, ReadTwice, AreRows, RowsIn
<1>3. CASE ReadBills
  BY <1>3, NoRowsAreRows DEF ReadBills, ReadTwice, AreRows, RowsIn
<1>4. ASSUME NEW w \in Worker, Commit(w), ~Clashes(w)
      PROVE  ReadTwice'
  <2>1. mirror' = Flushed(w) /\ torn' = reading /\ UNCHANGED <<reading, began>>
    BY <1>4 DEF Commit
  <2>2. AreRows(mirror')
    BY <2>1, FlushedAreRows DEF ReadTwice
  <2>3. \A i \in Id : mirror[i] # NoRow => mirror'[i] # NoRow
    BY <2>1, FlushedTyped
  <2>4. AreRows(began)'
    BY <2>1 DEF ReadTwice, AreRows, RowsIn
  <2>5. AreRows(mirror)'
    BY <2>2 DEF AreRows, RowsIn
  <2>6. QED
    BY <2>1, <2>3, <2>4, <2>5 DEF ReadTwice
<1>5. ASSUME NEW w \in Worker, Commit(w), Clashes(w)
      PROVE  UNCHANGED <<mirror, reader>>
  BY <1>5 DEF Commit, reader
<1>6. ASSUME NEW w \in Worker,
             \/ \E k \in Key : Claim(w, k)
             \/ ReadPage(w) \/ CallFails(w) \/ CallTimesOut(w) \/ Load(w)
             \/ MarkSucceeded(w) \/ Crash(w)
      PROVE  UNCHANGED <<mirror, reader>>
  BY <1>6 DEF Claim, ReadPage, CallFails, CallTimesOut, Load, MarkSucceeded, Crash
<1>7. CASE \/ \E f \in Feed : Publish(f)
           \/ \E e \in Entry : Amend(e)
           \/ \E q \in Request : LookUp(q) \/ Insert(q)
           \/ \E k \in Key : LeaseExpires(k)
           \/ UNCHANGED vars
  BY <1>1, <1>7 DEF Publish, Amend, LookUp, Insert, LeaseExpires, vars
<1>8. QED
  BY <1>1, <1>2, <1>3, <1>4, <1>5, <1>6, <1>7 DEF Next

\* Rows of several orders are those of one and those of the others.
LEMMA OrdersSplit ==
  ASSUME NEW S, NEW M, NEW o \in M
  PROVE  /\ OfOrders(S, M) = OfOrders(S, M \ {o}) \cup OfOrder(S, o)
         /\ OfOrders(S, M \ {o}) \cap OfOrder(S, o) = {}
  BY DEF OfOrder, OfOrders

LEMMA RowsAreFinite ==
  ASSUME NEW r, AreRows(r), NEW S, S \subseteq RowsIn(r)
  PROVE  /\ IsFiniteSet(S)
         /\ \A i \in S : r[i] \in Int
         /\ Total(r, S) \in Int
<1>1. IsFiniteSet(S)
  BY FS_Subset DEF AreRows
<1>2. \A i \in S : r[i] \in Int
  BY DEF AreRows, RowsIn
<1>3. QED
  BY <1>1, <1>2, SumIsInt DEF Total

\* The total of several orders is that of one and that of the others.
LEMMA TotalSplits ==
  ASSUME NEW r, AreRows(r), NEW S, S \subseteq RowsIn(r), NEW M, NEW o \in M
  PROVE  Total(r, OfOrders(S, M)) = Total(r, OfOrders(S, M \ {o})) + Total(r, OfOrder(S, o))
<1> DEFINE A == OfOrders(S, M \ {o})
           B == OfOrder(S, o)
<1>1. A \subseteq RowsIn(r) /\ B \subseteq RowsIn(r)
  BY DEF OfOrder, OfOrders
<1>2. IsFiniteSet(A) /\ \A i \in A : r[i] \in Int
  BY <1>1, RowsAreFinite
<1>3. IsFiniteSet(B) /\ \A i \in B : r[i] \in Int
  BY <1>1, RowsAreFinite
<1>4. OfOrders(S, M) = A \cup B /\ A \cap B = {}
  BY OrdersSplit
<1> HIDE DEF A, B
<1>5. SumFunctionOnSet(r, A \cup B) = SumFunctionOnSet(r, A) + SumFunctionOnSet(r, B)
  BY <1>2, <1>3, <1>4, SumOfUnion
<1>6. QED
  BY <1>4, <1>5 DEF Total, A, B

LEMMA SidesAreRows ==
  ASSUME NEW r
  PROVE  /\ Funds(r) \subseteq RowsIn(r) /\ Bills(r) \subseteq RowsIn(r)
         /\ \A O : /\ OfOrders(Funds(r), O) \subseteq RowsIn(r)
                   /\ OfOrders(Bills(r), O) \subseteq RowsIn(r)
  BY DEF Funds, Bills, RowsIn, OfOrders, Id

LEMMA OrdersAreFinite ==
  ASSUME NEW S, IsFiniteSet(S)
  PROVE  IsFiniteSet(Orders(S))
<1> DEFINE f == [e \in S |-> OrderOf[e]]
           T == {OrderOf[e] : e \in S}
<1>1. f \in Surjection(S, T)
  BY DEF Surjection
<1>2. IsFiniteSet(T)
  BY <1>1, FS_Surjection
<1>3. QED
  BY <1>2, FS_Subset DEF Orders

LEMMA DifferenceIsInt ==
  ASSUME NEW r, AreRows(r), NEW o
  PROVE  Difference(r, o) \in Int
<1>1. Total(r, OfOrder(Funds(r), o)) \in Int
  BY RowsAreFinite, SidesAreRows DEF OfOrder
<1>2. Total(r, OfOrder(Bills(r), o)) \in Int
  BY RowsAreFinite, SidesAreRows DEF OfOrder
<1>3. QED
  BY <1>1, <1>2 DEF Difference

\* Differences of orders add up to the difference of their totals.
LEMMA DifferencesAddUp ==
  ASSUME NEW r, AreRows(r), NEW L, IsFiniteSet(L),
         NEW D, D = [o \in L |-> Difference(r, o)]
  PROVE  SumFunctionOnSet(D, L)
            = Total(r, OfOrders(Funds(r), L)) - Total(r, OfOrders(Bills(r), L))
<1> DEFINE F(M) == Total(r, OfOrders(Funds(r), M))
           B(M) == Total(r, OfOrders(Bills(r), M))
           Good == {M \in SUBSET L : SumFunctionOnSet(D, M) = F(M) - B(M)}
<1>1. ASSUME NEW M \in SUBSET L, \A R \in SUBSET M : R # M => R \in Good
      PROVE  M \in Good
  <2>1. CASE M = {}
    <3>1. OfOrders(Funds(r), M) = {} /\ OfOrders(Bills(r), M) = {}
      BY <2>1 DEF OfOrders
    <3>2. QED
      BY <2>1, <3>1, SumOfEmpty DEF Total
  <2>2. CASE M # {}
    <3> DEFINE o == First(M)
               R == M \ {o}
               fo == Total(r, OfOrder(Funds(r), o))
               bo == Total(r, OfOrder(Bills(r), o))
    <3>1. o \in M
      BY <2>2, FirstIsIn
    <3>2. IsFiniteSet(M)
      BY FS_Subset
    <3>3. SumFunctionOnSet(D, M) = D[o] + SumFunctionOnSet(D, R)
      BY <2>2, <3>2, SumUnfolds
    <3> HIDE DEF o
    <3>4. SumFunctionOnSet(D, R) = F(R) - B(R)
      BY <1>1, <3>1
    <3>5. F(M) = F(R) + fo
      BY <3>1, TotalSplits, SidesAreRows
    <3>6. B(M) = B(R) + bo
      BY <3>1, TotalSplits, SidesAreRows
    <3>7. D[o] = fo - bo
      BY <3>1 DEF Difference
    <3>8. F(R) \in Int /\ fo \in Int
      BY RowsAreFinite, SidesAreRows DEF OfOrder
    <3>9. B(R) \in Int /\ bo \in Int
      BY RowsAreFinite, SidesAreRows DEF OfOrder
    <3> HIDE DEF R, F, B, fo, bo
    <3>10. SumFunctionOnSet(D, M) = F(M) - B(M)
      BY <3>3, <3>4, <3>5, <3>6, <3>7, <3>8, <3>9
    <3>11. QED
      BY <3>10
  <2>3. QED
    BY <2>1, <2>2
<1> HIDE DEF Good
<1>2. L \in Good
  BY <1>1, SubsetInduction
<1>3. QED
  BY <1>2 DEF Good

\* The net difference is that of the linked rows' totals.
LEMMA NetIsTrue ==
  ASSUME NEW r, AreRows(r)
  PROVE  NetDifference(r) = Total(r, OfOrders(Funds(r), LinkedOrders(r)))
                              - Total(r, OfOrders(Bills(r), LinkedOrders(r)))
<1> DEFINE L == LinkedOrders(r)
           D == [o \in L |-> Difference(r, o)]
           Some == Differences(r)
           Rest == L \ Some
<1>1. IsFiniteSet(L)
  <2>1. IsFiniteSet(Funds(r))
    BY RowsAreFinite, SidesAreRows
  <2>2. IsFiniteSet(Orders(Funds(r)))
    BY <2>1, OrdersAreFinite
  <2>3. QED
    BY <2>2, FS_Subset DEF LinkedOrders
<1>2. \A o \in L : D[o] \in Int
  BY DifferenceIsInt
<1>3. Some \subseteq L /\ \A o \in Rest : D[o] = 0
  BY DEF Differences
<1>4. IsFiniteSet(Some) /\ IsFiniteSet(Rest)
  BY <1>1, <1>3, FS_Subset
<1>5. L = Some \cup Rest /\ Some \cap Rest = {} /\ Rest \subseteq L
  BY <1>3
<1>6. SumFunctionOnSet(D, L) = Total(r, OfOrders(Funds(r), L)) - Total(r, OfOrders(Bills(r), L))
  BY <1>1, DifferencesAddUp
<1>7. NetDifference(r) = SumFunctionOnSet(D, Some)
  BY DEF NetDifference
<1> HIDE DEF D, Some, Rest, L
<1>8. SumFunctionOnSet(D, Rest) = 0
  BY <1>3, <1>4, SumOfZeros
<1>9. SumFunctionOnSet(D, Some \cup Rest) = SumFunctionOnSet(D, Some) + SumFunctionOnSet(D, Rest)
  BY <1>2, <1>4, <1>5, SumOfUnion
<1>10. SumFunctionOnSet(D, Some) \in Int
  BY <1>2, <1>3, <1>4, SumIsInt
<1>11. SumFunctionOnSet(D, L) = NetDifference(r)
  BY <1>5, <1>7, <1>8, <1>9, <1>10
<1>12. QED
  BY <1>6, <1>11 DEF L

\* Without unmatched rows every row is of a linked order.
LEMMA NothingUnmatched ==
  ASSUME NEW r, AreRows(r),
         Unmatched(Funds(r), Bills(r)) = 0, Unmatched(Bills(r), Funds(r)) = 0
  PROVE  /\ OfOrders(Funds(r), LinkedOrders(r)) = Funds(r)
         /\ OfOrders(Bills(r), LinkedOrders(r)) = Bills(r)
<1>1. ASSUME NEW S, NEW T, S \subseteq RowsIn(r), Unmatched(S, T) = 0
      PROVE  \A e \in S : OrderOf[e] # NoOrder /\ OrderOf[e] \in Orders(T)
  <2>1. IsFiniteSet(S)
    BY <1>1, RowsAreFinite
  <2>2. IsFiniteSet(Orderless(S)) /\ IsFiniteSet(Orders(S) \ Orders(T))
    <3>1. Orderless(S) \subseteq S
      BY DEF Orderless, OfOrder, OfOrders
    <3>2. IsFiniteSet(Orders(S))
      BY <2>1, OrdersAreFinite
    <3>3. IsFiniteSet(Orderless(S))
      BY <2>1, <3>1, FS_Subset
    <3>4. QED
      BY <3>2, <3>3, FS_Subset
  <2>3. Cardinality(Orderless(S)) \in Nat
    BY <2>2, FS_CardinalityType
  <2>4. Cardinality(Orders(S) \ Orders(T)) \in Nat
    BY <2>2, FS_CardinalityType
  <2>5. Cardinality(Orderless(S)) = 0 /\ Cardinality(Orders(S) \ Orders(T)) = 0
    BY <1>1, <2>3, <2>4 DEF Unmatched
  <2>6. Orderless(S) = {} /\ Orders(S) \ Orders(T) = {}
    BY <2>2, <2>5, FS_EmptySet
  <2>7. \A e \in S : OrderOf[e] # NoOrder
    BY <2>6 DEF Orderless, OfOrder, OfOrders
  <2>8. \A e \in S : OrderOf[e] \in Orders(S)
    BY <2>7 DEF Orders
  <2>9. QED
    BY <2>6, <2>7, <2>8
<1>2. \A e \in Funds(r) : OrderOf[e] \in Orders(Funds(r)) /\ OrderOf[e] \in Orders(Bills(r))
  <2>1. \A e \in Funds(r) : OrderOf[e] # NoOrder /\ OrderOf[e] \in Orders(Bills(r))
    BY <1>1, SidesAreRows
  <2>2. QED
    BY <2>1 DEF Orders
<1>3. \A e \in Bills(r) : OrderOf[e] \in Orders(Funds(r)) /\ OrderOf[e] \in Orders(Bills(r))
  <2>1. \A e \in Bills(r) : OrderOf[e] # NoOrder /\ OrderOf[e] \in Orders(Funds(r))
    BY <1>1, SidesAreRows
  <2>2. QED
    BY <2>1 DEF Orders
<1>4. QED
  BY <1>2, <1>3 DEF OfOrders, LinkedOrders

\* A report without findings is of rows whose two sides have one total.
LEMMA CleanIsEqual ==
  ASSUME NEW r, AreRows(r), Clean(r)
  PROVE  Total(r, Funds(r)) = Total(r, Bills(r))
<1>1. NetDifference(r) = 0
  BY SumOfEmpty DEF Clean, NetDifference
<1>2. NetDifference(r) = Total(r, Funds(r)) - Total(r, Bills(r))
  BY NetIsTrue, NothingUnmatched DEF Clean
<1>3. Total(r, Funds(r)) \in Int
  BY RowsAreFinite, SidesAreRows
<1>4. Total(r, Bills(r)) \in Int
  BY RowsAreFinite, SidesAreRows
<1>5. QED
  BY <1>1, <1>2, <1>3, <1>4

\* What the two queries have returned are rows, also of mirrors that never were
\* there together.
LEMMA SeenAreRows ==
  ASSUME TypeOK, ReadTwice
  PROVE  AreRows(Seen)
<1>1. Seen \in [Id -> Int \cup {NoRow}]
  BY DEF Seen, TypeOK
<1>2. RowsIn(Seen) \subseteq RowsIn(began) \cup RowsIn(mirror)
  BY DEF RowsIn, Seen
<1>3. IsFiniteSet(RowsIn(began) \cup RowsIn(mirror))
  BY FS_Union DEF ReadTwice, AreRows
<1>4. IsFiniteSet(RowsIn(Seen))
  BY <1>2, <1>3, FS_Subset
<1>5. QED
  BY <1>1, <1>4 DEF AreRows

LEMMA SummaryFromRows ==
  ASSUME TypeOK, ReadTwice, reading
  PROVE  /\ NetDifference(Seen) = Total(Seen, OfOrders(Funds(Seen), LinkedOrders(Seen)))
                                    - Total(Seen, OfOrders(Bills(Seen), LinkedOrders(Seen)))
         /\ ~torn /\ Clean(Seen) => Total(mirror, Funds(mirror)) = Total(mirror, Bills(mirror))
         /\ Orders(Funds(Seen)) \ Orders(Bills(Seen))
               \subseteq Orders(Funds(began)) \ Orders(Bills(began))
<1>1. NetDifference(Seen) = Total(Seen, OfOrders(Funds(Seen), LinkedOrders(Seen)))
                              - Total(Seen, OfOrders(Bills(Seen), LinkedOrders(Seen)))
  BY SeenAreRows, NetIsTrue
<1>2. ASSUME ~torn, Clean(Seen)
      PROVE  Total(mirror, Funds(mirror)) = Total(mirror, Bills(mirror))
  <2>1. began = mirror
    BY <1>2 DEF ReadTwice
  <2>2. Seen = mirror
    BY <2>1 DEF Seen, TypeOK
  <2>3. QED
    BY <1>2, <2>2, SeenAreRows, CleanIsEqual
<1>3. Funds(Seen) = Funds(began)
  BY DEF Funds, Seen, Id
<1>4. Bills(began) \subseteq Bills(Seen)
  <2>1. \A i \in BillId : i \in Id /\ i \notin FundId
    BY AccountingAssumption DEF Id
  <2>2. QED
    BY <2>1 DEF Bills, Seen, ReadTwice
<1>5. Orders(Bills(began)) \subseteq Orders(Bills(Seen))
  BY <1>4 DEF Orders
<1>6. Orders(Funds(Seen)) \ Orders(Bills(Seen))
         \subseteq Orders(Funds(began)) \ Orders(Bills(began))
  BY <1>3, <1>5
<1>7. QED
  BY <1>1, <1>2, <1>6

(***************************************************************************)
(* A reconciliation reads its funds and its bills in two queries           *)
(* (local_life/accounting.py, reconciliation_summary).  Its net difference *)
(* is that of the rows it has read which name an order of both sides; if   *)
(* no import has committed between the two queries, a report without       *)
(* findings says that both sides of the mirror have the same total; and    *)
(* whatever has committed, the orders it counts as the funds' alone were   *)
(* so when it began.                                                       *)
(***************************************************************************)
THEOREM SummariesAreHonest == Spec => SummaryIsHonest
<1> DEFINE IInv == TypeOK /\ AtWork /\ HasRead /\ ReadTwice
<1>1. Init => IInv
  <2> SUFFICES ASSUME Init PROVE ReadTwice
    BY InitTyped, InitHasRead
  <2>1. mirror = NoRows /\ began = NoRows /\ reading = FALSE
    BY DEF Init
  <2>2. QED
    BY <2>1, NoRowsAreRows DEF ReadTwice
<1>2. IInv /\ [Next]_vars => IInv'
  BY StepTyped, StepHasRead, StepReadTwice
<1>3. IInv =>
        [reading /\ ~reading' =>
          /\ NetDifference(Seen) = Total(Seen, OfOrders(Funds(Seen), LinkedOrders(Seen)))
                                     - Total(Seen, OfOrders(Bills(Seen), LinkedOrders(Seen)))
          /\ ~torn /\ Clean(Seen) => Total(mirror, Funds(mirror)) = Total(mirror, Bills(mirror))
          /\ Orders(Funds(Seen)) \ Orders(Bills(Seen))
                \subseteq Orders(Funds(began)) \ Orders(Bills(began))]_vars
  BY SummaryFromRows
<1>4. QED
  BY <1>1, <1>2, <1>3, PTL DEF Spec, SummaryIsHonest
=============================================================================
