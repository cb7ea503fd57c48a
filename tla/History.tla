------------------------------- MODULE History -------------------------------
(***************************************************************************)
(* The list operations of the repository                                   *)
(* (adapters/control_plane_db.py): pages behind opaque cursors over tables *)
(* that grow while they are walked.  Rows are never deleted.  Their times  *)
(* are set before the transaction that inserts them commits, in part by    *)
(* the clocks of several API processes, so a row may appear anywhere in    *)
(* the order of time.  The status of a job, on which jobs can be filtered, *)
(* changes.                                                                *)
(*                                                                         *)
(* A page is identified with the set of the keys of its items.  A cursor   *)
(* may be used any number of times, by any client and with any query.      *)
(***************************************************************************)
EXTENDS Naturals, FiniteSets

CONSTANTS
    Rows,       \* row identifiers, numbers
    Label,      \* what a row can be filtered on for good: name, dataset, target ...
    Group,      \* the target, or pair of targets, of each row, a number
    All,        \* no filter
    Open,       \* status of a row that may change
    Closed,     \* status of a row that does not
    Streams,    \* the list operations in use
    Limits,     \* page sizes asked for
    Nothing,    \* no key, no answer
    MaxTime,    \* bound: times of rows
    MaxCursors  \* bound: cursors handed out

Labels == {Label[r] : r \in Rows}

ASSUME HistoryAssumption ==
    /\ Rows \subseteq Nat /\ IsFiniteSet(Rows) /\ Group \in [Rows -> Nat]
    /\ Limits \subseteq Nat \ {0} /\ MaxTime \in Nat /\ MaxCursors \in Nat
    /\ {All, Open, Closed} \cap Labels = {}
    /\ All # Open /\ All # Closed /\ Open # Closed
    /\ Nothing \notin Nat \X Nat

VARIABLES
    time,       \* created_at of each row, or 0 before its insert commits
    status,     \* the status of each row
    cursors,    \* the cursors handed out, each with the pages that led to it
    answer      \* the page answered last

historyVars == <<time, status, cursors, answer>>

(***************************************************************************)
(* The operations: what they order by and what they filter on              *)
(***************************************************************************)

Listing(stream, orders, filters) == [stream : {stream}, order : orders, filter : filters]

ListDatasets == Listing("datasets", {"oldest"}, {All} \cup Labels)
ListSuites == Listing("suites", {"oldest"}, {All} \cup Labels)
ListJobs == Listing("jobs", {"oldest"}, {All, Open, Closed} \cup Labels)
ListRuns == Listing("runs", {"oldest"}, {All} \cup Labels)
ListReleaseDecisions == Listing("decisions", {"oldest", "newest"}, {All} \cup Labels)
ListSuiteRuns == Listing("suite-runs", {"newest"}, {All} \cup Labels)
ListSuiteDecisions == Listing("suite-decisions", {"newest"}, {All} \cup Labels)
ListSuiteTargets == Listing("targets", {"identity"}, {All})
ListSuiteTargetPairs == Listing("pairs", {"identity"}, {All})
ListDecisionCases == Listing("cases", {"identity"}, {All} \cup Labels)

Queries ==
    {q \in ListDatasets \cup ListSuites \cup ListJobs \cup ListRuns \cup ListReleaseDecisions
             \cup ListSuiteRuns \cup ListSuiteDecisions \cup ListSuiteTargets
             \cup ListSuiteTargetPairs \cup ListDecisionCases : q.stream \in Streams}

(***************************************************************************)
(* Pages                                                                   *)
(***************************************************************************)

Matches(q, r) == q.filter \in {All, Label[r], status[r]}

Key(q, r) == IF q.order = "identity" THEN <<Group[r], 0>> ELSE <<time[r], r>>

Precedes(a, b) == a[1] < b[1] \/ (a[1] = b[1] /\ a[2] < b[2])

\* a comes before b in the order of the query.
Before(q, a, b) == IF q.order = "newest" THEN Precedes(b, a) ELSE Precedes(a, b)

\* The keys of all items of the query now.
Found(q) == {Key(q, r) : r \in {row \in Rows : time[row] # 0 /\ Matches(q, row)}}

\* Mutant: only the time of the cursor's row is compared.
AfterByTime(q, key) ==
    {k \in Found(q) :
        key = Nothing \/ (Before(q, key, k) /\ (q.order # "identity" => k[1] # key[1]))}

After(q, key) == {k \in Found(q) : key = Nothing \/ Before(q, key, k)}

FirstOf(q, n, keys) == {k \in keys : Cardinality({j \in keys : Before(q, j, k)}) < n}

\* A cursor, which binds its query; seen and lasting are history variables: what the
\* pages before it held, and what the query found from the first page on.
Cursor(q, key, seen, lasting) == [query |-> q, key |-> key, seen |-> seen, lasting |-> lasting]

Begin(q) == Cursor(q, Nothing, {}, Found(q))

\* The row a cursor stands on.
LastOf(q, page, rest) ==
    IF page = rest THEN Nothing
    ELSE CHOOSE k \in page : \A j \in page \ {k} : Before(q, j, k)

\* _decode_cursor
Decodes(q, c) == c.query = q

Fetch(q, c, n) ==
    LET rest == After(q, c.key)
        page == FirstOf(q, n, rest)
    IN  /\ Decodes(q, c)
        /\ answer' = [query |-> q, seen |-> c.seen, lasting |-> c.lasting, page |-> page,
                      more |-> page # rest]
        /\ IF page = rest THEN UNCHANGED cursors
           ELSE /\ Cardinality(cursors) < MaxCursors
                /\ cursors' = cursors \cup
                      {Cursor(q, LastOf(q, page, rest), c.seen \cup page, c.lasting)}
        /\ UNCHANGED <<time, status>>

(***************************************************************************)
(* The tables                                                              *)
(***************************************************************************)

\* The transaction that inserts a row commits.
Insert(r, t) ==
    /\ time[r] = 0
    /\ time' = [time EXCEPT ![r] = t]
    /\ UNCHANGED <<status, cursors, answer>>

\* A job ends.  A walk through open jobs need not return it any more.
Close(r) ==
    /\ time[r] # 0 /\ status[r] = Open
    /\ status' = [status EXCEPT ![r] = Closed]
    /\ cursors' = {[c EXCEPT !.lasting =
                        IF c.query.filter = Open THEN @ \ {Key(c.query, r)} ELSE @] : c \in cursors}
    /\ UNCHANGED <<time, answer>>

HistoryInit ==
    /\ time = [r \in Rows |-> 0]
    /\ status = [r \in Rows |-> Open]
    /\ cursors = {} /\ answer = Nothing

HistoryNext ==
    \/ \E q \in Queries, n \in Limits :
          Fetch(q, Begin(q), n) \/ \E c \in cursors : Fetch(q, c, n)
    \/ \E r \in Rows : Close(r) \/ \E t \in 1 .. MaxTime : Insert(r, t)

HistorySpec == HistoryInit /\ [][HistoryNext]_historyVars

(***************************************************************************)
(* Properties                                                              *)
(***************************************************************************)

\* A walk is exact, however the table grows meanwhile.  Its pages follow each other, so
\* no item is returned twice.  It passes over nothing that was there when it began and
\* still belongs to it, and when there are no more pages it has returned all of that:
\* only rows whose insert committed after the walk began may be missing.
WalksAreExact ==
    answer # Nothing =>
        /\ \A k \in answer.page, j \in answer.seen : Before(answer.query, j, k)
        /\ \A k \in answer.lasting :
              \/ k \in answer.seen \cup answer.page
              \/ answer.more /\ \A j \in answer.page : Before(answer.query, j, k)

\* Keys are pairs of numbers.
Keys == Nat \X Nat

\* The variables have their types.
HistoryTypes ==
    /\ time \in [Rows -> Nat]
    /\ status \in [Rows -> {Open, Closed}]
    /\ cursors \subseteq
          [query : Queries, key : Keys, seen : SUBSET Keys, lasting : SUBSET Keys]
    /\ answer \in {Nothing} \cup [query : Queries, seen : SUBSET Keys, lasting : SUBSET Keys,
                               page : SUBSET Keys, more : BOOLEAN]

\* A cursor stands on the last item of the pages before it, and what its walk still owes
\* is behind it.
Placed(c) ==
    /\ \A k \in c.seen : k = c.key \/ Before(c.query, k, c.key)
    /\ \A k \in c.lasting : k \in c.seen \/ Before(c.query, c.key, k)
    /\ c.lasting \subseteq Found(c.query)

\* The inductive invariant.
HistoryInv == HistoryTypes /\ WalksAreExact /\ \A c \in cursors : Placed(c)
=============================================================================
