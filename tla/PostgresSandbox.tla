---------------------------- MODULE PostgresSandbox ----------------------------
(***************************************************************************)
(* Replays of SQL against the PostgreSQL fixture                           *)
(* (adapters/postgres_sandbox.py), as several clients run them while       *)
(* operators of the database change it: the policy check, a fresh          *)
(* connection, a read-only transaction, its limits, the statement and the  *)
(* result, each a step of its own.  A replay may break at any of them.     *)
(*                                                                         *)
(* A statement is given by the flaws the policy finds in it, what it reads *)
(* and what it answers on the reviewed contents; on others, or when it is  *)
(* volatile, it may answer the same or something else.  SELECT * FROM a    *)
(* table is the table itself.                                              *)
(***************************************************************************)
EXTENDS Integers, Sequences, FiniteSets, Scorers

CONSTANTS
    Clients,
    TableOrder,     \* the tables of the fixture, in the order of its fingerprint
    Statements,     \* the texts of the cases and of the target
    FlawsOf,        \* what the policy finds in each
    TablesOf,       \* the tables each reads
    RawOf,          \* what each answers on the reviewed contents
    Writing,        \* would change data although the policy finds no flaw
    Endless,        \* would run for ever
    Volatile,       \* TABLESAMPLE, CAST('now' AS ...), LIMIT without an order: the policy
                    \* admits them, and each replay may answer differently
    MaxColumns, MaxRows, MaxCells

Tables == ToSet(TableOrder)

ASSUME SandboxAssumption ==
    /\ TableOrder \in Seq(Tables)
    /\ Tables \cap Statements = {}
    /\ Writing \cup Endless \cup Volatile \subseteq Statements
    /\ \A s \in Statements : TablesOf[s] \subseteq Tables

Reviewed == 0
Changed == 1

VARIABLES
    database,   \* the contents of each table
    replay      \* of each client, the execution it waits for

sandboxVars == <<database, replay>>

Failure(code) == [error |-> code, columns |-> <<>>, rows |-> <<>>]
Result(columns, rows) == [error |-> "none", columns |-> columns, rows |-> rows]

(***************************************************************************)
(* Results                                                                 *)
(***************************************************************************)

\* A database value: its type, its content and whether JSON can hold it exactly.
Cell(type, value, exact) == [type |-> type, value |-> value, exact |-> exact]

\* normalize_postgres_value for a value that JSON can hold: the numeric types
\* coincide, and so do text, times and identifiers.
Normalized(cell) ==
    [type |-> IF cell.type \in {"int", "float", "decimal"} THEN "number"
              ELSE IF cell.type \in {"text", "date", "time", "datetime", "uuid"} THEN "text"
              ELSE cell.type,
     value |-> cell.value]

Distinct(columns) == Cardinality(ToSet(columns)) = Len(columns)

\* _read_result: the first limit that is exceeded is reported.
ReadResult(raw) ==
    IF Len(raw.columns) > MaxColumns \/ ~Distinct(raw.columns)
    THEN Failure("invalid_result_shape")
    ELSE IF Len(raw.rows) > MaxRows THEN Failure("row_limit_exceeded")
    ELSE IF Len(raw.rows) * Len(raw.columns) > MaxCells THEN Failure("cell_limit_exceeded")
    ELSE IF \E i \in DOMAIN raw.rows : \E j \in DOMAIN raw.rows[i] : ~raw.rows[i][j].exact
    THEN Failure("unsupported_value")
    ELSE Result(raw.columns,
                [i \in DOMAIN raw.rows |->
                    [j \in DOMAIN raw.rows[i] |-> Normalized(raw.rows[i][j])]])

Gone(s) == [columns |-> RawOf[s].columns, rows |-> <<>>]

Content(value) == [columns |-> <<"content">>, rows |-> <<<<Cell("int", value, TRUE)>>>>]

\* What a statement may return on the present contents.
Answers(s) ==
    IF s \in Tables THEN {Content(database[s])}
    ELSE IF s \notin Volatile /\ \A t \in TablesOf[s] : database[t] = Reviewed THEN {RawOf[s]}
    ELSE {RawOf[s], Gone(s)}

(***************************************************************************)
(* PsycopgPostgresExecutor.execute                                         *)
(***************************************************************************)

Idle ==
    [step |-> "idle", sql |-> "none", readonly |-> FALSE, bounded |-> FALSE,
     result |-> Failure("none")]

Flaws(s) == IF s \in Tables THEN {} ELSE FlawsOf[s]

Allowed(s) == Policy(Flaws(s)).allowed

At(c, step) == replay[c].step = step

Done(c, result) ==
    replay' = [replay EXCEPT ![c] = [Idle EXCEPT !.step = "done", !.sql = replay[c].sql,
                                                 !.result = result]]

\* The call; the policy is asked before anything else.
Execute(c, s) ==
    /\ At(c, "idle")
    /\ replay' = [replay EXCEPT ![c] =
                     IF Allowed(s) THEN [Idle EXCEPT !.step = "open", !.sql = s]
                     ELSE [Idle EXCEPT !.step = "done", !.sql = s,
                                       !.result = Failure("policy_rejected")]]
    /\ UNCHANGED database

\* Mutant: a transaction like any other.
BeginReadWrite(c) ==
    /\ At(c, "open")
    /\ replay' = [replay EXCEPT ![c].step = "query", ![c].bounded = TRUE]
    /\ UNCHANGED database

\* Mutant: the statement timeout is not set.
BeginUnbounded(c) ==
    /\ At(c, "open")
    /\ replay' = [replay EXCEPT ![c].step = "query", ![c].readonly = TRUE]
    /\ UNCHANGED database

\* The connection, BEGIN TRANSACTION READ ONLY, then statement_timeout, lock_timeout,
\* TimeZone and search_path: no other session sees anything of it.
Begin(c) ==
    /\ At(c, "open")
    /\ replay' = [replay EXCEPT ![c].step = "query", ![c].readonly = TRUE, ![c].bounded = TRUE]
    /\ UNCHANGED database

\* The statement itself, its result, the rollback and the close.  What a
\* transaction that is not read-only would write, the rollback takes back.
Query(c) ==
    /\ At(c, "query")
    /\ IF replay[c].sql \in Endless
       THEN replay[c].bounded /\ Done(c, Failure("statement_timeout"))
       ELSE IF replay[c].sql \in Writing /\ replay[c].readonly
       THEN Done(c, Failure("query_failed"))
       ELSE \E raw \in Answers(replay[c].sql) : Done(c, ReadResult(raw))
    /\ UNCHANGED database

\* The server, the network or the driver fails the step that is due: reported as
\* connection_failed or query_failed, which no caller tells apart.
Break(c) ==
    /\ At(c, "open") \/ At(c, "query")
    /\ Done(c, Failure("unavailable"))
    /\ UNCHANGED database

Replay(c) == Begin(c) \/ Query(c)

(***************************************************************************)
(* The owners of the database                                              *)
(***************************************************************************)

ChangeTable(t) ==
    /\ database[t] = Reviewed
    /\ database' = [database EXCEPT ![t] = Changed]
    /\ UNCHANGED replay

\* The fixture is seeded again.
RestoreTable(t) ==
    /\ database[t] = Changed
    /\ database' = [database EXCEPT ![t] = Reviewed]
    /\ UNCHANGED replay

SandboxInit ==
    /\ database \in [Tables -> {Reviewed, Changed}]
    /\ replay = [c \in Clients |-> Idle]
===============================================================================
