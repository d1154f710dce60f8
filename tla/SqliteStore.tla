------------------------------ MODULE SqliteStore ------------------------------
(***************************************************************************)
(* The SQLite store: the migrations every connection runs when it opens    *)
(* the database, each looked up, applied and recorded in separate          *)
(* statements, and the calls of SessionStore on an open connection, each   *)
(* one statement under the connection's mutex.                             *)
(***************************************************************************)
EXTENDS RunDirectory

VARIABLES
    db,      \* the database
    conn,    \* the connections
    clash    \* history: two connections migrated at the same time

sqlVars == <<db, conn, clash>>

\* The columns each migration adds, in order; 1 renames a column of `runs`,
\* 2 creates what tables are missing, 8 alters `runs`.
migrate_parent_task_id == <<"parent_task_id">>
migrate_v04_event_counters == <<"pause_count", "reprompt_count", "approvals_requested", "approvals_approved",
                                "approvals_rejected">>
migrate_task_model == <<"model">>
migrate_failure_reason == <<"failure_reason">>
migrate_final_message == <<"final_message">>
migrate_runs_env == <<"env_json">>
migrate_cost_usd == <<"cost_usd">>
migrate_actor_type == <<"actor_type">>
Migrations == <<<<>>, <<>>, migrate_parent_task_id, migrate_v04_event_counters, migrate_task_model,
                migrate_failure_reason, migrate_final_message, migrate_runs_env, migrate_cost_usd,
                migrate_actor_type>>
Versions == 1..Len(Migrations)
Base_ == {"pitboss_version", "task_id"}
AllColumns == Base_ \cup UNION {{Migrations[v][i] : i \in 1..Len(Migrations[v])} : v \in Versions}

NoDb == [tables |-> FALSE, cols |-> {}, versions |-> {}, rows |-> <<>>, run |-> "none",
         interrupted |-> FALSE, total |-> 0, failed |-> 0]
Closed == [at |-> "closed", v |-> 1, todo |-> <<>>]

InitSqlite ==
    /\ db = menu.db
    /\ conn = [c \in menu.conns |-> Closed]
    /\ clash = FALSE

Migrating(c) == conn[c].at \in {"check", "rename", "create", "look", "alter", "record"}
Set(c, at) == conn' = [conn EXCEPT ![c].at = at]
Left(c) == Tail(conn[c].todo)
Took(c) == conn' = [conn EXCEPT ![c].todo = Left(c), ![c].at = IF Left(c) = <<>> THEN "record" ELSE "look"]

NewSqlite(c) ==
    /\ conn[c].at = "closed"
    /\ conn' = [conn EXCEPT ![c] = [at |-> "check", v |-> 1, todo |-> <<>>]]
    /\ clash' = (clash \/ \E d \in menu.conns \ {c} : Migrating(d))
    /\ UNCHANGED db

run_migrations(c) ==
    /\ conn[c].at = "check"
    /\ LET v == conn[c].v
           how == CASE v = 1 -> "rename" [] v = 2 -> "create" [] OTHER -> "look"
       IN  IF v \notin Versions THEN Set(c, "open")
           ELSE IF v \in db.versions THEN conn' = [conn EXCEPT ![c].v = v + 1]
           ELSE conn' = [conn EXCEPT ![c].at = how, ![c].todo = Migrations[v]]
    /\ UNCHANGED <<db, clash>>

\* A database of the old name has its column renamed; a new one has no tables.
migrate_rename_shire_version_to_pitboss_version(c) ==
    /\ conn[c].at = "rename"
    /\ Set(c, IF db.tables /\ "shire_version" \in db.cols THEN "alter" ELSE "record")
    /\ UNCHANGED <<db, clash>>
RenameColumn(c) ==
    /\ conn[c].at = "alter" /\ conn[c].v = 1
    /\ IF "shire_version" \notin db.cols THEN Set(c, "failed") /\ UNCHANGED db
       ELSE /\ db' = [db EXCEPT !.cols = (@ \ {"shire_version"}) \cup {"pitboss_version"}]
            /\ Set(c, "record")
    /\ UNCHANGED clash

init_schema(c) ==
    /\ conn[c].at = "create"
    /\ db' = IF db.tables THEN db ELSE [db EXCEPT !.tables = TRUE, !.cols = AllColumns]
    /\ Set(c, "record")
    /\ UNCHANGED clash

add_column_if_missing(c) ==
    /\ conn[c].at = "look"
    /\ IF Head(conn[c].todo) \in db.cols THEN Took(c) ELSE Set(c, "alter")
    /\ UNCHANGED <<db, clash>>

\* A column another connection has added meanwhile is an error.
AlterTable(c) ==
    /\ conn[c].at = "alter" /\ conn[c].v # 1
    /\ LET col == Head(conn[c].todo)
       IN  IF col \in db.cols THEN Set(c, "failed") /\ UNCHANGED db
           ELSE Took(c) /\ db' = [db EXCEPT !.cols = @ \cup {col}]
    /\ UNCHANGED clash

\* The version is a primary key: the second to record it fails.
RecordMigration(c) ==
    /\ conn[c].at = "record"
    /\ LET v == conn[c].v
       IN  IF v \in db.versions THEN Set(c, "failed") /\ UNCHANGED db
           ELSE /\ db' = [db EXCEPT !.versions = @ \cup {v}]
                /\ conn' = [conn EXCEPT ![c].v = v + 1, ![c].at = "check"]
    /\ UNCHANGED clash

current_schema_version == IF db.versions = {} THEN 0 ELSE CHOOSE v \in db.versions : \A w \in db.versions : w <= v

\* The process dies, at any point of a migration or after it.
ConnDies(c) ==
    /\ menu.crash /\ conn[c].at \notin {"closed", "dead"}
    /\ Set(c, "dead") /\ UNCHANGED <<db, clash>>
----------------------------------------------------------------------------
(* SessionStore. *)

Open(c) == conn[c].at = "open"

\* INSERT OR REPLACE: a run begun again is unfinished again.
sqlite_init_run(c) ==
    /\ Open(c) /\ db' = [db EXCEPT !.run = "begun", !.interrupted = FALSE, !.total = 0, !.failed = 0]
    /\ UNCHANGED <<conn, clash>>

\* A row has no column for the reason of a termination.
TaskRow(r) == [r EXCEPT !.why = "none"]
Without(rows, t) == SelectSeq(rows, LAMBDA r : r.task # t)
\* The primary key is the run and the task: a later record replaces the
\* earlier one, and moves to the end.
sqlite_append_record(c, r) ==
    /\ Open(c) /\ db' = [db EXCEPT !.rows = Append(Without(@, r.task), TaskRow(r))]
    /\ UNCHANGED <<conn, clash>>

\* Fails on a run that was never begun.
sqlite_finalize_run(c, s) ==
    /\ Open(c) /\ db.run # "none"
    /\ db' = [db EXCEPT !.run = "ended", !.interrupted = s.interrupted, !.total = Len(s.tasks),
                        !.failed = Cardinality({i \in 1..Len(s.tasks) : ~s.tasks[i].ok})]
    /\ UNCHANGED <<conn, clash>>

fetch_task_records == db.rows
iter_runs_blocking == db.run # "none"
\* An unfinished run counts the rows it has and is interrupted.
load_run_blocking ==
    LET ended == db.run = "ended"
    IN  [ok |-> db.run # "none", tasks |-> fetch_task_records, interrupted |-> (ended => db.interrupted),
         total |-> IF ended THEN db.total ELSE Len(db.rows),
         failed |-> IF ended THEN db.failed ELSE Len(SelectSeq(db.rows, LAMBDA r : ~r.ok))]

\* Who opens the database alone is never refused, whatever crashed before; an
\* open store has every column and version.
MigrationsKeep ==
    /\ ~clash => \A c \in menu.conns : conn[c].at # "failed"
    /\ \A c \in menu.conns : Open(c) =>
        AllColumns \subseteq db.cols /\ current_schema_version = Len(Migrations) /\ db.tables
    /\ "shire_version" \in db.cols => "pitboss_version" \notin db.cols
    /\ \A i \in 1..Len(menu.db.rows) : \E j \in 1..Len(db.rows) : db.rows[j].task = menu.db.rows[i].task
================================================================================
