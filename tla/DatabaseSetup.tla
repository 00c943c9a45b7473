--------------------------- MODULE DatabaseSetup ---------------------------
(***************************************************************************)
(* InitializePostgres: the two pools are opened and tested, the schema is  *)
(* written through each, missing tables are made and the result is tried   *)
(* with a dummy user.  Any statement may fail.  Every failure panics, and  *)
(* unless it is the pool's own goroutine that does, the deferred Close of  *)
(* a pool waits for the connections taken from it.                         *)
(***************************************************************************)
EXTENDS Naturals

VARIABLES
    step,            \* where InitializePostgres has come to
    held,            \* held[p]: a transaction holds a connection of pool p
    schemaFailed     \* history: a statement of initializeDatabaseSchema failed

setupVars == <<step, held, schemaFailed>>

Pool == {"write", "read"}

(* What follows a step that succeeds; the dummy user's step never does.     *)
After == [test_write   |-> "test_read",    test_read    |-> "begin_write",
          begin_write  |-> "schema_write", schema_write |-> "commit_write",
          commit_write |-> "begin_read",   begin_read   |-> "schema_read",
          schema_read  |-> "commit_read",  commit_read  |-> "tables",
          tables       |-> "ping",         ping         |-> "begin_check"]

PoolOf(s) == IF s \in {"begin_read", "schema_read", "commit_read"} THEN "read" ELSE "write"

SetupInit ==
    /\ step = "not_called"
    /\ held = [p \in Pool |-> FALSE]
    /\ schemaFailed = FALSE

(* definePooledConnections parses and makes the pools; it connects nowhere. *)
OpenPools ==
    /\ step = "not_called"
    /\ step' \in {"test_write", "panicked"}
    /\ UNCHANGED <<held, schemaFailed>>

(* Any step that takes a connection from a pool may have to make it, and    *)
(* AfterConnect prepares the statements on it, in the pool's goroutine: one *)
(* that cannot be prepared panics there, and no deferred call of            *)
(* InitializePostgres runs.                                                 *)
PrepareFails ==
    /\ step \in {"test_write", "test_read", "begin_write", "begin_read", "tables", "ping",
                 "begin_check", "check"}
    /\ step' = "panicked"
    /\ held' = [p \in Pool |-> FALSE]
    /\ UNCHANGED schemaFailed

(* testConnection, check3Tables, createMissingTables and the questions of   *)
(* isDatabaseSetupCorrectly use a connection and give it back.              *)
Ask ==
    /\ step \in {"test_write", "test_read", "tables", "ping"}
    /\ step' \in {After[step], "close_read"}
    /\ UNCHANGED <<held, schemaFailed>>

BeginSchema ==
    /\ step \in {"begin_write", "begin_read"}
    /\ \/ step' = After[step] /\ held' = [held EXCEPT ![PoolOf(step)] = TRUE]
       \/ step' = "close_read" /\ UNCHANGED held
    /\ UNCHANGED schemaFailed

(* The error of Exec is in a variable of the loop, so the deferred function *)
(* sees none and does not roll back.                                        *)
ExecSchema ==
    /\ step \in {"schema_write", "schema_read"}
    /\ \/ step' = After[step] /\ UNCHANGED schemaFailed
       \/ step' = "close_read" /\ schemaFailed' = TRUE
    /\ UNCHANGED held

(* Commit ends the transaction also when it fails. *)
CommitSchema ==
    /\ step \in {"commit_write", "commit_read"}
    /\ step' \in {After[step], "close_read"}
    /\ held' = [held EXCEPT ![PoolOf(step)] = FALSE]
    /\ UNCHANGED schemaFailed

BeginCheck ==
    /\ step = "begin_check"
    /\ \/ step' = "check" /\ held' = [held EXCEPT !["write"] = TRUE]
       \/ step' = "close_read" /\ UNCHANGED held
    /\ UNCHANGED schemaFailed

(* A mutant: no deferred Rollback. *)
CheckFails_NoRollback ==
    /\ step = "check"
    /\ step' = "close_read"
    /\ UNCHANGED <<held, schemaFailed>>

(* The dummy user is inserted in a transaction and looked for through the   *)
(* other pool, which does not see it before a commit that never comes: the  *)
(* insert or the look-up is an error, and the deferred Rollback runs.       *)
CheckFails ==
    /\ step = "check"
    /\ step' = "close_read"
    /\ held' = [held EXCEPT !["write"] = FALSE]
    /\ UNCHANGED schemaFailed

(* The panic runs the deferred calls, the last one first. *)
ClosePool ==
    /\ \/ step = "close_read" /\ ~held["read"] /\ step' = "close_write"
       \/ step = "close_write" /\ ~held["write"] /\ step' = "panicked"
    /\ UNCHANGED <<held, schemaFailed>>

InitializePostgres ==
    \/ PrepareFails \/ Ask \/ BeginSchema \/ ExecSchema \/ CommitSchema
    \/ BeginCheck \/ CheckFails \/ ClosePool
=============================================================================
