------------------------ MODULE ServerProcessProofs ------------------------
(***************************************************************************)
(* Theorems about the server's process and the set-up of its database, for *)
(* any set of browsers.                                                    *)
(***************************************************************************)
EXTENDS ServerProcess, TLAPS

Step == DOMAIN After \cup {"not_called", "begin_check", "check",
                           "close_read", "close_write", "panicked"}

(* The steps in which InitializePostgres can be, without After. *)
LEMMA Steps ==
    /\ Step = {"test_write", "test_read", "begin_write", "schema_write", "commit_write",
               "begin_read", "schema_read", "commit_read", "tables", "ping",
               "not_called", "begin_check", "check", "close_read", "close_write", "panicked"}
    /\ After["test_write"] = "test_read" /\ After["test_read"] = "begin_write"
    /\ After["begin_write"] = "schema_write" /\ After["schema_write"] = "commit_write"
    /\ After["commit_write"] = "begin_read" /\ After["begin_read"] = "schema_read"
    /\ After["schema_read"] = "commit_read" /\ After["commit_read"] = "tables"
    /\ After["tables"] = "ping" /\ After["ping"] = "begin_check"
  BY DEF Step, After

-----------------------------------------------------------------------------
(* The set-up.  Where a connection may be held: between the beginning and   *)
(* the end of the two transactions of the schema and the one of the check,  *)
(* and after a failed statement of the schema.                              *)
SetupTypeOK == step \in Step /\ held \in [Pool -> BOOLEAN] /\ schemaFailed \in BOOLEAN

HeldInv ==
    /\ held["write"] =>
        \/ step \in {"schema_write", "commit_write", "check"}
        \/ schemaFailed /\ step \in {"close_read", "close_write"}
    /\ held["read"] =>
        \/ step \in {"schema_read", "commit_read"}
        \/ schemaFailed /\ step = "close_read"
    /\ schemaFailed => step \in {"close_read", "close_write"} /\ \E p \in Pool : held[p]
    /\ step = "schema_write" => held["write"]
    /\ step = "schema_read" => held["read"]

SetupInv == SetupTypeOK /\ HeldInv

LEMMA SetupStep ==
    ASSUME SetupInv, OpenPools \/ InitializePostgres
    PROVE  SetupInv'
  <1> USE DEF Pool
  <1>0. /\ held["write"] \in BOOLEAN /\ held["read"] \in BOOLEAN
        /\ \A p \in Pool, b \in BOOLEAN :
              /\ [held EXCEPT ![p] = b] \in [Pool -> BOOLEAN]
              /\ [held EXCEPT ![p] = b][p] = b
              /\ \A q \in Pool \ {p} : [held EXCEPT ![p] = b][q] = held[q]
    BY DEF SetupInv, SetupTypeOK
  <1>1. CASE OpenPools
    BY <1>1, Steps DEF OpenPools, SetupInv, SetupTypeOK, HeldInv
  <1>9. CASE PrepareFails
    BY <1>9, Steps DEF PrepareFails, SetupInv, SetupTypeOK, HeldInv
  <1>2. CASE Ask
    BY <1>2, Steps DEF Ask, SetupInv, SetupTypeOK, HeldInv
  <1>3. CASE BeginSchema
    <2>1. ASSUME step' = "close_read", UNCHANGED held
          PROVE  SetupInv'
      BY <1>3, <2>1, Steps DEF BeginSchema, SetupInv, SetupTypeOK, HeldInv
    <2>2. ASSUME step = "begin_write", step' = "schema_write", held' = [held EXCEPT !["write"] = TRUE]
          PROVE  SetupInv'
      BY <1>0, <1>3, <2>2, Steps DEF BeginSchema, SetupInv, SetupTypeOK, HeldInv
    <2>3. ASSUME step = "begin_read", step' = "schema_read", held' = [held EXCEPT !["read"] = TRUE]
          PROVE  SetupInv'
      BY <1>0, <1>3, <2>3, Steps DEF BeginSchema, SetupInv, SetupTypeOK, HeldInv
    <2> QED
      BY <1>3, <2>1, <2>2, <2>3, Steps DEF BeginSchema, PoolOf
  <1>4. CASE ExecSchema
    <2>1. /\ held' = held /\ step \in {"schema_write", "schema_read"} /\ ~schemaFailed
          /\ step = "schema_write" => held["write"] /\ ~held["read"]
          /\ step = "schema_read" => held["read"] /\ ~held["write"]
      BY <1>4 DEF ExecSchema, SetupInv, HeldInv
    <2>2. ASSUME step' = After[step], UNCHANGED schemaFailed
          PROVE  SetupInv'
      BY <2>1, <2>2, Steps DEF SetupInv, SetupTypeOK, HeldInv
    <2>3. ASSUME step' = "close_read", schemaFailed' = TRUE
          PROVE  SetupInv'
      <3>1. \E p \in Pool : held[p]
        BY <2>1
      <3>2. held["write"]' => step' \in {"close_read", "close_write"}
        BY <2>3
      <3> QED
        BY <2>1, <2>3, <3>1, <3>2, Steps DEF SetupInv, SetupTypeOK, HeldInv
    <2> QED BY <1>4, <2>2, <2>3 DEF ExecSchema
  <1>5. CASE CommitSchema
    BY <1>0, <1>5, Steps DEF CommitSchema, PoolOf, SetupInv, SetupTypeOK, HeldInv
  <1>6. CASE BeginCheck
    BY <1>0, <1>6, Steps DEF BeginCheck, SetupInv, SetupTypeOK, HeldInv
  <1>7. CASE CheckFails
    BY <1>0, <1>7, Steps DEF CheckFails, SetupInv, SetupTypeOK, HeldInv
  <1>8. CASE ClosePool
    BY <1>8, Steps DEF ClosePool, SetupInv, SetupTypeOK, HeldInv
  <1> QED
    BY <1>1, <1>2, <1>3, <1>4, <1>5, <1>6, <1>7, <1>8, <1>9 DEF InitializePostgres

-----------------------------------------------------------------------------
(* The process *)

IInv == TypeOK /\ SetupInv

LEMMA InitIInv == Init => IInv
  <1> SUFFICES ASSUME Init PROVE IInv
    OBVIOUS
  <1>1. TypeOK
    BY Steps DEF Init, SetupInit, TypeOK, Step
  <1>2. SetupInv
    BY Steps DEF Init, SetupInit, SetupInv, SetupTypeOK, HeldInv, Pool
  <1> QED BY <1>1, <1>2 DEF IInv

LEMMA NextIInv == IInv /\ [Next]_vars => IInv'
  <1> SUFFICES ASSUME IInv, [Next]_vars PROVE IInv'
    OBVIOUS
  <1> USE DEF IInv
  <1>0. ASSUME UNCHANGED <<setupVars, serverVars>>,
               /\ socket' \in [Clients -> {"connecting", "open", "closed"}]
               /\ timer' \in [Clients -> {0, 3, 6, 12, 24, maxReconnectInterval}]
               /\ reconnectInterval' \in [Clients -> {3, 6, 12, 24, maxReconnectInterval}]
        PROVE  IInv'
    BY <1>0 DEF TypeOK, SetupInv, SetupTypeOK, HeldInv, setupVars, serverVars
  <1>1. ASSUME Listen \/ Interrupt \/ ServeFails \/ LoggerEnds \/ WaitReturns
                 \/ CallShutdownServer \/ ShutdownServer
        PROVE  IInv'
    <2>1. UNCHANGED <<setupVars, clientVars>>
      BY <1>1 DEF Listen, Interrupt, ServeFails, LoggerEnds, WaitReturns, CallShutdownServer,
                  ShutdownServer
    <2>2. SetupInv'
      BY <2>1 DEF SetupInv, SetupTypeOK, HeldInv, setupVars
    <2>3. /\ main' \in {"starting", "waiting", "exited"}
          /\ serve' \in {"idle", "accepting", "failed", "closed"}
          /\ metricsLogger' \in {"idle", "logging", "ended"}
          /\ mainCtxDone' \in BOOLEAN
          /\ stopper' \in {"idle", "waiting", "returned"}
      BY <1>1 DEF Listen, Interrupt, ServeFails, LoggerEnds, WaitReturns, CallShutdownServer,
                  ShutdownServer, TypeOK
    <2>4. TypeOK'
      BY <2>1, <2>3 DEF TypeOK, setupVars, clientVars
    <2> QED BY <2>2, <2>4
  <1>2. CASE SetUpDatabase
    <2>1. OpenPools \/ InitializePostgres
      BY <1>2 DEF SetUpDatabase
    <2>2. SetupInv'
      BY <2>1, SetupStep
    <2>3. /\ UNCHANGED <<serve, metricsLogger, mainCtxDone, stopper, clientVars>>
          /\ main' = IF step' = "panicked" THEN "exited" ELSE main
      BY <1>2 DEF SetUpDatabase
    <2>4. TypeOK'
      BY <2>2, <2>3 DEF TypeOK, SetupInv, SetupTypeOK, Step, clientVars
    <2> QED BY <2>2, <2>4
  <1>3. ASSUME NEW k \in Clients, Opened(k) \/ reconnect(k)
        PROVE  IInv'
    BY <1>0, <1>3 DEF Opened, reconnect, TypeOK, clientVars
  <1>4. ASSUME NEW k \in Clients, Closed(k)
        PROVE  IInv'
    <2>1. reconnectInterval[k] \in {3, 6, 12, 24, 30}
      BY DEF TypeOK, maxReconnectInterval
    <2>2. (IF 2 * reconnectInterval[k] < 30 THEN 2 * reconnectInterval[k] ELSE 30)
              \in {3, 6, 12, 24, 30}
      BY <2>1
    <2> QED
      BY <1>0, <1>4, <2>1, <2>2 DEF Closed, TypeOK, maxReconnectInterval
  <1>5. CASE UNCHANGED vars
    BY <1>0, <1>5 DEF vars, clientVars, TypeOK
  <1> QED
    BY <1>1, <1>2, <1>3, <1>4, <1>5 DEF Next, Process

LEMMA Inductive == Spec => []IInv
  BY InitIInv, NextIInv, PTL DEF Spec

(* Types; the interval between attempts of a browser is one of 3, 6, 12,    *)
(* 24 and 30 seconds, however often it has doubled.                         *)
THEOREM TypeCorrect == Spec => []TypeOK
  <1>1. IInv => TypeOK
    BY DEF IInv
  <1> QED BY <1>1, Inductive, PTL

(* The set-up of the database hangs at the close of its pools if a          *)
(* statement of the schema has failed, and only then.                       *)
THEOREM SetupHangsOnSchema == Spec => []HangsIffSchemaFailed
  <1>1. IInv => HangsIffSchemaFailed
    BY DEF IInv, SetupInv, SetupTypeOK, HeldInv, HangsIffSchemaFailed, Pool
  <1> QED BY <1>1, Inductive, PTL
=============================================================================
