----------------------------- MODULE RefereePool -----------------------------
(***************************************************************************)
(* The pool of referees of server/gamelogic.go: tasks go through the       *)
(* buffered channel RefTasks to the goroutines of RefRoutine, which look   *)
(* their game up under GamesMutex, run the task's Action on it and persist *)
(* it.  Nothing but the mutex of the map is locked: an Action and          *)
(* PersistGameState read and write the shared *Game in steps of their own, *)
(* and two referees may be at the same game.                               *)
(*                                                                         *)
(* A game is known by its ID and its state is the set of tasks applied to  *)
(* it.  Actions and PersistGameState are given by other code: an Action    *)
(* reads the game and then writes it, or fails; persisting reads the game  *)
(* and then writes the row, or fails.                                      *)
(***************************************************************************)
EXTENDS Naturals, Sequences, FiniteSets

CONSTANTS
    Referees,     \* the goroutines started by NewRefereePool
    Managers,     \* goroutines that call AddGame and RemoveGame
    Games,        \* game IDs
    Tasks,        \* tasks, each submitted once
    GameID,       \* GameID[t]: the game of task t
    Capacity,     \* of the channel: maxGoroutines*2
    NoOne         \* no goroutine, no task, no call

ASSUME PoolAssumption ==
    /\ IsFiniteSet(Referees) /\ Referees # {}
    /\ GameID \in [Tasks -> Games]
    /\ Capacity \in Nat \ {0}
    /\ NoOne \notin Managers \cup Tasks \cup ({"add", "remove"} \X Games)

VARIABLES
    refTasks,     \* the buffer of the channel
    sendq,        \* tasks whose SubmitTask is blocked on the full channel
    outcome,      \* history: "new", "sent", then "dropped" or "done"
    games,        \* the keys of the map Games
    readers,      \* referees that hold GamesMutex for reading
    writer,       \* the manager that holds GamesMutex or waits for its readers
    mpc,          \* managers: "idle", "lock", "drain" (readers), "map"
    call,         \* call[m]: the operation and the game of manager m
    pc,           \* referees
    task,         \* task[r]: the task referee r received last
    seen,         \* seen[r]: the game as r's Action, or its persisting, read it
    state,        \* state[g]: the tasks applied to *Game g
    db,           \* db[g]: the row of game g
    applied,      \* history: tasks whose Action changed its game
    unsaved,      \* history: games whose latest PersistGameState failed
    shared        \* history: games that two referees were at together

vars == <<refTasks, sendq, outcome, games, readers, writer, mpc, call, pc, task,
          seen, state, db, applied, unsaved, shared>>
chanVars == <<refTasks, sendq>>
lockVars == <<readers, writer>>
managerVars == <<mpc, call>>
gameVars == <<state, db, applied, unsaved, shared>>

AtGame(r, g) == pc[r] \in {"read", "write", "load", "store"} /\ GameID[task[r]] = g

Init ==
    /\ refTasks = <<>> /\ sendq = <<>>
    /\ outcome = [t \in Tasks |-> "new"]
    /\ games = {}
    /\ readers = {} /\ writer = NoOne
    /\ mpc = [m \in Managers |-> "idle"]
    /\ call = [m \in Managers |-> NoOne]
    /\ pc = [r \in Referees |-> "range"]
    /\ task = [r \in Referees |-> NoOne]
    /\ seen = [r \in Referees |-> {}]
    /\ state = [g \in Games |-> {}]
    /\ db = [g \in Games |-> {}]
    /\ applied = {} /\ unsaved = {} /\ shared = {}

-----------------------------------------------------------------------------
(* A mutant: a select with a default, so that SubmitTask never waits. *)
SubmitTask_Default(t) ==
    /\ outcome[t] = "new"
    /\ outcome' = [outcome EXCEPT ![t] = "sent"]
    /\ refTasks' = IF Len(refTasks) < Capacity THEN Append(refTasks, t) ELSE refTasks
    /\ UNCHANGED <<sendq, games, lockVars, managerVars, pc, task, seen, gameVars>>

(* SubmitTask: a send that finds the buffer full waits in the channel's queue. *)
SubmitTask(t) ==
    /\ outcome[t] = "new"
    /\ outcome' = [outcome EXCEPT ![t] = "sent"]
    /\ IF Len(refTasks) < Capacity
       THEN refTasks' = Append(refTasks, t) /\ UNCHANGED sendq
       ELSE sendq' = Append(sendq, t) /\ UNCHANGED refTasks
    /\ UNCHANGED <<games, lockVars, managerVars, pc, task, seen, gameVars>>

(* A receive takes the oldest task and lets the sender that waits longest   *)
(* put its own in the buffer.                                               *)
Receive(r) ==
    /\ pc[r] = "range"
    /\ refTasks # <<>>
    /\ task' = [task EXCEPT ![r] = Head(refTasks)]
    /\ pc' = [pc EXCEPT ![r] = "rlock"]
    /\ IF sendq = <<>>
       THEN refTasks' = Tail(refTasks) /\ UNCHANGED sendq
       ELSE refTasks' = Append(Tail(refTasks), Head(sendq)) /\ sendq' = Tail(sendq)
    /\ UNCHANGED <<outcome, games, lockVars, managerVars, seen, gameVars>>

(* A mutant: GamesMutex.RLock() left out. *)
RLock_NoLock(r) ==
    /\ pc[r] = "rlock"
    /\ pc' = [pc EXCEPT ![r] = "lookup"]
    /\ UNCHANGED <<chanVars, outcome, games, lockVars, managerVars, task, seen, gameVars>>

(* GamesMutex.RLock(): a writer that holds the lock or waits for it goes    *)
(* first (its Unlock lets the waiting readers in).                          *)
RLock(r) ==
    /\ pc[r] = "rlock"
    /\ writer = NoOne
    /\ readers' = readers \cup {r}
    /\ pc' = [pc EXCEPT ![r] = "lookup"]
    /\ UNCHANGED <<chanVars, outcome, games, writer, managerVars, task, seen, gameVars>>

(* A mutant: return for continue when the game is not found. *)
Lookup_Return(r) ==
    LET g == GameID[task[r]]
    IN  /\ pc[r] = "lookup"
        /\ readers' = readers \ {r}
        /\ IF g \in games
           THEN pc' = [pc EXCEPT ![r] = "read"] /\ UNCHANGED <<outcome, task>>
           ELSE /\ pc' = [pc EXCEPT ![r] = "returned"]
                /\ outcome' = [outcome EXCEPT ![task[r]] = "dropped"]
                /\ task' = [task EXCEPT ![r] = NoOne]
        /\ UNCHANGED <<chanVars, games, writer, managerVars, seen, gameVars>>

(* The lookup with its RUnlock(): a task of a game that is not in the map   *)
(* is dropped.                                                              *)
Lookup(r) ==
    LET g == GameID[task[r]]
    IN  /\ pc[r] = "lookup"
        /\ readers' = readers \ {r}
        /\ IF g \in games
           THEN /\ pc' = [pc EXCEPT ![r] = "read"]
                /\ shared' = IF \E q \in Referees \ {r} : AtGame(q, g)
                             THEN shared \cup {g} ELSE shared
                /\ UNCHANGED <<outcome, task>>
           ELSE /\ pc' = [pc EXCEPT ![r] = "range"]
                /\ outcome' = [outcome EXCEPT ![task[r]] = "dropped"]
                /\ task' = [task EXCEPT ![r] = NoOne]
                /\ UNCHANGED shared
        /\ UNCHANGED <<chanVars, games, writer, managerVars, seen, state, db, applied, unsaved>>

(* task.Action reads the game ...                                           *)
ActionRead(r) ==
    /\ pc[r] = "read"
    /\ seen' = [seen EXCEPT ![r] = state[GameID[task[r]]]]
    /\ pc' = [pc EXCEPT ![r] = "write"]
    /\ UNCHANGED <<chanVars, outcome, games, lockVars, managerVars, task, gameVars>>

(* ... and writes it, or returns an error (or its ten seconds pass): either *)
(* way the routine goes on to persist.                                      *)
ActionReturns(r) ==
    LET g == GameID[task[r]]
    IN  /\ pc[r] = "write"
        /\ \/ /\ state' = [state EXCEPT ![g] = seen[r] \cup {task[r]}]
              /\ applied' = applied \cup {task[r]}
           \/ UNCHANGED <<state, applied>>
        /\ pc' = [pc EXCEPT ![r] = "load"]
        /\ UNCHANGED <<chanVars, outcome, games, lockVars, managerVars, task, seen,
                       db, unsaved, shared>>

(* A mutant: the game that the Action was given is persisted, not the game  *)
(* as the Action left it.                                                   *)
PersistLoad_Before(r) ==
    /\ pc[r] = "load"
    /\ pc' = [pc EXCEPT ![r] = "store"]
    /\ UNCHANGED <<chanVars, outcome, games, lockVars, managerVars, task, seen, gameVars>>

(* DB.PersistGameState(game); its error is dropped.                         *)
PersistLoad(r) ==
    /\ pc[r] = "load"
    /\ seen' = [seen EXCEPT ![r] = state[GameID[task[r]]]]
    /\ pc' = [pc EXCEPT ![r] = "store"]
    /\ UNCHANGED <<chanVars, outcome, games, lockVars, managerVars, task, gameVars>>

PersistStore(r) ==
    LET g == GameID[task[r]]
    IN  /\ pc[r] = "store"
        /\ \/ db' = [db EXCEPT ![g] = seen[r]] /\ unsaved' = unsaved \ {g}
           \/ unsaved' = unsaved \cup {g} /\ UNCHANGED db
        /\ outcome' = [outcome EXCEPT ![task[r]] = "done"]
        /\ pc' = [pc EXCEPT ![r] = "range"]
        /\ task' = [task EXCEPT ![r] = NoOne]
        /\ seen' = [seen EXCEPT ![r] = {}]
        /\ UNCHANGED <<chanVars, games, lockVars, managerVars, state, applied, shared>>

RefRoutine(r) ==
    \/ Receive(r) \/ RLock(r) \/ Lookup(r)
    \/ ActionRead(r) \/ ActionReturns(r) \/ PersistLoad(r) \/ PersistStore(r)

-----------------------------------------------------------------------------
(* AddGame and RemoveGame *)
Call(m, op, g) ==
    /\ mpc[m] = "idle"
    /\ call' = [call EXCEPT ![m] = <<op, g>>]
    /\ mpc' = [mpc EXCEPT ![m] = "lock"]
    /\ UNCHANGED <<chanVars, outcome, games, lockVars, pc, task, seen, gameVars>>

(* GamesMutex.Lock(): one writer at a time; it keeps new readers out ...    *)
Lock(m) ==
    /\ mpc[m] = "lock"
    /\ writer = NoOne
    /\ writer' = m
    /\ mpc' = [mpc EXCEPT ![m] = "drain"]
    /\ UNCHANGED <<chanVars, outcome, games, readers, call, pc, task, seen, gameVars>>

(* ... and waits for those that are in.                                     *)
Locked(m) ==
    /\ mpc[m] = "drain"
    /\ readers = {}
    /\ mpc' = [mpc EXCEPT ![m] = "map"]
    /\ UNCHANGED <<chanVars, outcome, games, lockVars, call, pc, task, seen, gameVars>>

(* The write to the map with its Unlock(), which lets every reader in that  *)
(* waits.                                                                   *)
WriteMap(m) ==
    LET op == call[m][1]
        g == call[m][2]
        waiting == {r \in Referees : pc[r] = "rlock"}
    IN  /\ mpc[m] = "map"
        /\ games' = IF op = "add" THEN games \cup {g} ELSE games \ {g}
        /\ mpc' = [mpc EXCEPT ![m] = "idle"]
        /\ writer' = NoOne
        /\ call' = [call EXCEPT ![m] = NoOne]
        /\ readers' = waiting
        /\ pc' = [r \in Referees |-> IF r \in waiting THEN "lookup" ELSE pc[r]]
        /\ UNCHANGED <<chanVars, outcome, task, seen, gameVars>>

AddGame(m, g) == Call(m, "add", g)
RemoveGame(m, g) == Call(m, "remove", g)
Mutex(m) == Lock(m) \/ Locked(m) \/ WriteMap(m)

Next ==
    \/ \E t \in Tasks : SubmitTask(t)
    \/ \E r \in Referees : RefRoutine(r)
    \/ \E m \in Managers : Mutex(m) \/ \E g \in Games : AddGame(m, g) \/ RemoveGame(m, g)

Spec == Init /\ [][Next]_vars

(* Goroutines are scheduled, and an Action or a PersistGameState that has   *)
(* begun returns; nobody need ever submit a task or add a game.             *)
FairSpec ==
    /\ Spec
    /\ \A r \in Referees : WF_vars(RefRoutine(r))
    /\ \A m \in Managers : WF_vars(Mutex(m))

-----------------------------------------------------------------------------
(* Properties *)

TypeOK ==
    /\ refTasks \in Seq(Tasks) /\ Len(refTasks) <= Capacity
    /\ sendq \in Seq(Tasks)
    /\ outcome \in [Tasks -> {"new", "sent", "dropped", "done"}]
    /\ games \subseteq Games
    /\ readers \subseteq Referees
    /\ writer \in Managers \cup {NoOne}
    /\ mpc \in [Managers -> {"idle", "lock", "drain", "map"}]
    /\ call \in [Managers -> ({"add", "remove"} \X Games) \cup {NoOne}]
    /\ pc \in [Referees -> {"range", "rlock", "lookup", "read", "write", "load", "store"}]
    /\ task \in [Referees -> Tasks \cup {NoOne}]
    /\ seen \in [Referees -> SUBSET Tasks]
    /\ state \in [Games -> SUBSET Tasks]
    /\ db \in [Games -> SUBSET Tasks]
    /\ applied \subseteq Tasks
    /\ unsaved \subseteq Games
    /\ shared \subseteq Games

(* The Go map is never written while another goroutine is at it: GamesMutex *)
(* covers the lookup of every referee and the writes of AddGame and         *)
(* RemoveGame.                                                              *)
MapExclusive ==
    \A m \in Managers : mpc[m] = "map" =>
        /\ \A r \in Referees : pc[r] # "lookup"
        /\ \A k \in Managers \ {m} : mpc[k] # "map"

AppliedTo(g) == {t \in applied : GameID[t] = g}
Quiet(g) == \A r \in Referees : ~AtGame(r, g)

(* As long as no two referees are at a game together, no Action's change is *)
(* lost, and between tasks the row holds what the game holds, unless the    *)
(* latest attempt to persist it failed (RefRoutine persists after every     *)
(* Action, failed ones included, so an earlier failure is made good).       *)
SerialGamesSaved ==
    \A g \in Games \ shared :
        /\ state[g] = AppliedTo(g)
        /\ Quiet(g) /\ g \notin unsaved => db[g] = state[g]

Queue == INSTANCE TaskQueue WITH
            Workers <- Referees, Nobody <- NoOne,
            submitted <- {t \in Tasks : outcome[t] # "new"},
            line <- refTasks \o sendq,
            at <- task,
            finished <- {t \in Tasks : outcome[t] \in {"dropped", "done"}}

(* The channel with its blocked senders is one line for all: tasks are      *)
(* taken in the order in which SubmitTask was called, each by one referee   *)
(* and once, and none is lost, whatever its capacity and whatever becomes   *)
(* of the games meanwhile (SubmitTask, RefRoutine).                         *)
TakenInTurn == Queue!Spec

(* Every task whose SubmitTask was called is handled or dropped in the end, *)
(* also when the channel was full and games come and go.                    *)
AllHandled == \A t \in Tasks : outcome[t] = "sent" ~> outcome[t] \in {"dropped", "done"}

(* "persist game state to the database after each action": once the         *)
(* referees are idle, the row of a game holds every action on it, unless    *)
(* the latest attempt to persist it failed (RefRoutine).                    *)
PersistedAfterAction ==
    (\A r \in Referees : pc[r] = "range") =>
        \A g \in Games \ unsaved : db[g] = AppliedTo(g)
=============================================================================
