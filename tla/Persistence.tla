---------------------------- MODULE Persistence ----------------------------
(***************************************************************************)
(* Games and moves in PostgreSQL, and the functions of package database    *)
(* that store, fetch and delete them.  Callers are goroutines of the       *)
(* server.  A statement given a name runs the SQL function it was prepared *)
(* with; each statement of a function sees what is committed at that       *)
(* moment, and current_timestamp is the beginning of the transaction.      *)
(*                                                                         *)
(* adds[i] is the i-th transaction of add_new_move, and i its move_time.   *)
(* It runs at the database: when a caller has given up on it, or its       *)
(* process is gone, it may still commit.  Descriptions and player codes of *)
(* moves are left out.  The tables are taken as they are meant: move_id    *)
(* has no default in the source, and the INSERT gives none.                *)
(***************************************************************************)
EXTENDS Integers, Sequences, FiniteSets

CONSTANTS
    Callers,
    Games,              \* the identifiers uuid_generate_v4 will give
    NoGame,
    LastMoves,          \* descriptions Persist_EndGame may be given, split at "."
    MaxAdds             \* bound on the transactions of add_new_move

ASSUME PersistenceAssumption ==
    /\ NoGame \notin Games
    /\ LastMoves \in SUBSET Seq(STRING)
    /\ MaxAdds \in Nat

VARIABLES
    outcome,            \* games: the outcome, "unused" before and "deleted" after the row
    moves,              \* moves: the committed rows
    adds,               \* the transactions of add_new_move so far
    pc,                 \* what each caller is doing
    tx,                 \* the add a caller awaits
    target,             \* the game a caller deletes
    gone,               \* the rows of moves a caller's open transaction has deleted
    acknowledged,       \* history: adds answered without an error, with their counter
    concurrent          \* history: games that had two adds in progress at a time

database == <<outcome, moves, adds>>
callers == <<pc, tx, target, gone>>
histories == <<acknowledged, concurrent>>
vars == <<database, callers, histories>>

GameOutcome == {"ongoing", "forfeit", "true_win", "timeout", "crash", "veryshort"}
Row == [game : Games, number : Nat, time : Nat]
Add == [game : Games, number : Nat,
        state : {"begun", "read", "inserted", "committed", "aborted"}]

Rows(g) == {r \in moves : r.game = g}
HasRow(g) == outcome[g] \in GameOutcome

InProgress(i) == adds[i].state \in {"begun", "read", "inserted"}

(* Row locks: an insert shares the row of its game with other inserts, a    *)
(* delete has it alone.                                                     *)
DeleteHolds(g) == \E c \in Callers : pc[c] = "game_deleted" /\ target[c] = g
InsertHolds(g) == \E i \in DOMAIN adds : adds[i].state = "inserted" /\ adds[i].game = g

Init ==
    /\ outcome = [g \in Games |-> "unused"]
    /\ moves = {}
    /\ adds = <<>>
    /\ pc = [c \in Callers |-> "idle"]
    /\ tx = [c \in Callers |-> 0]
    /\ target = [c \in Callers |-> NoGame]
    /\ gone = [c \in Callers |-> {}]
    /\ acknowledged = {}
    /\ concurrent = {}

Become(c, state) == pc' = [pc EXCEPT ![c] = state]

-----------------------------------------------------------------------------
(* Games *)

(* The row may be stored and its answer lost, or neither happen.            *)
InitiateNewGame(c, g) ==
    /\ pc[c] = "idle"
    /\ outcome[g] = "unused"
    /\ outcome' = [outcome EXCEPT ![g] = "ongoing"]
    /\ UNCHANGED <<moves, adds, callers, histories>>

(* moveStrings of the last move: turn, X, Y, condition.                     *)
GameOver(moveStrings) ==
    moveStrings[2] = "99" /\ moveStrings[3] = "99" /\ moveStrings[Len(moveStrings)] # "z"

(* An UPDATE that finds no row is no error, one that fails changes nothing. *)
Persist_EndGame(c, g, moveStrings) ==
    /\ pc[c] = "idle"
    /\ GameOver(moveStrings)
    /\ ~DeleteHolds(g)
    /\ HasRow(g) /\ moveStrings[Len(moveStrings)] \in GameOutcome
    /\ outcome' = [outcome EXCEPT ![g] = moveStrings[Len(moveStrings)]]
    /\ UNCHANGED <<moves, adds, callers, histories>>

-----------------------------------------------------------------------------
(* Adding a move: add_new_move in its statements *)

AddMoveToMemory(c, g) ==
    /\ pc[c] = "idle"
    /\ Len(adds) < MaxAdds
    /\ adds' = Append(adds, [game |-> g, state |-> "begun", number |-> 0])
    /\ tx' = [tx EXCEPT ![c] = Len(adds) + 1]
    /\ Become(c, "adding")
    /\ concurrent' = IF \E i \in DOMAIN adds : InProgress(i) /\ adds[i].game = g
                     THEN concurrent \cup {g} ELSE concurrent
    /\ UNCHANGED <<outcome, moves, target, gone, acknowledged>>

(* A mutant: COALESCE(MAX(move_counter) + 1, 0). *)
NextCounter_FromZero(g) ==
    LET counters == {r.number : r \in Rows(g)}
    IN  IF counters = {} THEN 0
        ELSE (CHOOSE n \in counters : \A m \in counters : m <= n) + 1

(* COALESCE(MAX(move_counter), 0) + 1 *)
NextCounter(g) ==
    LET counters == {r.number : r \in Rows(g)} \cup {0}
    IN  (CHOOSE n \in counters : \A m \in counters : m <= n) + 1

SelectCounter(i) ==
    /\ adds[i].state = "begun"
    /\ adds' = [adds EXCEPT ![i].state = "read", ![i].number = NextCounter(adds[i].game)]
    /\ UNCHANGED <<outcome, moves, callers, histories>>

(* A mutant: game_id of moves without its REFERENCES. *)
InsertMove_NoReference(i) ==
    /\ adds[i].state = "read"
    /\ adds' = [adds EXCEPT ![i].state = "inserted"]
    /\ UNCHANGED <<outcome, moves, callers, histories>>

(* The foreign key of moves: without its game the move is an error. *)
InsertMove(i) ==
    /\ adds[i].state = "read"
    /\ ~DeleteHolds(adds[i].game)
    /\ adds' = [adds EXCEPT ![i].state = IF HasRow(adds[i].game) THEN "inserted" ELSE "aborted"]
    /\ UNCHANGED <<outcome, moves, callers, histories>>

CommitMove(i) ==
    /\ adds[i].state = "inserted"
    /\ adds' = [adds EXCEPT ![i].state = "committed"]
    /\ moves' = moves \cup {[game |-> adds[i].game, number |-> adds[i].number, time |-> i]}
    /\ UNCHANGED <<outcome, callers, histories>>

(* A cancelled statement, or a connection or a server that is lost.         *)
AbortMove(i) ==
    /\ InProgress(i)
    /\ adds' = [adds EXCEPT ![i].state = "aborted"]
    /\ UNCHANGED <<outcome, moves, callers, histories>>

(* A mutant: the caller's own counter is returned when SQL's is higher. *)
AddMoveAnswer_OwnCounter(c) ==
    LET i == tx[c] IN
    /\ pc[c] = "adding"
    /\ Become(c, "idle")
    /\ tx' = [tx EXCEPT ![c] = 0]
    /\ \/ /\ adds[i].state = "committed"
          /\ \E moveCounter \in 0..MaxAdds + 1 :
                /\ moveCounter <= adds[i].number
                /\ acknowledged' = acknowledged \cup {[tx |-> i, counter |-> moveCounter]}
       \/ UNCHANGED acknowledged
    /\ UNCHANGED <<database, target, gone, concurrent>>

(* The counter in SQL against the one the caller holds: the higher is       *)
(* adopted if it is SQL's, and an error if it is Go's, though the move is   *)
(* stored.  No answer in time is an error, too, whatever becomes of the move.*)
AddMoveAnswer(c) ==
    LET i == tx[c] IN
    /\ pc[c] = "adding"
    /\ Become(c, "idle")
    /\ tx' = [tx EXCEPT ![c] = 0]
    /\ \/ /\ adds[i].state = "committed"
          /\ \E moveCounter \in 0..MaxAdds + 1 :
                /\ moveCounter <= adds[i].number
                /\ acknowledged' = acknowledged \cup
                    {[tx |-> i, counter |-> IF adds[i].number > moveCounter
                                            THEN adds[i].number ELSE moveCounter]}
       \/ UNCHANGED acknowledged
    /\ UNCHANGED <<database, target, gone, concurrent>>

-----------------------------------------------------------------------------
(* DeleteGame: two DELETEs in one transaction *)

(* A mutant: each DELETE commits by itself. *)
DeleteMoves_Autocommit(c, g) ==
    /\ pc[c] = "idle"
    /\ \A d \in Callers : gone[d] \cap Rows(g) = {}
    /\ moves' = moves \ Rows(g)
    /\ target' = [target EXCEPT ![c] = g]
    /\ Become(c, "moves_deleted")
    /\ UNCHANGED <<outcome, adds, tx, gone, histories>>

DeleteMoves(c, g) ==
    /\ pc[c] = "idle"
    /\ \A d \in Callers : gone[d] \cap Rows(g) = {}
    /\ gone' = [gone EXCEPT ![c] = Rows(g)]
    /\ target' = [target EXCEPT ![c] = g]
    /\ Become(c, "moves_deleted")
    /\ UNCHANGED <<database, tx, histories>>

EndDelete(c) ==
    /\ Become(c, "idle")
    /\ gone' = [gone EXCEPT ![c] = {}]
    /\ target' = [target EXCEPT ![c] = NoGame]

(* The game must be there, and no move refer to it that the first DELETE    *)
(* has not seen.                                                            *)
DeleteGameRow(c) ==
    /\ pc[c] = "moves_deleted"
    /\ ~DeleteHolds(target[c]) /\ ~InsertHolds(target[c])
    /\ IF HasRow(target[c]) /\ Rows(target[c]) \subseteq gone[c]
       THEN Become(c, "game_deleted") /\ UNCHANGED <<gone, target>>
       ELSE EndDelete(c)
    /\ UNCHANGED <<database, tx, histories>>

CommitDelete(c) ==
    /\ pc[c] = "game_deleted"
    /\ moves' = moves \ gone[c]
    /\ outcome' = [outcome EXCEPT ![target[c]] = "deleted"]
    /\ EndDelete(c)
    /\ UNCHANGED <<adds, tx, histories>>

(* An error on the way, and the deferred Rollback.                          *)
RollbackDelete(c) ==
    /\ pc[c] \in {"moves_deleted", "game_deleted"}
    /\ EndDelete(c)
    /\ UNCHANGED <<database, tx, histories>>

-----------------------------------------------------------------------------
(* Fetching, with a second try; a second failure panics *)

(* A mutant: ORDER BY without DESC. *)
LatestThree_Ascending(g) ==
    LET older(r) == {s \in Rows(g) : s.time < r.time}
        length == IF Cardinality(Rows(g)) < 3 THEN Cardinality(Rows(g)) ELSE 3
    IN  [k \in 1..length |-> CHOOSE r \in Rows(g) : Cardinality(older(r)) = k - 1]

(* ORDER BY move_time DESC LIMIT 3 *)
LatestThree(g) ==
    LET newer(r) == {s \in Rows(g) : s.time > r.time}
        length == IF Cardinality(Rows(g)) < 3 THEN Cardinality(Rows(g)) ELSE 3
    IN  [k \in 1..length |-> CHOOSE r \in Rows(g) : Cardinality(newer(r)) = k - 1]

(* What a fetch may answer: rows.Next() stops at the last row and where the *)
(* connection breaks, and rows.Err() is not asked which it was.             *)
Fetched(g) ==
    {[k \in 1..length |-> LatestThree(g)[k]] : length \in {0} \cup DOMAIN LatestThree(g)}

(* The first try of the fetch fails; one that succeeds leaves no trace.     *)
FetchFails(c) ==
    /\ pc[c] = "idle"
    /\ Become(c, "retrying")
    /\ UNCHANGED <<database, tx, target, gone, histories>>

RetrySucceeds(c) ==
    /\ pc[c] = "retrying"
    /\ Become(c, "idle")
    /\ UNCHANGED <<database, tx, target, gone, histories>>

Prepared ==
    {"FetchOngoingGames", "FetchMovesByGameID", "FetchAPlayersMoves", "Fetch3recentMoves",
     "AddNewUser", "UpdateGameOutcomes", "AddNewGame", "AddNewMove", "DeleteGame",
     "CreateUserTable", "CreateGameTable", "CreateMoveTable"}

(* What four functions run twice and panic without; names that were not     *)
(* prepared are sent as SQL, which they are not.                            *)
RunTwice ==
    {"fetch_all_moves_for_game", "fetch_ongoing_games", "update_game_outcome", "add_new_user"}

StatementFails(c) ==
    /\ pc[c] = "idle"
    /\ RunTwice \ Prepared # {}
    /\ Become(c, "failing")
    /\ UNCHANGED <<database, tx, target, gone, histories>>

(* Nobody recovers, so every goroutine of the server ends, and the          *)
(* connections of open transactions with it.                                *)
SecondFailurePanics(c) ==
    /\ pc[c] \in {"retrying", "failing"}
    /\ pc' = [d \in Callers |-> "panicked"]
    /\ tx' = [d \in Callers |-> 0]
    /\ target' = [d \in Callers |-> NoGame]
    /\ gone' = [d \in Callers |-> {}]
    /\ UNCHANGED <<database, histories>>

Restart ==
    /\ \E c \in Callers : pc[c] = "panicked"
    /\ pc' = [c \in Callers |-> "idle"]
    /\ UNCHANGED <<database, tx, target, gone, histories>>

-----------------------------------------------------------------------------
Next ==
    \/ \E c \in Callers :
        \/ \E g \in Games :
            \/ InitiateNewGame(c, g)
            \/ \E moveStrings \in LastMoves : Persist_EndGame(c, g, moveStrings)
            \/ AddMoveToMemory(c, g)
            \/ DeleteMoves(c, g)
        \/ AddMoveAnswer(c)
        \/ DeleteGameRow(c) \/ CommitDelete(c) \/ RollbackDelete(c)
        \/ FetchFails(c) \/ RetrySucceeds(c) \/ StatementFails(c) \/ SecondFailurePanics(c)
    \/ \E i \in DOMAIN adds : SelectCounter(i) \/ InsertMove(i) \/ CommitMove(i) \/ AbortMove(i)
    \/ Restart

Spec == Init /\ [][Next]_vars

-----------------------------------------------------------------------------
(* Properties *)

TypeOK ==
    /\ outcome \in [Games -> GameOutcome \cup {"unused", "deleted"}]
    /\ moves \in SUBSET Row
    /\ adds \in Seq(Add)
    /\ pc \in [Callers -> {"idle", "adding", "moves_deleted", "game_deleted",
                           "retrying", "failing", "panicked"}]
    /\ tx \in [Callers -> 0..Len(adds)]
    /\ target \in [Callers -> Games \cup {NoGame}]
    /\ gone \in [Callers -> SUBSET Row]
    /\ acknowledged \in SUBSET [tx : Nat, counter : Nat]
    /\ concurrent \in SUBSET Games

(* As long as no two adds of a game were in progress at a time, abandoned   *)
(* ones included, its moves are numbered 1, 2, 3, ... without a gap or a    *)
(* repetition, whatever is aborted or deleted meanwhile (the coalesce line  *)
(* of add_new_move).                                                        *)
NumberedInTurn ==
    \A g \in Games \ concurrent :
        /\ {r.number : r \in Rows(g)} = 1..Cardinality(Rows(g))

(* For such a game a fetch of the latest three, which sorts by move_time,   *)
(* begins with the last move by number and goes back without a gap, also    *)
(* when it breaks off ("Function to fetch the last 3 moves for a particular *)
(* game"; FetchLatestThreeMovesInGame).                                     *)
FetchedInTurn ==
    \A g \in Games \ concurrent : \A latestMoves \in Fetched(g) :
        \A k \in DOMAIN latestMoves :
            latestMoves[k].number = Cardinality(Rows(g)) + 1 - k

(* A move that was acknowledged is stored, under the counter the caller was *)
(* given, for as long as its game is: no delete, rollback or crash of       *)
(* another caller takes it away (AddMoveToMemory, checkMoveNumber).         *)
AcknowledgedIsStored ==
    \A a \in acknowledged :
        HasRow(adds[a.tx].game) =>
            [game |-> adds[a.tx].game, number |-> a.counter, time |-> a.tx] \in moves

(* "all at once or not at all": moves of a game go together with the game,  *)
(* and a game with all of its moves, also when one is added meanwhile       *)
(* (DeleteGame, delete_game).                                               *)
DeletesAllOrNothing ==
    [][\A g \in Games :
        (\/ \E r \in Rows(g) : r \notin moves'
         \/ HasRow(g) /\ ~HasRow(g)')
        => ~HasRow(g)' /\ Rows(g)' = {}]_vars

Acknowledgement(a) == [game |-> adds[a.tx].game, number |-> a.counter, time |-> a.tx]

Record == INSTANCE GameRecord WITH
             status <- [g \in Games |-> IF HasRow(g) THEN "open" ELSE outcome[g]],
             rows <- moves,
             confirmed <- {Acknowledgement(a) : a \in {b \in acknowledged :
                                                         HasRow(adds[b.tx].game)}},
             overlapped <- concurrent

(* The transactions, statement by statement, keep the record of each game:  *)
(* whatever is aborted, abandoned, answered late or deleted meanwhile, its  *)
(* moves only grow, one by one, in turn if adds did not overlap, what was   *)
(* acknowledged is one of them, and they go all at once with the game,      *)
(* which never comes back (add_new_move, AddMoveToMemory, delete_game).     *)
KeepsTheRecord == Record!Spec
=============================================================================
