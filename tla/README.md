# HexGame: models and proofs

TLA+ models of the HexGame server (`src/`), model-checked with TLC on small
instances, with theorems checked by TLAPS for every value of the constants.
`PROJECT.json` ties every definition to its source lines, every property to a
mutation of the code that breaks it, and every hazard to the properties that
watch it.

The server is a work in progress: some files do not compile as committed
(`cache/cache.go:54-69`, `eventBus.go:190` and `:260`, `gamelogic.go:699`, and
calls to functions that are not in the tree). Where the text is garbled but its
meaning is plain (the undeclared `jsonData`, the unnamed parameter `rawMsg`, the
function header torn in two in `cache.go`), the models take the plain meaning.
Where code is missing (the Actions of a `RefTask`, `PersistGameState`, the
goroutines at the other end of the bus), the models take it as an environment
that may do anything its type allows, and the map marks it external. The statements of
`package database` are taken to run the SQL functions whose text they were prepared
with, and the tables to be there (as written, what is prepared is the text of each
`CREATE FUNCTION`, which takes no arguments, the tables' texts have syntax errors, and
`moves.move_id` is a primary key without a default that the `INSERT` of `add_new_move`
leaves out, `sqlconstants.go:172` and `:126`, so every insert would fail).

## 1. Inventory

| component | source | state | operations |
|---|---|---|---|
| rules and win evaluation | `server/gamelogic.go:162-660, 753-783` | the move list, one adjacency matrix per player | `handleNewMoveEvent`, `checkMoveValidity`, `IncorporateNewVert`, `EvalWinCondition`, `ThinAdjacencyMat` |
| referee pool | `server/gamelogic.go:66-128` | channel `RefTasks`, map `Games` under `GamesMutex`, unlocked `*Game`s | `SubmitTask`, `RefRoutine`, `AddGame`, `RemoveGame` |
| broadcasting server | `server/server.go:193-342` | map of subscribers under `subscribersMu`, a channel per subscriber, the limiter | `publish`, `subscribe`, `AddSubscriber`, `DeleteSubscriber`, `closeTooSlow` |
| server lifecycle | `server/server.go:32-192` | listener, `mainCtx`, error group, metrics | `runWebsocketServer`, `ShutdownServer`, `logMetrics` |
| game event bus | `structures/lobby/eventBus.go` | topics, one channel per participant, `EventChan`, `Rwm`, a context | `marshalAndForward`, `DispatchMessage`, `Shutdown`, `DefineTopicSubscriptions` |
| lobby and matchmaking | `structures/lobby/lobby.go` | players' channels, matchmaking channels | listening for pairs, `awaitAcknowledgments`, `PublishPairing` |
| move cache | `cache/cache.go` | concurrent map, atomic counter, `cleanupChan` | `SetCacheValue`, `GetCacheValue`, `DeleteCacheValue`, `MonitorCacheSize`, `Cleanup` |
| persistence | `database/pg_sql.go`, `sqlconstants.go`, `getAllMoveList` in `gamelogic.go:663-750` | rows of games and moves, `move_counter` | `AddMoveToMemory`, `FetchSomeMoveList`, `DeleteGame`, `Persist_EndGame` |
| set-up and users | `database/pg_sql.go:33-390, 628-674` | pools, schema, prepared statements | `InitializePostgres`, `AddNewUser` |
| authentication | `auth/service` | sessions and tokens of another program | register, login, validate |
| browser client | `client/client.js` | a websocket and a back-off interval | connect, reconnect |

How they interact. The browser posts events to `/publish` and holds a websocket
opened by `/subscribe`; `gameLocus` copies every post to every subscriber's
channel. A proposed move is meant to reach `handleNewMoveEvent` as the Action of
a `RefTask`: it reads the moves so far from cache and database at once
(`getAllMoveList`), validates, updates the matrix, evaluates, and writes back.
Within a game the participants (two players, referee, timer, lobby, memory) talk
over the event bus; the lobby pairs players and starts games.

What is hard, and what has to be true:

* **Rules and evaluation** is sequential but intricate: indices that shift by
  two for the hidden points, matrices and lists thinned together, a loop without
  a measure. A replayed or stale proposal must not become a move; whatever is
  accepted must be a legal position; the code must not index out of range or
  panic; the quick checks must not turn a winner down; a declared winner must have
  won; the loop must end.
* **Referee pool**: several referees, a map guarded by a read-write mutex and
  game objects guarded by nothing. The map must be exclusive, tasks must not be
  stuck, and what a referee saves must be what the games hold.
* **Broadcasting**: requests and connections come and go while one mutex is held
  across the rate limiter. One order for all, no silent gap, no dead client in
  the map, and no publisher waiting for a client.
* **Event bus**: unbuffered channels, lossy for events and blocking for messages;
  closing them while somebody sends panics.
* **Move cache**: map and counter change in separate steps, and a clean-up
  decides from entries it read earlier. The counter must follow the map, and the
  latest state of a game must survive.
* **Lobby**: a pair must be acknowledged in five seconds; acknowledgements that
  are late stay in the channel; announcements block on channels of players who
  are gone. No match without an acknowledgement of its own from each of two players,
  and a player who says nothing must not hold the lobby.
* **Persistence**: `MAX(move_counter) + 1` is read and inserted by concurrent
  transactions; an add whose caller gave up runs on; a second failure panics and
  ends the whole process between any two statements of the others. Moves must be
  numbered in turn, what was acknowledged must stay, and a game must go as a whole.
* **Set-up**: any statement may fail while a connection is held that the deferred
  `Close` waits for.
* **Lifecycle and client**: what ends the process (a signal, an error of `Serve`, a
  shutdown whose deadline has passed), and a back-off with a cap that must always try again.

## 2. Modules

```
abstract          model                  proofs               for TLC
HexRules     <--  HexGame, HexBoard      HexGameProofs        MCHexGame
TaskQueue    <--  RefereePool            RefereePoolProofs    MCRefereePool
EventStream  <--  GameLocus              GameLocusProofs      MCGameLocus
GameRecord   <--  Persistence            PersistenceProofs    MCPersistence
                  GameEventBus           GameEventBusProofs   MCGameEventBus
                  MoveCache              MoveCacheProofs      MCMoveCache
                  Lobby                  LobbyProofs          MCLobby
                  ServerProcess,         ServerProcessProofs  MCServerProcess
                    DatabaseSetup
```

`<--` is a refinement: the model has an `INSTANCE ... WITH` that says what each
variable of the abstract specification is in the code's state, the abstract `Spec`
under that mapping is a property of a run, and the proofs show it step by step.
HexGame EXTENDS HexBoard, and ServerProcess DatabaseSetup.

**HexRules** is what the referee promises: players alternate, tiles go to free
cells of the board, and B may answer the opening by taking that very tile. It
also has the geometry, `Touch` and `Joined`. `Joined` speaks of a path without
naming one (every set of tiles closed under touching that holds the near edge
reaches the far edge), so no recursion is needed and it can be proved about.

**TaskQueue**, **EventStream** and **GameRecord** are what the pool, the
broadcasting server and the database promise, with none of the machinery: one line of
tasks from which a free worker takes the first; one stream of events of which a reader
gets a stretch without a gap, unless it was declared late; a record of each game that
is begun once, grows by one move at a time with the next number, keeps what was
confirmed and goes as a whole. The mappings hide the channel and its blocked senders
(`refTasks \o sendq` is the line), queues and events in hand (a reader's position is
the number of the last event delivered to it), and transactions (the record is what
is committed).

**HexBoard** has the pure functions of `gamelogic.go`. A `[][]int` of zeros and
ones is its size and the set of index pairs that hold a 1. Indices are those of
the Go code; the quirks are kept: `NeighbourEdges` writes row `moveCount` of
*every* tile (line 190 writes at `k`, not at the neighbour), the far hidden
point is linked at `SideLenGameboard-1` (line 204), and `ThinAdjacencyMat`
removes the indices twice because `removeRows` already drops the columns.

**HexGame** is `handleNewMoveEvent` for one game. `Accept` and `Reject` are the
handler; the thinning loop is one action per pass, because its number of passes
is data and whether it ends is a question. The matrix of each player is kept as
`TestWinCondition` does, and the player in the context is the one whose turn the
list says it is; a coordinate of a proposal is a token (numeral, letter,
unreadable) and `parseCoordinate` what it becomes.

**RefereePool** has the channel with its queue of blocked senders, the
read-write mutex with Go's writer preference (a waiting writer keeps new
readers out, and its `Unlock` lets the waiting readers in), and the referee's
steps around an Action that reads the shared game and then writes it.

**GameLocus** has `publish` in its steps (mutex, limiter, one offer per
subscriber, unlock), each connection's handler in its `select`, and the outside
of a connection: the peer leaves, `closeTooSlow` closes, `CloseRead` notices.

**GameEventBus** is one bus: the forwarder, the dispatchers, `Shutdown` in the
order its defers give it (channels, `EventChan`, unlock, cancel), the context, which
is derived from the caller's and so may be done at any moment (`ContextCancelled`: the
caller cancels it, or a `Shutdown` of another bus does), and
participants who wait for a message or do something else. A send on an
unbuffered channel is a step of both sides; a send on a closed one sets
`crashed`, after which nothing happens, as a Go program that panics.

**MoveCache** changes map and counter in two steps for every call, and ranges
over the map as `xsync.MapOf.Range` does: it copies a bucket and then visits the
copies, so what is visited may be old. Expiration is by a clock.

**Lobby** is `ListenForMMResponse` with the two functions it calls: the
announcement of a pair player by player, the `select` of `awaitAcknowledgments`,
the lock and the release, which does nothing. An announcement or an
acknowledgement is a step of both sides of an unbuffered channel. A player is a
goroutine that receives or does not, and acknowledgements that wait to be taken
(`offers`): by the lobby, in time or during a later pairing of that player, or by
the player itself, as both use the one channel. Messages are the username they
parse to. A pairing is any two names of the service, equal ones included.

**Persistence** is the database and its callers. `add_new_move` is three steps
(the maximum is read, the row inserted, the transaction committed) of a transaction
that belongs to the database: its caller may give up on it, or end, and it goes on.
`adds[i]` is the i-th of these transactions, and `i` its `move_time`, because
`current_timestamp` is the beginning of the transaction. A delete is a transaction
of two steps that holds what it has deleted in `gone` until it commits. Locks of
rows and the foreign key are guards. `SecondFailurePanics` ends all callers, `Restart`
begins them again with what is committed.

**DatabaseSetup** is `InitializePostgres` as a chain of steps each of which may fail,
with the connection a transaction holds and the two deferred `Close`. Statements are
prepared when the pool makes a connection, so at any step that takes one, and a
statement that cannot be prepared panics in the pool's goroutine (`PrepareFails`).
**ServerProcess** composes it with the process that runs it (listener, signals,
the error group of `Serve` and `logMetrics`, `ShutdownServer`, `main`) and with
the browsers of `client.js`. A panic of the set-up ends the process; the end of
the process closes the browsers' connections.

## 3. Runs

| run | instance | question |
|---|---|---|
| `side3` | board of side 3, six plies: any cell at each, and at the first three also ill-formed, untimely and replayed proposals and any swap | does what the handler accepts play HexRules (`PlaysByTheRules`, a refinement), is a replay rejected, are the matrices in bounds and linked as they should, is there no panic, are the quick checks sound, does a declared winner span the board? |
| `false_win` | side 3, seven plies | violation: a declared winner has joined the edges |
| `loop` | side 4, one game | violation: every evaluation ends |
| `pool` | 2 referees, 1 manager, 2 games, 3 tasks, a channel of one place | map exclusive, serial games saved, tasks taken in turn and once (`TakenInTurn`, a refinement of TaskQueue), every task handled |
| `persisted` | the same | violation: each action is in the row once the referees are idle |
| `broadcast` | 2 clients, 2 events, a channel of one place, one token | one stream for all (`StreamedInTurn`, a refinement of EventStream), no silent gap, publishers and dead clients get away |
| `game_bus` | 2 senders, 1 dispatcher, 2 participants that may receive, a context that may end | delivery, no hold-up by participants, no panic before the shutdown, which completes |
| `bus_shutdown` | 1 dispatcher, 2 participants that may receive | violation: the goroutines stop without a panic |
| `pairing` | 3 pairings of 3 players, 2 of them with a channel | one acknowledgement for one match, matches of two, no hold-up by silent players, return |
| `cache` | 3 calls on 3 keys of 2 games, 2 callers, a clock of 2 | counter, latest move, beginning of a clean-up |
| `moves` | 2 callers, 1 game, 4 adds, an end of each kind | moves numbered and fetched in turn, acknowledged moves stay, deletes are whole, and all of it together (`KeepsTheRecord`, a refinement of GameRecord) |
| `life` | the process, the set-up, 1 browser | the end of `Serve` ends the process, where and only where the set-up hangs (`HangsIffSchemaFailed`), browsers come back |

Why the bounds are enough. The proposals of `side3` have every kind of field a
proposal can get wrong and the swap on both a taken and a free cell; side 3 with six
plies is the smallest instance in which either player can join the edges and in which the far
column, the last but one and the first differ (`HiddenEdgesByColumn` leaves open which
of the first two the far hidden point stands for, as the code and its comments
disagree, but has it stand for one of them, for both players and throughout); the endless loop needs side 4.
Two referees with two tasks of one game and a full channel with a blocked sender
are what the pool's races need. In `broadcast` the second event meets a full
channel and an empty limiter; the safety properties were also run with three
events (4.6 million states), and `StreamedInTurn` with one client and three events
(30 072 states), of which one can be delivered, one wait in the channel and one be refused.
`ResultsTopic` has two subscribers, so a send on
the bus can be before, between and after them at a shutdown, and the two senders
meet at the forwarder; participants other than its two never receive, which is
also how a participant that has gone looks. `PublishAccepted` promises nothing once the
context is done: the forwarder has then left, and a sender to a bus that was not shut
down waits for ever, which is what the code does and section 4 lists. In
`pairing` the third pairing can meet an acknowledgement of the first, and the
player without a channel is the receive from nil. In `cache` two keys of a game give
Cleanup something to choose and one of another game something to confuse it
with; three calls let one fall into a clean-up of the other two; with two calls
per caller the safety properties were run on 9.6 million states. In `moves` the
fourth add is the one the fetch's limit of three cuts off, and a fetch may break off
after any row (`Fetched`: `rows.Err()` is not asked); with four adds of one
game, abandoned ones overlap awaited ones, and a delete meets each of their steps.
Callers are interchangeable, and so are games; only safety is checked there, so the
symmetry is sound. In `life` browsers do not meet each other, so one stands for all.

`TypeOK` of every module, and `InOrder` of GameLocus, which `StreamedInTurn` contains,
are left out of the runs: TLAPS proves them for every value of the constants.

Deadlock is not checked in the runs that end by design: games with a last ply,
events that are posted once, clients that leave, a bus that is shut down.

Fairness. Goroutines are scheduled (weak fairness of each one's next step), an
Action or a database call that has begun returns, a write to a websocket has its
five seconds, the limiter and the ticker have their clocks. Go's mutex hands
over to whoever waits longest after a millisecond; in the instances requests are
finite in number, so weak fairness of each waiter is all that is used. The lobby's timer
fires; that its `select` between a done context and a further pairing does not
take the pairing for ever follows from their number, which `MaxPairings` bounds.
In `life` a handler whose context is done ends, a timer fires, and an attempt at a
server that accepts succeeds if it is made again and again (strong fairness of
`Opened`: the network is not down for ever). No signal, request to `ShutdownServer`, end of a caller's context or
failure is assumed to come. Nothing is assumed of clients, the matchmaking service, participants, callers or operators: nobody need post,
connect, hang up, receive, set or shut down.

## 4. What the runs found

* **A player can be declared the winner without a path** (`false_win`,
  `gamelogic.go:460`). The loop answers true as soon as no node has degree 0 or
  1. Together with rows written at every tile this accepts positions in which
  the tiles span all columns but do not connect. The reverse also happens: a
  joined chain whose ends have low degree in the matrix is thinned away.
* **The evaluation may never return** (`loop`, `gamelogic.go:464`). `:=` inside the
  loop shadows `thinnedAdj`; every pass thins the full matrix again.
* **Two referees lose an action** (`persisted`, `gamelogic.go:98`). The game has no lock.
* **Shutting a bus down panics** (`bus_shutdown`, `eventBus.go:176`): channels are
  closed while a forwarder or a dispatcher sends, and the context is cancelled last. In
  the run a dispatcher waits for a participant whose channel is then closed.

Other differences between code and text, met while modelling:

* comments at `gamelogic.go:197` and `:205` speak of the far edge; the code links the last column but one;
* "no overlaps" (`gamelogic.go:46`) while the swap puts the opening tile in both lists;
* the handler never stops a game after a win: further proposals are accepted;
* `SubmitTask` blocks when the buffer is full (comment at `gamelogic.go:76`);
* `getAllMoveList` closes its channels before its goroutines send on them (`gamelogic.go:720`);
* "It never blocks" (`server.go:314`) while `publish` waits for the limiter with the mutex held;
* moves and heartbeats are read from a websocket only after `subscribe` has returned (`server.go:242-256`), and `CloseRead` ends the connection on any message before that;
* `handleUnresponsiveClients` runs after the server has stopped, on another `gameLocus`, and no subscriber's `lastHeartbeat` is ever set;
* a bus's context derives from the one its siblings share (`eventBus.go:79`, `:169`): a shutdown of one ends the forwarders of all, and whoever sends to `EventChan` of a bus that is still open waits for ever (the exception `cancelled` in `PublishAccepted`);
* `TestTopic` is created, `TestingTopic` is switched on: the topic has no subscriber (`eventBus.go:103`, `:239`);
* a message that does not parse is logged in a comment only and dispatched to the topic "" (`eventBus.go:286`);
* "retains only the top 4 latest moves per game" (`cache.go:95`): Cleanup keeps one, as the comment at `:118` says;
* storing over an entry, or deleting one that is not there, moves `entryCount` away from the number of entries for good (`cache.go:20`, the precondition of `CountExact`);
* after a cancel, `Cleanup` may return while `MonitorCacheSize` waits to send to it, and that goroutine stays for ever (`cache.go:84`);
* an acknowledgement taken after the five seconds, during a later pairing of that player, counts for the later one (`lobby.go:139`; `AckSpentOnce` says it counts once);
* a player that no longer receives holds the lobby in `PublishPairing`, with its context done or not (`lobby.go:192`; the exception in `CancelReturns`);
* "we try to reintroduce the players to the lobby" (`lobby.go:78`), and new players' "names get sent off the MMservice" (`lobby.go:90`): neither function hands on what it builds;
* `"entireGame"` fetches the latest three moves, the latest first (`pg_sql.go:507`), against `structures.go:100`: a list from which the referee would derive the wrong turn (`FetchedInTurn` is about the fetch of three alone);
* a fetch whose connection breaks while its rows are read returns the rows so far without an error (`pg_sql.go:539-548`);
* "coalesce line determines the next move number" (`sqlconstants.go:114`): two adds of a game that overlap take the same number (`concurrent` in `NumberedInTurn`), also when one of them had been given up by its caller;
* when Go's counter is ahead of SQL's, `AddMoveToMemory` returns an error although the move is stored (`pg_sql.go:485`);
* statements are run under names they were not prepared under (`fetch_all_moves_for_game`, `fetch_ongoing_games`, `update_game_outcome`, `add_new_user`, `Add_new_user`): the first three functions and `AddNewUser` panic after two tries, whatever they are called with;
* the error of `Exec` at `pg_sql.go:143` is declared anew, so a failed schema is never rolled back and the deferred `Close` of the pool hangs; as the schema is written (one type created three times, `CREATE ROLE IF NOT EXISTS`) it does fail, so `InitializePostgres` hangs instead of panicking (the exception `schemaFailed` in `SetupEnds`);
* the check with a dummy user reads through another connection what a transaction has not committed, so it never succeeds: `InitializePostgres` has no successful end (`pg_sql.go:354-365`);
* "Handling graceful shutdown" (`server.go:114`): a signal by itself stops nothing, and later ones are swallowed, as nobody calls `ShutdownServer` (its registration at `/shutdown`, `server.go:203`, does not type-check); the function meant to run on a shutdown is registered when the server has ended;
* "give it 10 seconds" (`server.go:183`): the deadline is derived from a context that is done, so there are none; and with both contexts done, the `select` may take the case that does not shut down;
* the browser's interval is never reset after a connection succeeds (`client.js:21`).

## 5. Theorems

All are for every value of the constants under the named assumptions
(`SideLenAssumption`, `ProposalsAssumption`, `PoolAssumption`, `LocusAssumption`,
`BusAssumption`, `CacheAssumption`, `LobbyAssumption`, `PersistenceAssumption`), which TLC evaluates in every run.

**HexGameProofs.** Its lemmas say what the helpers return: a
player's moves after an append, `Rank` as an order-preserving bijection onto the kept
positions, the size and symmetry of a thinned or grown matrix. The inductive
invariant `IInv` says that each matrix is symmetric and has a row for each of
the player's moves and the two hidden points, that its edges lie inside, that
in the loop `numRows` is between 2 and that size, and that nothing has
panicked. (`NoPanic` alone is not inductive: symmetry has to be carried from
move to move, and the sizes through the other player's moves.) From it: `TypeCorrect`, `NeverPanics` (removing the same
rows and columns keeps symmetry, and the second removal does too), `InBounds`.
`RefereePlaysByTheRules` is the refinement of HexRules, step by step.
`ReplaysRejected` needs that accepted proposals carry distinct turns.
`QuickRejectsSound`: a joined set has a tile in each column (the tiles left of an
empty column would be a closed set that does not reach the far edge), so it has
at least `SideLenGameboard` of them, and the turn order gives the length of the list.
`HiddenPointsLinked` and `TilesLinkedIffTouch` are one induction, `MatrixInv`, on top
of `IInv` (the induction needs the far column the code has, `HiddenEdgesAsCoded`, as the
witness for the one the property leaves open): a new tile leaves the other tiles' edges to the hidden points as they are,
adds its own by its column, and adds an edge between tiles exactly if one of the
player's tiles is a neighbour, which is `Touch` (`AdjacentTouch`, `NewEdges`). The
flipped list B's evaluation works on is related to the unflipped one the matrix is
built from by `FlippedColumn`. `WinnersSpanBoard` from `SpanInv`: in the loop the
thinned list has a tile in every column and only tiles its player holds, because
`removeVerts_moveList`, whatever indices it is given, invents none.

**RefereePoolProofs.** `TypeCorrect`; `MapIsExclusive` from `LockInv` (who is at
the map holds the lock in the mode it needs); `SerialGamesAreSaved` from
`SerialInv`, which says, for a game that never had two referees at once, what its
one referee has read and what the row holds at each of its steps. `TasksTakenInTurn` is
the refinement of TaskQueue, on top of `PlaceInv`: a task that was sent and is not
finished is in one place of the line or with one referee, and nobody is blocked on a
channel that has room. The last part is what makes the line one: a submission goes to
the end of it whether it blocks or not, and the receive that takes the head of the
channel also moves the first blocked sender up, so the concatenation only loses its
head (`SubmitLine`, `ReceiveLine`).

**GameLocusProofs.** `TypeCorrect`; `MapIsSteady` from `LockInv`; `NoSilentGaps`
from `GapInv` (delivered, in hand and queued make up what was offered, in that
order); `DeliveredInOrder` from `OrderInv`: every queue rises in the order the
limiter let events through, and an event still being offered is newer than
whatever is in the queues it has yet to reach. `OneStreamForAll` is the refinement of
EventStream, from `StreakInv`: what is delivered, in hand and queued for a client that
was not told to close rises by one from event to event, and ends at the last event let
through, or at the one before it while `publish` still owes that one to the client.
`OrderInv` says only that it rises; that nothing is left out is what `StreakInv` adds,
and it is not inductive without who is still owed the event.

**GameEventBusProofs.** `TypeCorrect`; `NoPanicWhileRunning` from `ClosedInv`
(only a shutdown that has the lock has closed a channel); `DispatchReachesAll`
from `DispatchInv` (a subscriber of the topic has the message or is still to be
sent it).

**LobbyProofs.** `AckSpentOnce` is inductive with the types: an announcement adds
one to what a player has heard and at most one to what it offers, and an
acknowledgement then only moves, from the offers to the map and from there into a
match. `TwoPlayersMatch` and the last step of that argument are `TwoOfPair`: two
acknowledgements among those of a pair are those of two players.

**MoveCacheProofs.** Both theorems below rest on what Cleanup's old copies are still good
for. `CopyInv`: a copied entry not yet visited is still in the map with the same
expiration, unless its key was stored over or deleted by a caller. `CounterIsExact`
follows, as a removal then always removes something; it is the induction over
finite sets' cardinalities one element at a time. `LatestIsKept` from `LatestInv`
(a recorded maximum belongs to a stored key, so what is removed for being lower
is not the latest).

**PersistenceProofs.** The invariant has four parts. `TypeOK`; `RowInv` (a row is the
row of a committed add and the other way round, as long as the game is there, and
what is acknowledged was committed with that counter); `DeleteInv` (a delete in its
second step has seen all rows of its game, alone, and no insert is under way);
`SerialInv` (for a game whose adds never overlapped: its rows are numbered 1 to
their count in the order of time, and an add that has read its number is the only
one and has the next). `MovesNumberedInTurn` and `LatestAreFetched` follow from
`SerialInv`, `AcknowledgedAreStored` from `RowInv`, and `GamesDeletedWhole`, an
action property, from `DeleteInv`. `RecordIsKept` is the refinement of GameRecord from
the same invariant, one lemma for each step that changes the record: a commit
grows it (`CommitGrows`), the answer to an add confirms a row, the commit of a delete takes the
game's rows all at once, and the other steps of transactions, rollbacks, panics and restarts
leave it as it is.

**ServerProcessProofs.** `TypeCorrect`, for any set of browsers: an interval is never
anything but 3, 6, 12, 24 or the bound. `SetupHangsOnSchema` from `HeldInv`, which says at which steps
a connection of which pool is held, and that only a failed schema holds one into the
deferred `Close`s.

Every invariant, action property and refinement that a passing run checks is stated by
a theorem. Model-checked only: all liveness (`AllHandled`, `CatchesUpOrCloses`,
`ClosedLeaves`, `PublishReturns`, `PublishAccepted`, `ShutdownStops`,
`TooBigIsCleaned`, `AwaitEnds`, `CancelReturns`, `SetupEnds`, `ServeEndEndsProcess`,
`ComesBack`), because the prover has no support for fairness and ENABLED. The abstract
specifications have no fairness of their own, so the refinements are of safety; that tasks are
finished and events arrive is said by the liveness properties.

## 6. Not modelled, and why

* How a move reaches `handleNewMoveEvent`: the source names parameters it does
  not pass (`moveCounter`, `gameID`), and no code submits a `RefTask`. HexGame
  takes the list and the matrix as the handler's intent gives them.
* `getAllMoveList`: it does not parse, uses names declared nowhere, and closes its
  channels before its goroutines send on them, so it has no result to validate against.
  For the same reason HexGame is not composed with Persistence and MoveCache, nor with
  RefereePool: no code hands one's result to the other.
* Password hashes, UUIDs and `twoTries` around them: calls of libraries without state.
* Replacing a game under an ID that is already in the referees' map
  (`gamelogic.go:115`): an ID stands for one object
  in RefereePool, and adding it again puts the same object back.
* What `writeTimeout` makes of its message type: it gives `c.Write` a status code where
  the library has two types (`server.go:349`). GameLocus has an ordinary write, which may
  fail.
* What registering `ShutdownServer` at `/shutdown` would do: it does not type-check. In
  ServerProcess it is called by whoever asks for it, any number of times.
* `ListenNewPlayers_sendToMM`: it builds a message and hands it to nobody, so
  there is no state it changes.
* HTTP, JSON, SQL texts, logging, metrics and encryption: data without control.
* The manager's map of event buses: fresh identifiers, never removed.
* The authentication service is written against types that are not in this
  repository.

## 7. Plan

The parts of the code that keep state are modelled. What is worth adding follows
changes of the code: once `getAllMoveList` returns a list, Persistence composed with
HexGame would say against which lists a move is validated; once a `RefTask` carries
`handleNewMoveEvent`, RefereePool composed with HexGame would carry
`PlaysByTheRules` to games that are handled serially.
