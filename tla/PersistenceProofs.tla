------------------------- MODULE PersistenceProofs -------------------------
(***************************************************************************)
(* What holds of the rows of games and moves, for any callers, games and   *)
(* number of adds.  RowInv says where rows come from, DeleteInv what an    *)
(* open delete has locked, SerialInv what the numbers and times of a game  *)
(* are whose adds never overlapped.                                        *)
(***************************************************************************)
EXTENDS Persistence, FiniteSetTheorems, TLAPS

RowOf(i) == [game |-> adds[i].game, number |-> adds[i].number, time |-> i]

(* A row is that of a committed add, and of a game that has its row, too;  *)
(* an add that was answered has been committed under the counter given.     *)
RowInv ==
    /\ IsFiniteSet(moves)
    /\ \A r \in moves :
        /\ r.time \in DOMAIN adds /\ adds[r.time].state = "committed"
        /\ r = RowOf(r.time)
        /\ HasRow(r.game)
    /\ \A i \in DOMAIN adds :
        /\ adds[i].state \in {"inserted", "committed"} => outcome[adds[i].game] # "unused"
        /\ adds[i].state = "committed" /\ HasRow(adds[i].game) => RowOf(i) \in moves
    /\ \A g \in Games : Rows(g) # {} =>
        \E top \in Rows(g) : \A r \in Rows(g) : r.number <= top.number
    /\ \A a \in acknowledged :
        /\ a.tx \in DOMAIN adds /\ adds[a.tx].state = "committed"
        /\ a.counter = adds[a.tx].number

(* An open delete has locked its game alone, against inserts and deletes,   *)
(* and has all of the moves there are.                                      *)
DeleteInv ==
    /\ \A c \in Callers : \A r \in gone[c] : r.game = target[c]
    /\ \A c \in Callers : pc[c] \in {"moves_deleted", "game_deleted"} => target[c] \in Games
    /\ \A c \in Callers : pc[c] = "adding" => tx[c] \in DOMAIN adds
    /\ \A c \in Callers : pc[c] = "game_deleted" =>
        /\ HasRow(target[c])
        /\ Rows(target[c]) \subseteq gone[c]
        /\ \A d \in Callers : pc[d] = "game_deleted" /\ target[d] = target[c] => d = c
        /\ ~InsertHolds(target[c])
    /\ \A i \in DOMAIN adds : adds[i].state = "inserted" => HasRow(adds[i].game)

(* The numbers of the rows of a game whose adds did not overlap, the number *)
(* of the add in progress, and the order of both in time.                   *)
Serial(g) ==
    /\ {r.number : r \in Rows(g)} = 1..Cardinality(Rows(g))
    /\ \A r, s \in Rows(g) : r.time < s.time => r.number < s.number
    /\ \A i \in DOMAIN adds : InProgress(i) /\ adds[i].game = g =>
        /\ \A j \in DOMAIN adds : InProgress(j) /\ adds[j].game = g => j = i
        /\ \A r \in Rows(g) : r.time < i
        /\ adds[i].state # "begun" /\ outcome[g] # "deleted" =>
            adds[i].number = Cardinality(Rows(g)) + 1

SerialInv == \A g \in Games \ concurrent : Serial(g)

IInv == TypeOK /\ RowInv /\ DeleteInv /\ SerialInv

-----------------------------------------------------------------------------
(* The adds are a sequence of records. *)
LEMMA AddType ==
    ASSUME TypeOK, NEW i \in DOMAIN adds
    PROVE  i \in Nat /\ adds[i] \in Add /\ adds[i].game \in Games /\ adds[i].number \in Nat
  <1>1. i \in Nat /\ adds[i] \in Add
    BY DEF TypeOK
  <1> QED BY <1>1 DEF Add

LEMMA ChangedAddType ==
    ASSUME TypeOK, NEW i \in DOMAIN adds, NEW a \in Add, adds' = [adds EXCEPT ![i] = a]
    PROVE  adds' \in Seq(Add) /\ Len(adds') = Len(adds) /\ DOMAIN adds' = DOMAIN adds
  BY DEF TypeOK

(* What the counter of the next move is. *)
LEMMA NextCounterType ==
    ASSUME TypeOK, RowInv, NEW g \in Games
    PROVE  /\ NextCounter(g) \in Nat
           /\ \A r \in Rows(g) : r.number < NextCounter(g)
           /\ \A n \in Nat : {r.number : r \in Rows(g)} = 1..n => NextCounter(g) = n + 1
  <1> DEFINE counters == {r.number : r \in Rows(g)} \cup {0}
             IsTop(n) == \A m \in counters : m <= n
  <1>1. \A r \in Rows(g) : r \in moves /\ r.number \in Nat
    BY DEF TypeOK, Row, Rows
  <1>2. counters \subseteq Nat
    BY <1>1
  <1>3. PICK top \in counters : IsTop(top)
    <2>1. CASE Rows(g) = {}
      BY <2>1
    <2>2. CASE Rows(g) # {}
      <3>1. PICK t \in Rows(g) : \A r \in Rows(g) : r.number <= t.number
        BY <2>2 DEF RowInv
      <3> QED BY <3>1, <1>1
    <2> QED BY <2>1, <2>2
  <1> HIDE DEF counters
  <1>4. \A n \in counters : IsTop(n) => n = top
    BY <1>2, <1>3
  <1>5. (CHOOSE n \in counters : IsTop(n)) = top
    BY <1>3, <1>4
  <1>6. NextCounter(g) = top + 1
    BY <1>5 DEF NextCounter, counters
  <1>7. ASSUME NEW n \in Nat, {r.number : r \in Rows(g)} = 1..n PROVE top = n
    <2>1. counters = 0..n
      BY <1>7 DEF counters
    <2> QED BY <1>3, <2>1
  <1>8. ASSUME NEW r \in Rows(g) PROVE r.number \in counters
    BY DEF counters
  <1>9. ASSUME NEW r \in Rows(g) PROVE r.number < NextCounter(g)
    <2>1. r.number \in Nat /\ r.number <= top /\ top \in Nat
      BY <1>2, <1>3, <1>8
    <2> QED BY <2>1, <1>6
  <1>10. NextCounter(g) \in Nat
    BY <1>2, <1>6
  <1> HIDE DEF IsTop
  <1> QED BY <1>6, <1>7, <1>9, <1>10

LEMMA NextTypeOK == TypeOK /\ RowInv /\ DeleteInv /\ [Next]_vars => TypeOK'
  <1> SUFFICES ASSUME TypeOK, RowInv, DeleteInv, [Next]_vars PROVE TypeOK'
    OBVIOUS
  <1> USE PersistenceAssumption
  <1> USE DEF TypeOK, database, callers, histories, Become
  <1>1. ASSUME NEW c \in Callers, NEW g \in Games, InitiateNewGame(c, g) PROVE TypeOK'
    BY <1>1 DEF InitiateNewGame, GameOutcome
  <1>2. ASSUME NEW c \in Callers, NEW g \in Games, NEW s \in LastMoves, Persist_EndGame(c, g, s)
        PROVE  TypeOK'
    BY <1>2 DEF Persist_EndGame
  <1>3. ASSUME NEW c \in Callers, NEW g \in Games, AddMoveToMemory(c, g) PROVE TypeOK'
    <2>1. [game |-> g, state |-> "begun", number |-> 0] \in Add
      BY DEF Add
    <2>2. Len(adds') = Len(adds) + 1 /\ adds' \in Seq(Add)
      BY <1>3, <2>1 DEF AddMoveToMemory
    <2>3. tx' \in [Callers -> 0..Len(adds')]
      BY <1>3, <2>2 DEF AddMoveToMemory
    <2> QED BY <1>3, <2>2, <2>3 DEF AddMoveToMemory
  <1>4. ASSUME NEW c \in Callers, NEW g \in Games, DeleteMoves(c, g) PROVE TypeOK'
    BY <1>4 DEF DeleteMoves, Rows
  <1>5. ASSUME NEW c \in Callers, AddMoveAnswer(c) PROVE TypeOK'
    <2>1. tx[c] \in DOMAIN adds
      BY <1>5 DEF AddMoveAnswer, DeleteInv
    <2>2. tx[c] \in Nat /\ adds[tx[c]].number \in Nat
      BY <2>1, AddType
    <2>3. acknowledged' \in SUBSET [tx : Nat, counter : Nat]
      BY <1>5, <2>2 DEF AddMoveAnswer
    <2> QED BY <1>5, <2>3 DEF AddMoveAnswer
  <1>6. ASSUME NEW c \in Callers, DeleteGameRow(c) \/ RollbackDelete(c) PROVE TypeOK'
    BY <1>6 DEF DeleteGameRow, RollbackDelete, EndDelete
  <1>7. ASSUME NEW c \in Callers, CommitDelete(c) PROVE TypeOK'
    BY <1>7 DEF CommitDelete, EndDelete
  <1>8. ASSUME NEW c \in Callers, FetchFails(c) \/ RetrySucceeds(c) \/ StatementFails(c)
        PROVE  TypeOK'
    BY <1>8 DEF FetchFails, RetrySucceeds, StatementFails
  <1>9. ASSUME NEW c \in Callers, SecondFailurePanics(c) PROVE TypeOK'
    BY <1>9 DEF SecondFailurePanics
  <1>10. ASSUME NEW i \in DOMAIN adds, SelectCounter(i) PROVE TypeOK'
    <2> DEFINE a == [adds[i] EXCEPT !.state = "read", !.number = NextCounter(adds[i].game)]
    <2>1. NextCounter(adds[i].game) \in Nat
      BY NextCounterType, AddType
    <2>2. a \in Add
      BY <2>1, AddType DEF Add
    <2>3. adds' = [adds EXCEPT ![i] = a]
      BY <1>10, AddType DEF SelectCounter, Add
    <2> HIDE DEF a
    <2> QED BY <1>10, <2>2, <2>3, ChangedAddType DEF SelectCounter
  <1>11. ASSUME NEW i \in DOMAIN adds, InsertMove(i) \/ AbortMove(i) \/ CommitMove(i)
         PROVE  TypeOK'
    <2>1. PICK state \in {"inserted", "aborted", "committed"} :
                adds' = [adds EXCEPT ![i].state = state]
      BY <1>11 DEF InsertMove, AbortMove, CommitMove
    <2> DEFINE a == [adds[i] EXCEPT !.state = state]
    <2>2. a \in Add
      BY AddType DEF Add
    <2>3. adds' = [adds EXCEPT ![i] = a]
      BY <2>1
    <2>4. [game |-> adds[i].game, number |-> adds[i].number, time |-> i] \in Row
      BY AddType DEF Row
    <2>5. moves' \in SUBSET Row
      BY <1>11, <2>4 DEF InsertMove, AbortMove, CommitMove
    <2> HIDE DEF a
    <2> QED BY <1>11, <2>2, <2>3, <2>5, ChangedAddType DEF InsertMove, AbortMove, CommitMove
  <1>12. CASE Restart
    BY <1>12 DEF Restart
  <1>13. CASE UNCHANGED vars
    BY <1>13 DEF vars
  <1> QED
    BY <1>1, <1>2, <1>3, <1>4, <1>5, <1>6, <1>7, <1>8, <1>9, <1>10, <1>11, <1>12, <1>13 DEF Next

-----------------------------------------------------------------------------
(* Steps that change neither the database nor the histories. *)
CallerStep(c) ==
    \/ \E g \in Games : DeleteMoves(c, g)
    \/ DeleteGameRow(c) \/ RollbackDelete(c) \/ SecondFailurePanics(c)
    \/ FetchFails(c) \/ RetrySucceeds(c) \/ StatementFails(c)

LEMMA CallerStepQuiet ==
    ASSUME NEW c \in Callers, CallerStep(c)
    PROVE  UNCHANGED <<outcome, moves, adds, acknowledged, concurrent>>
  BY DEF CallerStep, DeleteMoves, DeleteGameRow, RollbackDelete, SecondFailurePanics,
         FetchFails, RetrySucceeds, StatementFails, database, histories

(* An add that goes on: the others stay as they are. *)
LEMMA AddGoesOn ==
    ASSUME TypeOK, NEW i \in DOMAIN adds,
           SelectCounter(i) \/ InsertMove(i) \/ CommitMove(i) \/ AbortMove(i)
    PROVE  /\ DOMAIN adds' = DOMAIN adds
           /\ \A j \in DOMAIN adds : j # i => adds'[j] = adds[j]
           /\ InProgress(i)
           /\ adds'[i].game = adds[i].game
           /\ SelectCounter(i) => /\ adds'[i].state = "read"
                                  /\ adds'[i].number = NextCounter(adds[i].game)
           /\ ~SelectCounter(i) => adds'[i].number = adds[i].number
           /\ InsertMove(i) => \/ adds'[i].state = "aborted"
                               \/ adds'[i].state = "inserted" /\ HasRow(adds[i].game)
           /\ AbortMove(i) => adds'[i].state = "aborted"
           /\ CommitMove(i) => adds'[i].state = "committed"
           /\ UNCHANGED <<outcome, callers, histories>>
           /\ ~CommitMove(i) => UNCHANGED moves
  <1>1. adds \in Seq(Add) /\ adds[i] \in Add
    BY AddType DEF TypeOK
  <1>2. SelectCounter(i) => adds'[i].state = "read" /\ adds'[i].number = NextCounter(adds[i].game)
    <2> DEFINE n == NextCounter(adds[i].game)
    <2>1. SelectCounter(i) => adds' = [adds EXCEPT ![i].state = "read", ![i].number = n]
      BY DEF SelectCounter
    <2> HIDE DEF n
    <2>2. SelectCounter(i) => adds'[i].state = "read" /\ adds'[i].number = n
      <3> DEFINE a == adds[i]
      <3>1. a \in Add /\ i \in DOMAIN adds
        BY <1>1
      <3>2. SelectCounter(i) => adds'[i] = [a EXCEPT !.state = "read", !.number = n]
        BY <1>1, <2>1
      <3> HIDE DEF a
      <3> QED BY <3>1, <3>2 DEF Add
    <2> QED BY <2>2 DEF n
  <1>3. /\ InsertMove(i) => /\ adds[i].state = "read"
                            /\ \/ adds'[i].state = "aborted"
                               \/ adds'[i].state = "inserted" /\ HasRow(adds[i].game)
        /\ AbortMove(i) => adds'[i].state = "aborted"
        /\ CommitMove(i) => adds[i].state = "inserted" /\ adds'[i].state = "committed"
        /\ InsertMove(i) \/ CommitMove(i) \/ AbortMove(i) => adds'[i].number = adds[i].number
    BY <1>1 DEF InsertMove, CommitMove, AbortMove, Add
  <1>4. /\ DOMAIN adds' = DOMAIN adds
        /\ \A j \in DOMAIN adds : j # i => adds'[j] = adds[j]
        /\ adds'[i].game = adds[i].game
    BY <1>1 DEF SelectCounter, InsertMove, CommitMove, AbortMove, Add
  <1>5. /\ UNCHANGED <<outcome, callers, histories>>
        /\ ~CommitMove(i) => UNCHANGED moves
        /\ InProgress(i)
    BY DEF SelectCounter, InsertMove, CommitMove, AbortMove, InProgress
  <1> QED BY <1>2, <1>3, <1>4, <1>5

(* The next state of the rows, game by game. *)
LEMMA CommitMoveRows ==
    ASSUME NEW i \in DOMAIN adds, CommitMove(i), NEW g
    PROVE  Rows(g)' = IF g = adds[i].game THEN Rows(g) \cup {RowOf(i)} ELSE Rows(g)
  <1>1. moves' = moves \cup {RowOf(i)} /\ RowOf(i).game = adds[i].game
    BY DEF CommitMove, RowOf
  <1> QED BY <1>1 DEF Rows

LEMMA CommitDeleteRows ==
    ASSUME DeleteInv, NEW c \in Callers, CommitDelete(c), NEW g
    PROVE  Rows(g)' = IF g = target[c] THEN {} ELSE Rows(g)
  <1>1. /\ moves' = moves \ gone[c]
        /\ Rows(target[c]) \subseteq gone[c]
        /\ \A r \in gone[c] : r.game = target[c]
    BY DEF CommitDelete, DeleteInv
  <1> QED BY <1>1 DEF Rows

LEMMA NextRowInv == TypeOK /\ RowInv /\ DeleteInv /\ [Next]_vars => RowInv'
  <1> SUFFICES ASSUME TypeOK, RowInv, DeleteInv, [Next]_vars PROVE RowInv'
    OBVIOUS
  <1> USE PersistenceAssumption
  <1>1. ASSUME NEW c \in Callers, NEW g \in Games, InitiateNewGame(c, g) PROVE RowInv'
    <2>1. /\ UNCHANGED <<moves, adds, acknowledged>>
          /\ outcome[g] = "unused" /\ outcome'[g] = "ongoing"
          /\ \A h \in Games : h # g => outcome'[h] = outcome[h]
      BY <1>1 DEF InitiateNewGame, histories, TypeOK
    <2>2. \A h \in Games : HasRow(h) => HasRow(h)'
      BY <2>1 DEF HasRow, GameOutcome
    <2>3. \A h \in Games : HasRow(h)' => HasRow(h) \/ outcome[h] = "unused"
      BY <2>1 DEF HasRow, GameOutcome
    <2>4. \A r \in moves : r.game \in Games
      BY DEF TypeOK, Row
    <2> QED BY <2>1, <2>2, <2>3, <2>4, AddType DEF RowInv, Rows, RowOf
  <1>2. ASSUME NEW c \in Callers, NEW g \in Games, NEW s \in LastMoves, Persist_EndGame(c, g, s)
        PROVE  RowInv'
    <2>1. /\ UNCHANGED <<moves, adds, acknowledged>>
          /\ \A h \in Games : HasRow(h)' = HasRow(h) /\ (outcome[h] # "unused" => outcome'[h] # "unused")
      BY <1>2 DEF Persist_EndGame, histories, TypeOK, HasRow, GameOutcome
    <2>2. \A r \in moves : r.game \in Games
      BY DEF TypeOK, Row
    <2> QED BY <2>1, <2>2, AddType DEF RowInv, Rows, RowOf
  <1>3. ASSUME NEW c \in Callers, NEW g \in Games, AddMoveToMemory(c, g) PROVE RowInv'
    <2> DEFINE a == [game |-> g, state |-> "begun", number |-> 0]
    <2>1. /\ UNCHANGED <<outcome, moves, acknowledged>>
          /\ adds' = Append(adds, a)
      BY <1>3 DEF AddMoveToMemory
    <2>2. /\ DOMAIN adds' = DOMAIN adds \cup {Len(adds) + 1}
          /\ \A i \in DOMAIN adds : adds'[i] = adds[i]
          /\ adds'[Len(adds) + 1] = a
      BY <2>1 DEF TypeOK
    <2>3. a.state = "begun"
      OBVIOUS
    <2> HIDE DEF a
    <2> QED BY <2>1, <2>2, <2>3 DEF RowInv, Rows, RowOf, HasRow
  <1>4. ASSUME NEW c \in Callers, AddMoveAnswer(c) PROVE RowInv'
    <2>1. UNCHANGED <<outcome, moves, adds>> /\ tx[c] \in DOMAIN adds
      BY <1>4 DEF AddMoveAnswer, database, DeleteInv
    <2>2. \/ UNCHANGED acknowledged
          \/ /\ adds[tx[c]].state = "committed"
             /\ \E n \in 0..MaxAdds + 1 :
                    /\ n <= adds[tx[c]].number
                    /\ acknowledged' = acknowledged \cup
                          {[tx |-> tx[c], counter |-> IF adds[tx[c]].number > n
                                                      THEN adds[tx[c]].number ELSE n]}
      BY <1>4 DEF AddMoveAnswer
    <2>3. \A a \in acknowledged' : a \in acknowledged \/
            (/\ adds[tx[c]].state = "committed"
             /\ a = [tx |-> tx[c], counter |-> adds[tx[c]].number])
      BY <2>1, <2>2, AddType
    <2>4. \A a \in acknowledged' : /\ a.tx \in DOMAIN adds /\ adds[a.tx].state = "committed"
                                   /\ a.counter = adds[a.tx].number
      BY <2>1, <2>3 DEF RowInv
    <2> QED BY <2>1, <2>4 DEF RowInv, Rows, RowOf, HasRow
  <1>5. ASSUME NEW c \in Callers, CommitDelete(c) PROVE RowInv'
    <2>1. /\ UNCHANGED <<adds, acknowledged>>
          /\ moves' \subseteq moves
          /\ target[c] \in Games
          /\ outcome' = [outcome EXCEPT ![target[c]] = "deleted"]
          /\ moves' = moves \ gone[c]
          /\ \A r \in gone[c] : r.game = target[c]
      BY <1>5 DEF CommitDelete, histories, DeleteInv
    <2>2. \A g \in Games : /\ HasRow(g)' => HasRow(g) /\ g # target[c]
                           /\ HasRow(g) /\ g # target[c] => HasRow(g)'
                           /\ outcome[g] # "unused" => outcome'[g] # "unused"
      BY <2>1 DEF HasRow, GameOutcome, TypeOK
    <2>3. \A g : Rows(g)' = IF g = target[c] THEN {} ELSE Rows(g)
      BY <1>5, CommitDeleteRows
    <2>4. \A r \in moves' : r.game \in Games /\ r.game # target[c]
      BY <2>1, <2>3 DEF TypeOK, Row, Rows
    <2>5. \A i \in DOMAIN adds : RowOf(i)' = RowOf(i) /\ RowOf(i).game = adds[i].game
      BY <2>1 DEF RowOf
    <2>6. IsFiniteSet(moves')
      BY <2>1, FS_Subset DEF RowInv
    <2>7. \A r \in moves' : /\ r.time \in DOMAIN adds' /\ adds'[r.time].state = "committed"
                            /\ r = RowOf(r.time)'
                            /\ HasRow(r.game)'
      BY <2>1, <2>2, <2>4, <2>5 DEF RowInv
    <2>8. \A i \in DOMAIN adds' :
            /\ adds'[i].state \in {"inserted", "committed"} => outcome'[adds'[i].game] # "unused"
            /\ adds'[i].state = "committed" /\ HasRow(adds[i].game)' => RowOf(i)' \in moves'
      BY <2>1, <2>2, <2>5, AddType DEF RowInv
    <2>9. \A g \in Games : Rows(g)' # {} =>
            \E top \in Rows(g)' : \A r \in Rows(g)' : r.number <= top.number
      BY <2>3 DEF RowInv
    <2> QED BY <2>1, <2>6, <2>7, <2>8, <2>9 DEF RowInv
  <1>6. ASSUME NEW i \in DOMAIN adds, SelectCounter(i) \/ InsertMove(i) \/ AbortMove(i)
        PROVE  RowInv'
    <2>1. /\ DOMAIN adds' = DOMAIN adds
          /\ \A j \in DOMAIN adds : j # i => adds'[j] = adds[j]
          /\ adds[i].state # "committed" /\ adds'[i].state # "committed"
          /\ adds'[i].game = adds[i].game
          /\ adds'[i].state = "inserted" => HasRow(adds[i].game)
          /\ UNCHANGED <<outcome, moves, acknowledged>>
      BY <1>6, AddGoesOn DEF InProgress, histories, SelectCounter, InsertMove, AbortMove
    <2>2. \A j \in DOMAIN adds : j # i => RowOf(j)' = RowOf(j)
      BY <2>1 DEF RowOf
    <2> QED BY <2>1, <2>2 DEF RowInv, Rows, HasRow, GameOutcome
  <1>7. ASSUME NEW i \in DOMAIN adds, CommitMove(i) PROVE RowInv'
    <2>1. /\ DOMAIN adds' = DOMAIN adds
          /\ \A j \in DOMAIN adds : j # i => adds'[j] = adds[j]
          /\ adds[i].state = "inserted" /\ adds'[i].state = "committed"
          /\ adds'[i].game = adds[i].game /\ adds'[i].number = adds[i].number
          /\ UNCHANGED <<outcome, acknowledged>>
          /\ moves' = moves \cup {RowOf(i)}
      BY <1>7, AddGoesOn DEF histories, CommitMove, RowOf
    <2>2. \A j \in DOMAIN adds : RowOf(j)' = RowOf(j)
      BY <2>1 DEF RowOf
    <2>3. RowOf(i).game = adds[i].game /\ RowOf(i).time = i /\ RowOf(i).number = adds[i].number
      BY DEF RowOf
    <2>4. HasRow(adds[i].game)
      BY <2>1 DEF DeleteInv
    <2>5. \A g \in Games : Rows(g)' # {} =>
            \E top \in Rows(g)' : \A r \in Rows(g)' : r.number <= top.number
      <3> SUFFICES ASSUME NEW g \in Games
                   PROVE  Rows(g)' # {} =>
                            \E top \in Rows(g)' : \A r \in Rows(g)' : r.number <= top.number
        OBVIOUS
      <3>1. CASE g # adds[i].game
        <4>1. Rows(g)' = Rows(g)
          BY <1>7, <3>1, CommitMoveRows
        <4> QED BY <4>1 DEF RowInv
      <3>2. CASE g = adds[i].game
        <4>1. Rows(g)' = Rows(g) \cup {RowOf(i)}
          BY <1>7, <3>2, CommitMoveRows
        <4>2. RowOf(i).number \in Nat /\ \A r \in Rows(g) : r.number \in Nat
          BY <2>3, AddType DEF Rows, TypeOK, Row
        <4>3. CASE Rows(g) = {}
          BY <4>1, <4>2, <4>3
        <4>4. CASE Rows(g) # {}
          <5>1. PICK top \in Rows(g) : \A r \in Rows(g) : r.number <= top.number
            BY <4>4 DEF RowInv
          <5>2. CASE RowOf(i).number <= top.number
            BY <4>1, <4>2, <5>1, <5>2
          <5>3. CASE ~(RowOf(i).number <= top.number)
            <6>1. \A r \in Rows(g) : r.number <= RowOf(i).number
              BY <4>2, <5>1, <5>3
            <6> QED BY <4>1, <4>2, <6>1
          <5> QED BY <5>2, <5>3
        <4> QED BY <4>3, <4>4
      <3> QED BY <3>1, <3>2
    <2>6. IsFiniteSet(moves')
      BY <2>1, FS_AddElement DEF RowInv
    <2>7. \A r \in moves' : /\ r.time \in DOMAIN adds' /\ adds'[r.time].state = "committed"
                            /\ r = RowOf(r.time)'
                            /\ HasRow(r.game)'
      BY <2>1, <2>2, <2>3, <2>4 DEF RowInv, HasRow
    <2>8. \A j \in DOMAIN adds' :
            /\ adds'[j].state \in {"inserted", "committed"} => outcome'[adds'[j].game] # "unused"
            /\ adds'[j].state = "committed" /\ HasRow(adds[j].game)' => RowOf(j)' \in moves'
      BY <2>1, <2>2, <2>4 DEF RowInv, HasRow, GameOutcome
    <2>9. \A a \in acknowledged' : /\ a.tx \in DOMAIN adds' /\ adds'[a.tx].state = "committed"
                                   /\ a.counter = adds'[a.tx].number
      BY <2>1 DEF RowInv
    <2> QED BY <2>1, <2>5, <2>6, <2>7, <2>8, <2>9 DEF RowInv, HasRow
  <1>8. ASSUME NEW c \in Callers, CallerStep(c) PROVE RowInv'
    BY <1>8, CallerStepQuiet DEF RowInv, Rows, RowOf, HasRow
  <1>9. CASE Restart \/ UNCHANGED vars
    BY <1>9 DEF Restart, vars, database, callers, histories, RowInv, Rows, RowOf, HasRow
  <1> QED
    BY <1>1, <1>2, <1>3, <1>4, <1>5, <1>6, <1>7, <1>8, <1>9 DEF Next, CallerStep

LEMMA NextDeleteInv == TypeOK /\ RowInv /\ DeleteInv /\ [Next]_vars => DeleteInv'
  <1> SUFFICES ASSUME TypeOK, RowInv, DeleteInv, [Next]_vars PROVE DeleteInv'
    OBVIOUS
  <1> USE PersistenceAssumption
  <1>1. ASSUME NEW c \in Callers, NEW g \in Games,
               InitiateNewGame(c, g) \/ \E s \in LastMoves : Persist_EndGame(c, g, s)
        PROVE  DeleteInv'
    <2>1. /\ UNCHANGED <<moves, adds, pc, tx, target, gone>>
          /\ \A h \in Games : HasRow(h) => HasRow(h)'
      BY <1>1 DEF InitiateNewGame, Persist_EndGame, callers, TypeOK, HasRow, GameOutcome
    <2> QED BY <2>1, AddType DEF DeleteInv, Rows, InsertHolds
  <1>2. ASSUME NEW c \in Callers, NEW g \in Games, AddMoveToMemory(c, g) PROVE DeleteInv'
    <2> DEFINE a == [game |-> g, state |-> "begun", number |-> 0]
    <2>1. /\ UNCHANGED <<outcome, moves, target, gone>>
          /\ adds' = Append(adds, a)
          /\ tx' = [tx EXCEPT ![c] = Len(adds) + 1]
          /\ pc' = [pc EXCEPT ![c] = "adding"]
      BY <1>2 DEF AddMoveToMemory, Become
    <2>2. /\ DOMAIN adds' = DOMAIN adds \cup {Len(adds) + 1}
          /\ \A i \in DOMAIN adds : adds'[i] = adds[i]
          /\ adds'[Len(adds) + 1] = a
      BY <2>1 DEF TypeOK
    <2>3. a.state = "begun"
      OBVIOUS
    <2> HIDE DEF a
    <2>4. \A h : InsertHolds(h)' => InsertHolds(h)
      BY <2>2, <2>3 DEF InsertHolds
    <2>5. \A d \in Callers : /\ pc'[d] \in {"moves_deleted", "game_deleted"} => pc'[d] = pc[d]
                             /\ pc'[d] = "adding" => tx'[d] \in DOMAIN adds'
      BY <2>1, <2>2 DEF TypeOK, DeleteInv
    <2> QED BY <2>1, <2>2, <2>3, <2>4, <2>5 DEF DeleteInv, Rows, HasRow
  <1>3. ASSUME NEW c \in Callers, NEW g \in Games, DeleteMoves(c, g) PROVE DeleteInv'
    <2>1. /\ UNCHANGED <<outcome, moves, adds, tx>>
          /\ gone' = [gone EXCEPT ![c] = Rows(g)]
          /\ target' = [target EXCEPT ![c] = g]
          /\ pc' = [pc EXCEPT ![c] = "moves_deleted"]
          /\ pc[c] = "idle"
      BY <1>3 DEF DeleteMoves, database, Become
    <2>2. \A d \in Callers : /\ pc'[d] = IF d = c THEN "moves_deleted" ELSE pc[d]
                             /\ target'[d] = IF d = c THEN g ELSE target[d]
                             /\ gone'[d] = IF d = c THEN Rows(g) ELSE gone[d]
      BY <2>1 DEF TypeOK
    <2>3. \A h : Rows(h)' = Rows(h) /\ InsertHolds(h)' = InsertHolds(h) /\ HasRow(h)' = HasRow(h)
      BY <2>1 DEF Rows, InsertHolds, HasRow
    <2>4. \A d \in Callers : \A r \in gone'[d] : r.game = target'[d]
      <3>1. \A d \in Callers : \A r \in gone[d] : r.game = target[d]
        BY DEF DeleteInv
      <3>2. \A r \in Rows(g) : r.game = g
        BY DEF Rows
      <3> QED BY <2>2, <3>1, <3>2
    <2>5. \A d \in Callers : pc'[d] = "game_deleted" =>
            /\ HasRow(target[d])' /\ Rows(target[d])' \subseteq gone'[d] /\ ~InsertHolds(target[d])'
            /\ target'[d] = target[d]
            /\ \A e \in Callers : pc'[e] = "game_deleted" /\ target'[e] = target'[d] => e = d
      BY <2>2, <2>3 DEF DeleteInv
    <2> QED BY <2>1, <2>2, <2>3, <2>4, <2>5 DEF DeleteInv
  <1>4. ASSUME NEW c \in Callers,
               AddMoveAnswer(c) \/ FetchFails(c) \/ RetrySucceeds(c) \/ StatementFails(c)
        PROVE  DeleteInv'
    <2>1. /\ UNCHANGED <<outcome, moves, adds, target, gone>>
          /\ pc' = [pc EXCEPT ![c] = pc'[c]]
          /\ pc'[c] \in {"idle", "retrying", "failing"}
          /\ \A d \in Callers : d # c => tx'[d] = tx[d]
      BY <1>4 DEF AddMoveAnswer, FetchFails, RetrySucceeds, StatementFails, database, Become, TypeOK
    <2>2. \A d \in Callers : /\ d # c => pc'[d] = pc[d]
                             /\ pc'[d] \in {"moves_deleted", "game_deleted", "adding"} => d # c
      BY <2>1 DEF TypeOK
    <2>3. \A h : Rows(h)' = Rows(h) /\ InsertHolds(h)' = InsertHolds(h) /\ HasRow(h)' = HasRow(h)
      BY <2>1 DEF Rows, InsertHolds, HasRow
    <2> QED BY <2>1, <2>2, <2>3 DEF DeleteInv
  <1>5. ASSUME NEW c \in Callers, DeleteGameRow(c) \/ RollbackDelete(c) PROVE DeleteInv'
    <2>1. \/ DeleteGameRow(c) /\ Become(c, "game_deleted") /\ UNCHANGED <<gone, target>>
             /\ HasRow(target[c]) /\ Rows(target[c]) \subseteq gone[c]
          \/ EndDelete(c) /\ UNCHANGED <<outcome, moves, adds, tx>>
      BY <1>5 DEF DeleteGameRow, RollbackDelete, database
    <2>2. CASE /\ DeleteGameRow(c) /\ Become(c, "game_deleted") /\ UNCHANGED <<gone, target>>
               /\ HasRow(target[c]) /\ Rows(target[c]) \subseteq gone[c]
      <3>1. /\ UNCHANGED <<outcome, moves, adds, tx, gone, target>>
            /\ pc' = [pc EXCEPT ![c] = "game_deleted"]
            /\ ~DeleteHolds(target[c]) /\ ~InsertHolds(target[c])
            /\ HasRow(target[c]) /\ Rows(target[c]) \subseteq gone[c]
            /\ pc[c] = "moves_deleted"
        BY <2>2 DEF DeleteGameRow, Become, database
      <3>2. \A d \in Callers : pc'[d] = IF d = c THEN "game_deleted" ELSE pc[d]
        BY <3>1 DEF TypeOK
      <3>3. \A h : Rows(h)' = Rows(h) /\ InsertHolds(h)' = InsertHolds(h) /\ HasRow(h)' = HasRow(h)
        BY <3>1 DEF Rows, InsertHolds, HasRow
      <3>4. \A d \in Callers : pc[d] = "game_deleted" => target[d] # target[c]
        BY <3>1 DEF DeleteHolds
      <3>5. \A d \in Callers : pc'[d] = "game_deleted" =>
              /\ HasRow(target[d])' /\ Rows(target[d])' \subseteq gone'[d] /\ ~InsertHolds(target[d])'
              /\ \A e \in Callers : pc'[e] = "game_deleted" /\ target'[e] = target'[d] => e = d
        BY <3>1, <3>2, <3>3, <3>4 DEF DeleteInv
      <3>6. \A i \in DOMAIN adds' : adds'[i].state = "inserted" => HasRow(adds[i].game)'
        BY <3>1, <3>3 DEF DeleteInv
      <3> QED BY <3>1, <3>2, <3>5, <3>6 DEF DeleteInv
    <2>3. CASE EndDelete(c) /\ UNCHANGED <<outcome, moves, adds, tx>>
      <3>1. \A d \in Callers : /\ pc'[d] = IF d = c THEN "idle" ELSE pc[d]
                               /\ target'[d] = IF d = c THEN NoGame ELSE target[d]
                               /\ gone'[d] = IF d = c THEN {} ELSE gone[d]
        BY <2>3 DEF EndDelete, Become, TypeOK
      <3>2. \A h : Rows(h)' = Rows(h) /\ InsertHolds(h)' = InsertHolds(h) /\ HasRow(h)' = HasRow(h)
        BY <2>3 DEF Rows, InsertHolds, HasRow
      <3>3. \A d \in Callers : pc'[d] \in {"moves_deleted", "game_deleted", "adding"} => d # c
        BY <3>1
      <3> QED BY <2>3, <3>1, <3>2, <3>3 DEF DeleteInv
    <2> QED BY <2>1, <2>2, <2>3
  <1>6. ASSUME NEW c \in Callers, CommitDelete(c) PROVE DeleteInv'
    <2>1. /\ pc[c] = "game_deleted" /\ target[c] \in Games
          /\ UNCHANGED <<adds, tx>>
          /\ outcome' = [outcome EXCEPT ![target[c]] = "deleted"]
      BY <1>6 DEF CommitDelete, DeleteInv
    <2>2. \A d \in Callers : /\ pc'[d] = IF d = c THEN "idle" ELSE pc[d]
                             /\ target'[d] = IF d = c THEN NoGame ELSE target[d]
                             /\ gone'[d] = IF d = c THEN {} ELSE gone[d]
      BY <1>6 DEF CommitDelete, EndDelete, Become, TypeOK
    <2>3. \A h : Rows(h)' \subseteq Rows(h) /\ InsertHolds(h)' = InsertHolds(h)
      BY <1>6, <2>1, CommitDeleteRows DEF InsertHolds
    <2>4. \A h \in Games : h # target[c] => HasRow(h)' = HasRow(h)
      BY <2>1 DEF HasRow, TypeOK
    <2>5. \A d \in Callers : pc'[d] = "game_deleted" =>
            d # c /\ target'[d] = target[d] /\ target[d] \in Games /\ target[d] # target[c]
      BY <2>1, <2>2 DEF DeleteInv
    <2>6. \A d \in Callers : pc'[d] = "game_deleted" =>
            /\ HasRow(target[d])' /\ Rows(target[d])' \subseteq gone'[d] /\ ~InsertHolds(target[d])'
            /\ \A e \in Callers : pc'[e] = "game_deleted" /\ target'[e] = target'[d] => e = d
      BY <2>2, <2>3, <2>4, <2>5 DEF DeleteInv
    <2>7. \A i \in DOMAIN adds' : adds'[i].state = "inserted" => HasRow(adds[i].game)'
      <3>1. \A i \in DOMAIN adds : adds[i].state = "inserted" => adds[i].game # target[c]
        BY <2>1 DEF DeleteInv, InsertHolds
      <3> QED BY <2>1, <2>4, <3>1, AddType DEF DeleteInv
    <2>8. \A d \in Callers : pc'[d] \in {"moves_deleted", "game_deleted", "adding"} => d # c
      BY <2>2
    <2> QED BY <2>1, <2>2, <2>6, <2>7, <2>8 DEF DeleteInv
  <1>7. ASSUME NEW c \in Callers, SecondFailurePanics(c) PROVE DeleteInv'
    BY <1>7 DEF SecondFailurePanics, DeleteInv, database, HasRow
  <1>8. ASSUME NEW i \in DOMAIN adds,
               SelectCounter(i) \/ InsertMove(i) \/ CommitMove(i) \/ AbortMove(i)
        PROVE  DeleteInv'
    <2>1. /\ DOMAIN adds' = DOMAIN adds
          /\ \A j \in DOMAIN adds : j # i => adds'[j] = adds[j]
          /\ adds'[i].game = adds[i].game
          /\ UNCHANGED <<outcome, pc, tx, target, gone>>
          /\ adds'[i].state = "inserted" => HasRow(adds[i].game)
      BY <1>8, AddGoesOn DEF callers
    <2>2. adds'[i].state = "inserted" => ~DeleteHolds(adds[i].game)
      BY <1>8, AddGoesOn DEF InsertMove
    <2>3. \A c \in Callers : pc[c] = "game_deleted" => ~InsertHolds(target[c])'
      BY <2>1, <2>2 DEF DeleteInv, InsertHolds, DeleteHolds
    <2>4. \A c \in Callers : pc[c] = "game_deleted" => Rows(target[c])' \subseteq gone[c]
      <3>1. CASE CommitMove(i)
        <4>1. adds[i].state = "inserted"
          BY <3>1 DEF CommitMove
        <4>2. \A c \in Callers : pc[c] = "game_deleted" => target[c] # adds[i].game
          BY <4>1 DEF DeleteInv, InsertHolds
        <4> QED BY <2>1, <3>1, <4>2, CommitMoveRows DEF DeleteInv
      <3>2. CASE ~CommitMove(i)
        <4>1. UNCHANGED moves
          BY <1>8, <3>2, AddGoesOn
        <4> QED BY <2>1, <4>1 DEF DeleteInv, Rows
      <3> QED BY <3>1, <3>2
    <2> QED BY <2>1, <2>3, <2>4 DEF DeleteInv, HasRow
  <1>9. CASE Restart
    BY <1>9 DEF Restart, database, DeleteInv, HasRow
  <1>10. CASE UNCHANGED vars
    BY <1>10 DEF vars, database, callers, DeleteInv, HasRow, Rows, InsertHolds
  <1> QED
    BY <1>1, <1>2, <1>3, <1>4, <1>5, <1>6, <1>7, <1>8, <1>9, <1>10 DEF Next

LEMMA RowsFinite ==
    ASSUME RowInv, NEW g
    PROVE  IsFiniteSet(Rows(g)) /\ Cardinality(Rows(g)) \in Nat
  <1>1. Rows(g) \subseteq moves
    BY DEF Rows
  <1> QED BY <1>1, FS_Subset, FS_CardinalityType DEF RowInv

(* The row of a move that is committed in turn comes last. *)
LEMMA RowInTurn ==
    ASSUME TypeOK, RowInv, NEW i \in DOMAIN adds, NEW g \in Games,
           adds[i].game = g, adds[i].number = Cardinality(Rows(g)) + 1,
           {r.number : r \in Rows(g)} = 1..Cardinality(Rows(g)),
           \A r, s \in Rows(g) : r.time < s.time => r.number < s.number,
           \A r \in Rows(g) : r.time < i,
           NEW rows, rows = Rows(g) \cup {RowOf(i)}
    PROVE  /\ {r.number : r \in rows} = 1..Cardinality(rows)
           /\ \A r, s \in rows : r.time < s.time => r.number < s.number
  <1> DEFINE n == Cardinality(Rows(g))
  <1>1. RowOf(i).number = n + 1 /\ RowOf(i).time = i /\ i \in Nat
    BY AddType DEF RowOf
  <1>2. RowOf(i) \notin Rows(g)
    BY <1>1
  <1>3. n \in Nat /\ Cardinality(rows) = n + 1
    BY <1>2, RowsFinite, FS_AddElement
  <1>4. \A r \in Rows(g) : r.number \in 1..n /\ r.time \in Nat
    BY DEF Rows, TypeOK, Row
  <1> HIDE DEF n
  <1>5. {r.number : r \in rows} = 1..n + 1
    <2>1. {r.number : r \in rows} = {r.number : r \in Rows(g)} \cup {n + 1}
      BY <1>1
    <2> QED BY <1>3, <2>1 DEF n
  <1>6. ASSUME NEW r \in rows, NEW s \in rows, r.time < s.time PROVE r.number < s.number
    <2>1. CASE r \in Rows(g) /\ s \in Rows(g)
      BY <1>6, <2>1
    <2>2. CASE r \in Rows(g) /\ s = RowOf(i)
      BY <1>1, <1>3, <1>4, <2>2
    <2>3. CASE r = RowOf(i)
      <3>1. s = RowOf(i) \/ s.time < i
        OBVIOUS
      <3>2. CASE s = RowOf(i)
        BY <1>1, <1>6, <2>3, <3>2
      <3>3. CASE s \in Rows(g)
        BY <1>1, <1>4, <1>6, <2>3, <3>3
      <3> QED BY <3>2, <3>3
    <2> QED BY <2>1, <2>2, <2>3
  <1> QED BY <1>3, <1>5, <1>6

LEMMA NextSerialInv == IInv /\ [Next]_vars => SerialInv'
  <1> SUFFICES ASSUME IInv, [Next]_vars, NEW g \in Games, g \notin concurrent' PROVE Serial(g)'
    BY DEF SerialInv
  <1> USE PersistenceAssumption
  <1>1. g \notin concurrent /\ Serial(g)
    <2>1. concurrent \subseteq concurrent'
      <3>1. \A c \in Callers, h \in Games : AddMoveToMemory(c, h) => concurrent \subseteq concurrent'
        BY DEF AddMoveToMemory
      <3>2. \A c \in Callers : CallerStep(c) => UNCHANGED concurrent
        BY CallerStepQuiet
      <3>3. \A c \in Callers : AddMoveAnswer(c) \/ CommitDelete(c) => UNCHANGED concurrent
        BY DEF AddMoveAnswer, CommitDelete, histories
      <3>4. \A c \in Callers, h \in Games :
              InitiateNewGame(c, h) \/ (\E s \in LastMoves : Persist_EndGame(c, h, s))
              => UNCHANGED concurrent
        BY DEF InitiateNewGame, Persist_EndGame, histories
      <3>5. \A i \in DOMAIN adds : SelectCounter(i) \/ InsertMove(i) \/ CommitMove(i) \/ AbortMove(i)
              => UNCHANGED concurrent
        BY DEF SelectCounter, InsertMove, CommitMove, AbortMove, histories
      <3>6. Restart \/ UNCHANGED vars => UNCHANGED concurrent
        BY DEF Restart, vars, histories
      <3> QED BY <3>1, <3>2, <3>3, <3>4, <3>5, <3>6 DEF Next, CallerStep
    <2> QED BY <2>1 DEF IInv, SerialInv
  <1>2. ASSUME NEW c \in Callers, NEW h \in Games,
               InitiateNewGame(c, h) \/ \E s \in LastMoves : Persist_EndGame(c, h, s)
        PROVE  Serial(g)'
    <2>1. /\ UNCHANGED <<moves, adds>>
          /\ outcome'[g] # "deleted" => outcome[g] # "deleted"
      BY <1>2 DEF InitiateNewGame, Persist_EndGame, IInv, TypeOK, HasRow, GameOutcome
    <2> QED BY <1>1, <2>1 DEF Serial, Rows, InProgress
  <1>3. ASSUME NEW c \in Callers, NEW h \in Games, AddMoveToMemory(c, h) PROVE Serial(g)'
    <2> DEFINE a == [game |-> h, state |-> "begun", number |-> 0]
               n == Len(adds) + 1
    <2>1. UNCHANGED <<outcome, moves>> /\ adds' = Append(adds, a)
      BY <1>3 DEF AddMoveToMemory
    <2>2. /\ DOMAIN adds' = DOMAIN adds \cup {n} /\ n \notin DOMAIN adds
          /\ \A i \in DOMAIN adds : adds'[i] = adds[i] /\ i < n
          /\ adds'[n] = a
      BY <2>1 DEF IInv, TypeOK
    <2>3. a.state = "begun" /\ a.game = h
      OBVIOUS
    <2>4. h = g => \A i \in DOMAIN adds : ~(InProgress(i) /\ adds[i].game = g)
      BY <1>3 DEF AddMoveToMemory
    <2> HIDE DEF a, n
    <2>5. Rows(g)' = Rows(g) /\ \A i \in DOMAIN adds : InProgress(i)' = InProgress(i)
      BY <2>1, <2>2 DEF Rows, InProgress
    <2>6. \A r \in Rows(g) : r.time < n
      BY <2>2 DEF Rows, IInv, RowInv
    <2>7. ASSUME NEW i \in DOMAIN adds', InProgress(i)', adds'[i].game = g
          PROVE  /\ \A j \in DOMAIN adds' : InProgress(j)' /\ adds'[j].game = g => j = i
                 /\ \A r \in Rows(g)' : r.time < i
                 /\ adds'[i].state # "begun" /\ outcome'[g] # "deleted" =>
                        adds'[i].number = Cardinality(Rows(g)') + 1
      <3>1. CASE i = n
        BY <2>1, <2>2, <2>3, <2>4, <2>5, <2>6, <2>7, <3>1
      <3>2. CASE i # n
        <4>1. i \in DOMAIN adds /\ InProgress(i) /\ adds[i].game = g
          BY <2>2, <2>5, <2>7, <3>2
        <4> QED BY <1>1, <2>1, <2>2, <2>3, <2>4, <2>5, <4>1 DEF Serial
      <3> QED BY <3>1, <3>2
    <2> QED BY <1>1, <2>5, <2>7 DEF Serial
  <1>4. ASSUME NEW c \in Callers, CommitDelete(c) PROVE Serial(g)'
    <2>1. /\ UNCHANGED adds
          /\ outcome' = [outcome EXCEPT ![target[c]] = "deleted"]
          /\ Rows(g)' = IF g = target[c] THEN {} ELSE Rows(g)
      BY <1>4, CommitDeleteRows DEF CommitDelete, IInv
    <2>2. CASE g # target[c]
      BY <1>1, <2>1, <2>2 DEF Serial, InProgress
    <2>3. CASE g = target[c]
      <3>1. Rows(g)' = {} /\ Cardinality({}) = 0 /\ outcome'[g] = "deleted"
        BY <2>1, <2>3, FS_EmptySet DEF IInv, TypeOK
      <3>2. {r.number : r \in {}} = 1..0
        OBVIOUS
      <3> QED BY <1>1, <2>1, <3>1, <3>2 DEF Serial, InProgress
    <2> QED BY <2>2, <2>3
  <1>5. ASSUME NEW i \in DOMAIN adds, SelectCounter(i) \/ InsertMove(i) \/ AbortMove(i)
        PROVE  Serial(g)'
    <2>1. /\ DOMAIN adds' = DOMAIN adds
          /\ \A j \in DOMAIN adds : j # i => adds'[j] = adds[j]
          /\ InProgress(i) /\ adds'[i].game = adds[i].game
          /\ UNCHANGED <<outcome, moves>>
      BY <1>5, AddGoesOn DEF IInv, SelectCounter, InsertMove, AbortMove
    <2>2. \A j \in DOMAIN adds : InProgress(j)' => InProgress(j)
      BY <2>1 DEF InProgress
    <2>3. Rows(g)' = Rows(g)
      BY <2>1 DEF Rows
    <2>4. adds[i].game = g /\ InProgress(i)' /\ outcome[g] # "deleted" =>
            adds'[i].number = Cardinality(Rows(g)) + 1
      <3>1. CASE SelectCounter(i)
        <4>1. adds'[i].number = NextCounter(adds[i].game)
          BY <3>1, AddGoesOn DEF IInv
        <4>2. NextCounter(g) = Cardinality(Rows(g)) + 1
          BY <1>1, RowsFinite, NextCounterType DEF IInv, Serial
        <4> QED BY <4>1, <4>2
      <3>2. CASE InsertMove(i)
        <4>1. adds[i].state = "read" /\ ~SelectCounter(i)
          BY <3>2 DEF InsertMove, SelectCounter
        <4>2. adds'[i].number = adds[i].number
          BY <3>2, <4>1, AddGoesOn DEF IInv
        <4> QED BY <1>1, <2>1, <4>1, <4>2 DEF Serial
      <3>3. CASE AbortMove(i)
        <4>1. adds'[i].state = "aborted"
          BY <3>3, AddGoesOn DEF IInv
        <4> QED BY <4>1 DEF InProgress
      <3> QED BY <1>5, <3>1, <3>2, <3>3
    <2> QED BY <1>1, <2>1, <2>2, <2>3, <2>4 DEF Serial
  <1>6. ASSUME NEW i \in DOMAIN adds, CommitMove(i) PROVE Serial(g)'
    <2>1. /\ DOMAIN adds' = DOMAIN adds
          /\ \A j \in DOMAIN adds : j # i => adds'[j] = adds[j]
          /\ InProgress(i) /\ adds'[i].game = adds[i].game /\ adds'[i].state = "committed"
          /\ adds[i].state = "inserted"
          /\ UNCHANGED outcome
          /\ Rows(g)' = IF g = adds[i].game THEN Rows(g) \cup {RowOf(i)} ELSE Rows(g)
      BY <1>6, AddGoesOn, CommitMoveRows DEF IInv, CommitMove
    <2>2. ~InProgress(i)' /\ \A j \in DOMAIN adds : j # i => InProgress(j)' = InProgress(j)
      BY <2>1 DEF InProgress
    <2>3. CASE g # adds[i].game
      BY <1>1, <2>1, <2>2, <2>3 DEF Serial
    <2>4. CASE g = adds[i].game
      <3>1. outcome[g] # "deleted"
        BY <2>1, <2>4 DEF IInv, DeleteInv, HasRow, GameOutcome
      <3>2. adds[i].number = Cardinality(Rows(g)) + 1 /\ \A r \in Rows(g) : r.time < i
        BY <1>1, <2>1, <2>4, <3>1 DEF Serial
      <3>3. /\ {r.number : r \in Rows(g)'} = 1..Cardinality(Rows(g)')
            /\ \A r, s \in Rows(g)' : r.time < s.time => r.number < s.number
        BY <1>1, <2>1, <2>4, <3>2, RowInTurn DEF IInv, Serial
      <3>4. \A j \in DOMAIN adds : InProgress(j)' => adds[j].game # g
        BY <1>1, <2>1, <2>2, <2>4 DEF Serial
      <3>5. \A j \in DOMAIN adds' : adds'[j].game = adds[j].game
        BY <2>1
      <3>6. \A j \in DOMAIN adds' : ~(InProgress(j)' /\ adds'[j].game = g)
        BY <2>1, <3>4, <3>5
      <3> QED BY <3>3, <3>6 DEF Serial
    <2> QED BY <2>3, <2>4
  <1>7. ASSUME NEW c \in Callers, CallerStep(c) \/ AddMoveAnswer(c) PROVE Serial(g)'
    <2>1. UNCHANGED <<outcome, moves, adds>>
      BY <1>7, CallerStepQuiet DEF AddMoveAnswer, database
    <2> QED BY <1>1, <2>1 DEF Serial, Rows, InProgress
  <1>8. CASE Restart \/ UNCHANGED vars
    BY <1>1, <1>8 DEF Restart, vars, database, Serial, Rows, InProgress
  <1> QED
    BY <1>2, <1>3, <1>4, <1>5, <1>6, <1>7, <1>8 DEF Next, CallerStep

-----------------------------------------------------------------------------
(* The inductive invariant, for any callers, games and number of adds.     *)
THEOREM Inductive == Spec => []IInv
  <1>1. Init => IInv
    <2> SUFFICES ASSUME Init PROVE IInv
      OBVIOUS
    <2> USE PersistenceAssumption DEF Init
    <2>1. TypeOK
      BY DEF TypeOK
    <2>2. moves = {} /\ DOMAIN adds = {} /\ IsFiniteSet({}) /\ Cardinality({}) = 0
      BY FS_EmptySet
    <2>3. \A g : Rows(g) = {}
      BY <2>2 DEF Rows
    <2>4. RowInv
      BY <2>2, <2>3 DEF RowInv
    <2>5. DeleteInv
      BY <2>2 DEF DeleteInv
    <2>6. \A g \in Games : Serial(g)
      <3>1. {r.number : r \in {}} = 1..0
        OBVIOUS
      <3> QED BY <2>2, <2>3, <3>1 DEF Serial
    <2> QED BY <2>1, <2>4, <2>5, <2>6 DEF IInv, SerialInv
  <1>2. IInv /\ [Next]_vars => IInv'
    BY NextTypeOK, NextRowInv, NextDeleteInv, NextSerialInv DEF IInv
  <1> QED BY <1>1, <1>2, PTL DEF Spec

(* Every state of the database and of its callers has its type: outcomes   *)
(* are those of game_outcome, counters are numbers (the tables).            *)
THEOREM TypeCorrect == Spec => []TypeOK
  <1>1. IInv => TypeOK
    BY DEF IInv
  <1> QED BY <1>1, Inductive, PTL

(* Adds of a game that never overlapped are numbered 1, 2, 3, ...           *)
(* (add_new_move), however many.                                            *)
THEOREM MovesNumberedInTurn == Spec => []NumberedInTurn
  <1>1. IInv => NumberedInTurn
    BY DEF IInv, SerialInv, Serial, NumberedInTurn
  <1> QED BY <1>1, Inductive, PTL

(* What was acknowledged is stored under the counter given, until its game *)
(* is deleted (AddMoveToMemory).                                            *)
THEOREM AcknowledgedAreStored == Spec => []AcknowledgedIsStored
  <1>1. IInv => AcknowledgedIsStored
    <2> SUFFICES ASSUME IInv, NEW a \in acknowledged, HasRow(adds[a.tx].game)
                 PROVE  [game |-> adds[a.tx].game, number |-> a.counter, time |-> a.tx] \in moves
      BY DEF AcknowledgedIsStored
    <2>1. a.tx \in DOMAIN adds /\ adds[a.tx].state = "committed" /\ a.counter = adds[a.tx].number
      BY DEF IInv, RowInv
    <2> QED BY <2>1 DEF IInv, RowInv, RowOf
  <1> QED BY <1>1, Inductive, PTL

(* A game and its moves are deleted together, and in no other way, however  *)
(* adds and other deletes come between (DeleteGame, delete_game).           *)
THEOREM GamesDeletedWhole == Spec => DeletesAllOrNothing
  <1> DEFINE A == \A g \in Games :
                    (\/ \E r \in Rows(g) : r \notin moves'
                     \/ HasRow(g) /\ ~HasRow(g)')
                    => ~HasRow(g)' /\ Rows(g)' = {}
  <1>1. IInv /\ [Next]_vars => A
    <2> SUFFICES ASSUME IInv, [Next]_vars PROVE A
      OBVIOUS
    <2>1. ASSUME NEW c \in Callers, CommitDelete(c) PROVE A
      <3>1. /\ outcome' = [outcome EXCEPT ![target[c]] = "deleted"]
            /\ \A g : Rows(g)' = IF g = target[c] THEN {} ELSE Rows(g)
        BY <2>1, CommitDeleteRows DEF CommitDelete, IInv
      <3>2. \A g \in Games : IF g = target[c] THEN ~HasRow(g)' ELSE HasRow(g)' = HasRow(g)
        BY <3>1 DEF HasRow, GameOutcome, IInv, TypeOK
      <3>3. \A g : (\E r \in Rows(g) : r \notin moves') => Rows(g)' # Rows(g)
        BY DEF Rows
      <3> QED BY <3>1, <3>2, <3>3
    <2>2. ASSUME moves \subseteq moves', \A g \in Games : HasRow(g) => HasRow(g)' PROVE A
      BY <2>2 DEF Rows
    <2>3. ASSUME NEW c \in Callers, NEW g \in Games,
                 InitiateNewGame(c, g) \/ \E s \in LastMoves : Persist_EndGame(c, g, s)
          PROVE  moves \subseteq moves' /\ \A h \in Games : HasRow(h) => HasRow(h)'
      BY <2>3 DEF InitiateNewGame, Persist_EndGame, HasRow, GameOutcome, IInv, TypeOK
    <2>4. ASSUME NEW i \in DOMAIN adds,
                 SelectCounter(i) \/ InsertMove(i) \/ CommitMove(i) \/ AbortMove(i)
          PROVE  moves \subseteq moves' /\ UNCHANGED outcome
      BY <2>4 DEF SelectCounter, InsertMove, CommitMove, AbortMove
    <2>5. ASSUME NEW c \in Callers, CallerStep(c) \/ AddMoveAnswer(c)
          PROVE  UNCHANGED <<moves, outcome>>
      BY <2>5, CallerStepQuiet DEF AddMoveAnswer, database
    <2>6. ASSUME NEW c \in Callers, NEW g \in Games, AddMoveToMemory(c, g)
          PROVE  UNCHANGED <<moves, outcome>>
      BY <2>6 DEF AddMoveToMemory
    <2>7. CASE Restart \/ UNCHANGED vars
      BY <2>2, <2>7 DEF Restart, vars, database, HasRow
    <2>8. ASSUME moves \subseteq moves', UNCHANGED outcome PROVE A
      BY <2>2, <2>8 DEF HasRow
    <2> HIDE DEF A
    <2> QED
      BY <2>1, <2>2, <2>3, <2>4, <2>5, <2>6, <2>7, <2>8 DEF Next, CallerStep
  <1>2. []IInv /\ [][Next]_vars => [][A]_vars
    <2>1. IInv /\ [Next]_vars => [A]_vars
      BY <1>1
    <2> HIDE DEF A
    <2> QED BY <2>1, PTL
  <1> QED BY <1>2, Inductive, PTL DEF Spec, DeletesAllOrNothing

(* The rows after one of a game numbered in turn. *)
LEMMA NewerRows ==
    ASSUME TypeOK, RowInv, NEW g \in Games, Serial(g), NEW r \in Rows(g)
    PROVE  /\ IsFiniteSet({s \in Rows(g) : s.time > r.time})
           /\ Cardinality({s \in Rows(g) : s.time > r.time}) = Cardinality(Rows(g)) - r.number
  <1> DEFINE n == Cardinality(Rows(g))
             newer == {s \in Rows(g) : s.time > r.time}
             numbers == (r.number + 1)..n
             f == [s \in newer |-> s.number]
  <1>1. n \in Nat /\ IsFiniteSet(Rows(g))
    BY RowsFinite
  <1>2. \A s \in Rows(g) : s.number \in 1..n /\ s.time \in Nat
    BY DEF Serial, Rows, TypeOK, Row
  <1>3. \A s, t \in Rows(g) : s.time = t.time => s = t
    BY DEF RowInv, Rows, RowOf
  <1>4. \A s, t \in Rows(g) : s.time < t.time => s.number < t.number
    BY DEF Serial
  <1>5. \A s, t \in Rows(g) : s.number = t.number => s = t
    BY <1>2, <1>3, <1>4
  <1>6. \A m \in 1..n : \E s \in Rows(g) : s.number = m
    BY DEF Serial
  <1> HIDE DEF n
  <1>7. \A s \in Rows(g) : s.time > r.time <=> s.number > r.number
    BY <1>2, <1>3, <1>4
  <1>8. f \in Bijection(newer, numbers)
    <2>1. \A s \in newer : f[s] \in numbers
      BY <1>1, <1>2, <1>7
    <2>2. \A s, t \in newer : f[s] = f[t] => s = t
      BY <1>5
    <2>3. \A m \in numbers : \E s \in newer : f[s] = m
      BY <1>1, <1>2, <1>6, <1>7
    <2> QED BY <2>1, <2>2, <2>3 DEF Bijection, Injection, Surjection, IsInjective
  <1>9. IsFiniteSet(newer)
    BY <1>1, FS_Subset
  <1>10. IsFiniteSet(numbers) /\ Cardinality(numbers) = n - r.number
    BY <1>1, <1>2, FS_Interval
  <1>11. Cardinality(newer) = Cardinality(numbers)
    BY <1>8, <1>9, FS_Bijection DEF ExistsBijection
  <1> QED BY <1>9, <1>10, <1>11 DEF n

(* An answer is the beginning of the latest three. *)
LEMMA FetchedFromLatest ==
    ASSUME RowInv, NEW g \in Games, NEW latestMoves \in Fetched(g),
           NEW k \in DOMAIN latestMoves
    PROVE  k \in DOMAIN LatestThree(g) /\ latestMoves[k] = LatestThree(g)[k]
  <1> DEFINE n == Cardinality(Rows(g))
             top == IF n < 3 THEN n ELSE 3
  <1>1. DOMAIN LatestThree(g) = 1..top
    BY DEF LatestThree
  <1>2. PICK length \in {0} \cup DOMAIN LatestThree(g) :
            latestMoves = [i \in 1..length |-> LatestThree(g)[i]]
    BY DEF Fetched
  <1>3. k \in 1..length /\ latestMoves[k] = LatestThree(g)[k]
    BY <1>2
  <1>4. top \in Nat
    <2>1. n \in Nat
      BY RowsFinite
    <2> HIDE DEF n
    <2> QED BY <2>1
  <1> HIDE DEF top
  <1>5. k \in Int /\ 1 <= k /\ k <= length /\ length <= top
    <2>1. length \in 0..top
      BY <1>1, <1>2, <1>4
    <2> QED BY <1>3, <1>4, <2>1
  <1>6. k \in 1..top
    <2>1. length \in 0..top
      BY <1>1, <1>2, <1>4
    <2> QED BY <1>4, <1>5, <2>1
  <1> QED BY <1>1, <1>3, <1>6

(* A fetch of a game numbered in turn gives its latest moves by number, the *)
(* latest first and none left out between (FetchLatestThreeMovesInGame).    *)
THEOREM LatestAreFetched == Spec => []FetchedInTurn
  <1>1. IInv => FetchedInTurn
    <2> SUFFICES ASSUME IInv, NEW g \in Games, Serial(g), NEW k \in DOMAIN LatestThree(g)
                 PROVE  LatestThree(g)[k].number = Cardinality(Rows(g)) + 1 - k
      BY FetchedFromLatest DEF FetchedInTurn, IInv, SerialInv
    <2> DEFINE n == Cardinality(Rows(g))
               newer(r) == {s \in Rows(g) : s.time > r.time}
    <2>1. n \in Nat
      BY RowsFinite DEF IInv
    <2>2. k \in 1..n /\ LatestThree(g)[k] = CHOOSE r \in Rows(g) : Cardinality(newer(r)) = k - 1
      <3> DEFINE length == IF n < 3 THEN n ELSE 3
      <3>1. LatestThree(g) = [i \in 1..length |-> CHOOSE r \in Rows(g) : Cardinality(newer(r)) = i - 1]
        BY DEF LatestThree
      <3>2. k \in 1..length /\ length <= n
        BY <2>1, <3>1
      <3> HIDE DEF n, newer, length
      <3>3. length \in Nat
        BY <2>1 DEF length
      <3> QED BY <2>1, <3>1, <3>2, <3>3
    <2>3. \A r \in Rows(g) : Cardinality(newer(r)) = n - r.number /\ r.number \in 1..n
      BY NewerRows DEF IInv, Serial
    <2>4. \E r \in Rows(g) : r.number = n + 1 - k
      <3>1. \A m \in 1..n : \E r \in Rows(g) : r.number = m
        BY DEF Serial
      <3> HIDE DEF n, newer
      <3> QED BY <2>1, <2>2, <3>1
    <2> HIDE DEF n, newer
    <2>5. \E r \in Rows(g) : Cardinality(newer(r)) = k - 1
      BY <2>1, <2>2, <2>3, <2>4
    <2>6. LatestThree(g)[k] \in Rows(g) /\ Cardinality(newer(LatestThree(g)[k])) = k - 1
      BY <2>2, <2>5
    <2>7. LatestThree(g)[k].number = n + 1 - k
      BY <2>1, <2>2, <2>3, <2>6
    <2> QED BY <2>7 DEF n
  <1> QED BY <1>1, Inductive, PTL

-----------------------------------------------------------------------------
(* What GameRecord sees of a state.                                         *)
Status == [g \in Games |-> IF HasRow(g) THEN "open" ELSE outcome[g]]
Confirmed == {Acknowledgement(a) : a \in {b \in acknowledged : HasRow(adds[b.tx].game)}}

LEMMA AcknowledgedRow ==
    ASSUME IInv, NEW a \in acknowledged
    PROVE  /\ a.tx \in DOMAIN adds /\ adds[a.tx].game \in Games
           /\ Acknowledgement(a) = RowOf(a.tx)
           /\ HasRow(adds[a.tx].game) => Acknowledgement(a) \in moves
  <1>1. a.tx \in DOMAIN adds /\ adds[a.tx].state = "committed" /\ a.counter = adds[a.tx].number
    BY DEF IInv, RowInv
  <1>2. adds[a.tx].game \in Games
    BY <1>1, AddType DEF IInv
  <1>3. Acknowledgement(a) = RowOf(a.tx)
    BY <1>1 DEF Acknowledgement, RowOf
  <1> QED BY <1>1, <1>2, <1>3 DEF IInv, RowInv

(* A step that gives no answer and takes no game with an answered add away. *)
LEMMA ConfirmedKept ==
    ASSUME IInv, acknowledged' = acknowledged,
           \A a \in acknowledged : /\ adds'[a.tx].game = adds[a.tx].game
                                   /\ HasRow(adds[a.tx].game)' = HasRow(adds[a.tx].game)
    PROVE  Confirmed' = Confirmed
  <1>1. \A a \in acknowledged : Acknowledgement(a)' = Acknowledgement(a)
    BY DEF Acknowledgement
  <1>2. {b \in acknowledged : HasRow(adds[b.tx].game)}'
          = {b \in acknowledged : HasRow(adds[b.tx].game)}
    OBVIOUS
  <1> QED BY <1>1, <1>2 DEF Confirmed

LEMMA RecordStutter ==
    ASSUME IInv, UNCHANGED <<moves, acknowledged, concurrent>>,
           \A g \in Games : HasRow(g)' = HasRow(g) /\ (HasRow(g) \/ outcome'[g] = outcome[g]),
           \A i \in DOMAIN adds : adds'[i].game = adds[i].game
    PROVE  UNCHANGED Record!vars
  <1>1. Status' = Status
    BY DEF Status
  <1>2. \A a \in acknowledged : a.tx \in DOMAIN adds /\ adds[a.tx].game \in Games
    BY AcknowledgedRow
  <1>3. \A a \in acknowledged : /\ adds'[a.tx].game = adds[a.tx].game
                                /\ HasRow(adds[a.tx].game)' = HasRow(adds[a.tx].game)
    BY <1>2 DEF HasRow
  <1>4. Confirmed' = Confirmed
    BY <1>3, ConfirmedKept
  <1> QED BY <1>1, <1>4 DEF Record!vars, Status, Confirmed

LEMMA InitiateBegins ==
    ASSUME IInv, NEW c \in Callers, NEW g \in Games, InitiateNewGame(c, g)
    PROVE  Record!Begin(g)
  <1>1. /\ outcome \in [Games -> GameOutcome \cup {"unused", "deleted"}]
        /\ outcome[g] = "unused" /\ outcome' = [outcome EXCEPT ![g] = "ongoing"]
        /\ UNCHANGED <<moves, adds, acknowledged, concurrent>>
    BY DEF InitiateNewGame, histories, IInv, TypeOK
  <1>2. /\ ~HasRow(g) /\ HasRow(g)'
        /\ \A h \in Games : h # g => HasRow(h)' = HasRow(h) /\ outcome'[h] = outcome[h]
    BY <1>1 DEF HasRow, GameOutcome
  <1>3. Status' = [Status EXCEPT ![g] = "open"] /\ Status[g] = "unused"
    BY <1>1, <1>2 DEF Status
  <1>4. \A a \in acknowledged : adds[a.tx].game \in Games /\ adds[a.tx].game # g
    <2>1. \A a \in acknowledged : a.tx \in DOMAIN adds /\ adds[a.tx].state = "committed"
      BY DEF IInv, RowInv
    <2>2. \A i \in DOMAIN adds : adds[i].state = "committed" => outcome[adds[i].game] # "unused"
      BY DEF IInv, RowInv
    <2> QED BY <1>1, <2>1, <2>2, AcknowledgedRow
  <1>5. \A a \in acknowledged : /\ adds'[a.tx].game = adds[a.tx].game
                                /\ HasRow(adds[a.tx].game)' = HasRow(adds[a.tx].game)
    BY <1>1, <1>2, <1>4 DEF HasRow
  <1>6. Confirmed' = Confirmed
    BY <1>1, <1>5, ConfirmedKept
  <1> QED BY <1>1, <1>3, <1>6 DEF Record!Begin, Status, Confirmed

LEMMA CommitGrows ==
    ASSUME IInv, NEW i \in DOMAIN adds, CommitMove(i)
    PROVE  \E g \in Games : Record!Grow(g)
  <1>0. PICK g \in Games : g = adds[i].game
    BY AddType DEF IInv
  <1>1. /\ adds[i].state = "inserted" /\ moves' = moves \cup {RowOf(i)}
        /\ UNCHANGED <<outcome, acknowledged, concurrent>>
        /\ i \in Nat
    BY AddType DEF CommitMove, RowOf, histories, IInv
  <1>2. HasRow(g) /\ Status[g] = "open"
    BY <1>0, <1>1 DEF IInv, DeleteInv, Status
  <1>3. RowOf(i) \notin moves /\ RowOf(i).game = g
        /\ RowOf(i).time = i /\ RowOf(i).number = adds[i].number
    BY <1>0, <1>1 DEF IInv, RowInv, RowOf
  <1>4. Status' = Status
    BY <1>1 DEF Status, HasRow
  <1>5. Confirmed' = Confirmed
    <2>1. \A j \in DOMAIN adds : adds'[j].game = adds[j].game
      BY AddGoesOn DEF IInv
    <2>2. \A a \in acknowledged : a.tx \in DOMAIN adds
      BY AcknowledgedRow
    <2>3. \A a \in acknowledged : /\ adds'[a.tx].game = adds[a.tx].game
                                  /\ HasRow(adds[a.tx].game)' = HasRow(adds[a.tx].game)
      BY <1>1, <2>1, <2>2 DEF HasRow
    <2> QED BY <1>1, <2>3, ConfirmedKept
  <1>6. ASSUME g \notin concurrent
        PROVE  /\ adds[i].number = 1 \/ \E r \in Rows(g) : adds[i].number = r.number + 1
               /\ \A r \in Rows(g) : r.number < adds[i].number /\ r.time < i
    <2> DEFINE n == Cardinality(Rows(g))
    <2>1. InProgress(i) /\ outcome[g] # "deleted"
      BY <1>1, <1>2 DEF InProgress, HasRow, GameOutcome
    <2>2. Serial(g)
      BY <1>6 DEF IInv, SerialInv
    <2>3. /\ {r.number : r \in Rows(g)} = 1..n /\ adds[i].number = n + 1 /\ n \in Nat
          /\ \A r \in Rows(g) : r.time < i
      BY <1>0, <1>1, <2>1, <2>2, RowsFinite DEF Serial, IInv
    <2> HIDE DEF n
    <2>4. \A r \in Rows(g) : r.number \in 1..n
      BY <2>3
    <2>5. CASE n = 0
      BY <2>3, <2>4, <2>5
    <2>6. CASE n # 0
      <3>1. n \in 1..n
        BY <2>3, <2>6
      <3>2. PICK r \in Rows(g) : r.number = n
        BY <2>3, <3>1, Zenon
      <3> QED BY <2>3, <2>4, <3>2
    <2> QED BY <2>5, <2>6
  <1>7. RowOf(i) \in moves' \ moves
    BY <1>1, <1>3
  <1>8. \E row \in moves' \ moves :
           /\ row.game = g
           /\ moves' = moves \cup {row}
           /\ g \notin concurrent =>
                 /\ row.number = 1 \/ \E r \in Rows(g) : row.number = r.number + 1
                 /\ \A r \in Rows(g) : r.number < row.number /\ r.time < row.time
    BY <1>1, <1>3, <1>6, <1>7
  <1>9. Record!Grow(g)
    BY <1>1, <1>2, <1>4, <1>5, <1>8 DEF Record!Grow, Record!Of, Rows, Status, Confirmed
  <1> QED BY <1>9

LEMMA AddOverlaps ==
    ASSUME IInv, NEW c \in Callers, NEW g \in Games, AddMoveToMemory(c, g)
    PROVE  Record!Next \/ UNCHANGED Record!vars
  <1>1. /\ UNCHANGED <<outcome, moves, acknowledged>>
        /\ concurrent' = concurrent \cup {g} \/ concurrent' = concurrent
        /\ adds' = Append(adds, [game |-> g, state |-> "begun", number |-> 0])
    BY DEF AddMoveToMemory
  <1>2. \A i \in DOMAIN adds : adds'[i] = adds[i]
    BY <1>1 DEF IInv, TypeOK
  <1>3. Status' = Status
    BY <1>1 DEF Status, HasRow
  <1>4. \A a \in acknowledged : /\ adds'[a.tx].game = adds[a.tx].game
                                /\ HasRow(adds[a.tx].game)' = HasRow(adds[a.tx].game)
    BY <1>1, <1>2, AcknowledgedRow DEF HasRow
  <1>5. Confirmed' = Confirmed
    BY <1>1, <1>4, ConfirmedKept
  <1>6. Record!Overlap(g) \/ UNCHANGED Record!vars
    BY <1>1, <1>3, <1>5 DEF Record!Overlap, Record!vars, Status, Confirmed
  <1> QED BY <1>6 DEF Record!Next

LEMMA AnswerConfirms ==
    ASSUME IInv, NEW c \in Callers, AddMoveAnswer(c)
    PROVE  Record!Next \/ UNCHANGED Record!vars
  <1> DEFINE i == tx[c]
  <1>1. UNCHANGED <<outcome, moves, adds, concurrent>> /\ i \in DOMAIN adds
    BY DEF AddMoveAnswer, database, IInv, DeleteInv
  <1>2. Status' = Status
    BY <1>1 DEF Status, HasRow
  <1>3. CASE acknowledged' = acknowledged
    BY <1>1, <1>3, RecordStutter DEF HasRow
  <1>4. CASE acknowledged' # acknowledged
    <2>1. /\ adds[i].state = "committed"
          /\ \E n \in 0..MaxAdds + 1 :
                /\ n <= adds[i].number
                /\ acknowledged' = acknowledged \cup
                     {[tx |-> i, counter |-> IF adds[i].number > n THEN adds[i].number ELSE n]}
      BY <1>4 DEF AddMoveAnswer
    <2>2. adds[i].number \in Nat
      BY <1>1, AddType DEF IInv
    <2> DEFINE b == [tx |-> i, counter |-> adds[i].number]
    <2>3. acknowledged' = acknowledged \cup {b}
      BY <2>1, <2>2, PersistenceAssumption
    <2>4. b.tx = i /\ Acknowledgement(b) = RowOf(i)
      BY DEF Acknowledgement, RowOf
    <2>5. \A a : Acknowledgement(a)' = Acknowledgement(a) /\ HasRow(adds[a.tx].game)' = HasRow(adds[a.tx].game)
      BY <1>1 DEF Acknowledgement, HasRow
    <2> HIDE DEF i, b
    <2>6. Confirmed' = {Acknowledgement(a) : a \in {d \in acknowledged' : HasRow(adds[d.tx].game)}}
      BY <2>5 DEF Confirmed
    <2>7. CASE HasRow(adds[i].game)
      <3>1. Confirmed' = Confirmed \cup {RowOf(i)}
        BY <2>3, <2>4, <2>6, <2>7 DEF Confirmed
      <3>2. RowOf(i) \in moves
        BY <1>1, <2>1, <2>7 DEF IInv, RowInv
      <3>3. Record!Confirm
        BY <1>1, <1>2, <3>1, <3>2 DEF Record!Confirm, Status, Confirmed
      <3> QED BY <3>3 DEF Record!Next
    <2>8. CASE ~HasRow(adds[i].game)
      <3>1. Confirmed' = Confirmed
        BY <2>3, <2>4, <2>6, <2>8 DEF Confirmed
      <3> QED BY <1>1, <1>2, <3>1 DEF Record!vars, Status, Confirmed
    <2> QED BY <2>7, <2>8
  <1> QED BY <1>3, <1>4

LEMMA DeleteDeletes ==
    ASSUME IInv, NEW c \in Callers, CommitDelete(c)
    PROVE  \E g \in Games : Record!Delete(g)
  <1>0. PICK g \in Games : g = target[c]
    BY DEF CommitDelete, IInv, DeleteInv
  <1>1. /\ HasRow(g) /\ outcome' = [outcome EXCEPT ![g] = "deleted"]
        /\ UNCHANGED <<adds, acknowledged, concurrent>>
        /\ moves' = moves \ gone[c]
        /\ \A r \in gone[c] : r.game = g
        /\ Rows(g) \subseteq gone[c]
    BY <1>0 DEF CommitDelete, histories, IInv, DeleteInv
  <1>2. moves' = moves \ Rows(g)
    BY <1>1 DEF Rows
  <1>3. /\ ~HasRow(g)' /\ outcome'[g] = "deleted"
        /\ \A h \in Games : h # g => HasRow(h)' = HasRow(h) /\ outcome'[h] = outcome[h]
    BY <1>1 DEF HasRow, GameOutcome, IInv, TypeOK
  <1>4. Status[g] = "open" /\ Status' = [Status EXCEPT ![g] = "deleted"]
    <2>1. Status'[g] = "deleted" /\ \A h \in Games : h # g => Status'[h] = Status[h]
      BY <1>3 DEF Status
    <2>2. Status' = [h \in Games |-> Status'[h]]
      BY Zenon DEF Status
    <2> QED BY <1>1, <2>1, <2>2 DEF Status
  <1>5. Confirmed' = Confirmed \ Rows(g)
    <2>1. \A a \in acknowledged :
             /\ adds[a.tx].game \in Games
             /\ HasRow(adds[a.tx].game)' <=> HasRow(adds[a.tx].game) /\ adds[a.tx].game # g
      BY <1>1, <1>3, AcknowledgedRow DEF HasRow
    <2>2. \A a \in acknowledged : /\ Acknowledgement(a)' = Acknowledgement(a)
                                  /\ Acknowledgement(a).game = adds[a.tx].game
      BY <1>1 DEF Acknowledgement
    <2>3. \A a \in acknowledged : HasRow(adds[a.tx].game) => Acknowledgement(a) \in moves
      BY AcknowledgedRow
    <2>4. \A a \in acknowledged : HasRow(adds[a.tx].game) =>
             (Acknowledgement(a) \in Rows(g) <=> adds[a.tx].game = g)
      BY <2>2, <2>3 DEF Rows
    <2>5. Confirmed' = {Acknowledgement(a) :
                          a \in {d \in acknowledged : HasRow(adds[d.tx].game) /\ adds[d.tx].game # g}}
      <3>1. {d \in acknowledged : HasRow(adds[d.tx].game)}'
              = {d \in acknowledged : HasRow(adds[d.tx].game) /\ adds[d.tx].game # g}
        BY <1>1, <2>1
      <3> QED BY <2>2, <3>1 DEF Confirmed
    <2> QED BY <2>4, <2>5 DEF Confirmed
  <1>6. Record!Delete(g)
    BY <1>1, <1>2, <1>4, <1>5 DEF Record!Delete, Record!Of, Rows, Status, Confirmed
  <1> QED BY <1>6

(* The transactions of add_new_move and delete_game, interleaved statement  *)
(* by statement, aborted, abandoned or answered late, and the server that   *)
(* panics and restarts, keep the record of games and moves: for any number  *)
(* of callers, games and moves.                                             *)
THEOREM RecordIsKept == Spec => KeepsTheRecord
  <1>1. Init => Record!Init
    <2> SUFFICES ASSUME Init PROVE Record!Init
      OBVIOUS
    <2>1. Status = [g \in Games |-> "unused"] /\ Confirmed = {}
      BY DEF Init, Status, HasRow, GameOutcome, Confirmed
    <2> QED BY <2>1 DEF Init, Record!Init, Status, Confirmed
  <1>2. IInv /\ [Next]_vars => [Record!Next]_(Record!vars)
    <2> SUFFICES ASSUME IInv, [Next]_vars
                 PROVE  Record!Next \/ UNCHANGED Record!vars
      OBVIOUS
    <2>1. ASSUME NEW c \in Callers, NEW g \in Games, InitiateNewGame(c, g)
          PROVE  Record!Next
      BY <2>1, InitiateBegins DEF Record!Next
    <2>2. ASSUME NEW c \in Callers, NEW g \in Games, NEW s \in LastMoves, Persist_EndGame(c, g, s)
          PROVE  UNCHANGED Record!vars
      <3>1. /\ UNCHANGED <<moves, adds, acknowledged, concurrent>>
            /\ \A h \in Games : HasRow(h)' = HasRow(h) /\ (HasRow(h) \/ outcome'[h] = outcome[h])
        BY <2>2 DEF Persist_EndGame, HasRow, histories, IInv, TypeOK
      <3> QED BY <3>1, RecordStutter
    <2>3. ASSUME NEW c \in Callers, NEW g \in Games, AddMoveToMemory(c, g)
          PROVE  Record!Next \/ UNCHANGED Record!vars
      BY <2>3, AddOverlaps
    <2>4. ASSUME NEW c \in Callers, AddMoveAnswer(c)
          PROVE  Record!Next \/ UNCHANGED Record!vars
      BY <2>4, AnswerConfirms
    <2>5. ASSUME NEW c \in Callers, CommitDelete(c)
          PROVE  Record!Next
      BY <2>5, DeleteDeletes DEF Record!Next
    <2>6. ASSUME NEW c \in Callers, CallerStep(c)
          PROVE  UNCHANGED Record!vars
      BY <2>6, CallerStepQuiet, RecordStutter DEF HasRow
    <2>7. ASSUME NEW i \in DOMAIN adds, SelectCounter(i) \/ InsertMove(i) \/ AbortMove(i)
          PROVE  UNCHANGED Record!vars
      <3>1. UNCHANGED <<outcome, moves, acknowledged, concurrent>>
        BY <2>7 DEF SelectCounter, InsertMove, AbortMove, histories
      <3>2. \A j \in DOMAIN adds : adds'[j].game = adds[j].game
        BY <2>7, AddGoesOn DEF IInv
      <3> QED BY <3>1, <3>2, RecordStutter DEF HasRow
    <2>8. ASSUME NEW i \in DOMAIN adds, CommitMove(i)
          PROVE  Record!Next
      BY <2>8, CommitGrows DEF Record!Next
    <2>9. CASE Restart \/ UNCHANGED vars
      BY <2>9, RecordStutter DEF Restart, vars, database, histories, HasRow
    <2> QED
      BY <2>1, <2>2, <2>3, <2>4, <2>5, <2>6, <2>7, <2>8, <2>9 DEF Next, CallerStep
  <1> QED
    BY <1>1, <1>2, Inductive, PTL DEF Spec, KeepsTheRecord, Record!Spec
=============================================================================
