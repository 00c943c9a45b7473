------------------------------- MODULE HexGame -------------------------------
(***************************************************************************)
(* One game at the referee (handleNewMoveEvent): a proposed move is        *)
(* checked against the moves so far, appended, put into the adjacency      *)
(* matrix of the player to move, and the position is evaluated.  The       *)
(* evaluation's thinning loop is one action per pass: its number of passes *)
(* is decided by the data, and one of the questions is whether it ends.    *)
(*                                                                         *)
(* allMoveList is what getAllMoveList returns and adj keeps one matrix for *)
(* each player, as TestWinCondition calls these functions.  The player in  *)
(* the context (currPlayerID) is the one whose turn the list says it is.   *)
(***************************************************************************)
EXTENDS HexBoard

CONSTANT Proposals    \* Proposals[n]: what may arrive when n - 1 moves are made

ASSUME ProposalsAssumption == Proposals \in Seq(SUBSET Candidate)

VARIABLES
    allMoveList,      \* the moves of both players, in order
    adj,              \* adj[p]: the matrix IncorporateNewVert last gave for p
    pc,               \* "idle" between events, "thin" in the loop, "panic"
    mover,            \* the player of the latest move
    numRows,          \* the loop's numRows (= numCols)
    thinnedMoveList,  \* the loop's thinnedMoveList
    declared,         \* players for whom EvalWinCondition has returned true
    accepted          \* history: the proposals that became moves

vars == <<allMoveList, adj, pc, mover, numRows, thinnedMoveList, declared, accepted>>
loopVars == <<numRows, thinnedMoveList>>

ToMove(moves) == IF Len(moves) % 2 = 0 THEN "A" ELSE "B"

(* What the evaluation works on: the player's own moves, flipped for B.    *)
OwnMoves(p, moves) ==
    extractPlayerMovesFromAllMoves(p, IF p = "B" THEN flipPlayerB(moves) ELSE moves)

(* A mutant: the opening tile counted for both players. *)
EnoughToWin_OneMore(p, moves) ==
    /\ Len(moves) >= 2 * SideLenGameboard
    /\ checkCondition2(OwnMoves(p, moves))

EnoughToWin(p, moves) ==
    /\ Len(moves) >= 2 * SideLenGameboard - 1
    /\ checkCondition2(OwnMoves(p, moves))

Init ==
    /\ allMoveList = <<>>
    /\ adj = [p \in Player |-> Empty]
    /\ pc = "idle"
    /\ mover = "A"
    /\ numRows = 0
    /\ thinnedMoveList = <<>>
    /\ declared = {}
    /\ accepted = {}

-----------------------------------------------------------------------------
Arriving == IF Len(allMoveList) < Len(Proposals)
            THEN Proposals[Len(allMoveList) + 1] ELSE {}

(* "illegal move attempted": the handler returns before it changes anything *)
Reject(c) ==
    /\ pc = "idle"
    /\ ~checkMoveValidity(c, allMoveList)
    /\ UNCHANGED vars

(* The move is made and the evaluation begins: it answers false at once, or *)
(* enters the thinning loop.                                                *)
Accept(c) ==
    LET p == ToMove(allMoveList)
        moves == Append(allMoveList, Proposed(c))
    IN  /\ pc = "idle"
        /\ checkMoveValidity(c, allMoveList)
        /\ allMoveList' = moves
        /\ adj' = [adj EXCEPT ![p] = IncorporateNewVert(p, moves, @, Proposed(c))]
        /\ mover' = p
        /\ accepted' = accepted \cup {c}
        /\ UNCHANGED declared
        /\ \/ /\ ~EnoughToWin(p, moves)
              /\ UNCHANGED <<pc, loopVars>>
           \/ /\ EnoughToWin(p, moves)
              /\ pc' = "thin"
              /\ numRows' = Len(OwnMoves(p, moves)) + 2
              /\ thinnedMoveList' = OwnMoves(p, moves)

handleNewMoveEvent == \E c \in Arriving : Reject(c) \/ Accept(c)

-----------------------------------------------------------------------------
(* One pass of the loop.  Every pass thins the full matrix again (the       *)
(* assignment inside the loop declares a new thinnedAdj); only numRows and  *)
(* thinnedMoveList carry over to the next pass, and the list is thinned     *)
(* with the matrix's indices.                                               *)
Low == lowDegreeNodes(adj[mover], numRows)
Thinned == ThinAdjacencyMat(adj[mover], Low)

DeclareWin ==
    /\ pc = "thin"
    /\ Low = {}
    /\ declared' = declared \cup {mover}
    /\ pc' = "idle"
    /\ UNCHANGED <<allMoveList, adj, mover, loopVars, accepted>>

ThinAgain ==
    /\ pc = "thin"
    /\ Low # {}
    /\ IF isSymmetric(Thinned)
       THEN /\ numRows' = Thinned.size
            /\ thinnedMoveList' = removeVerts_moveList(thinnedMoveList, Low)
            /\ pc' = IF checkCondition1(thinnedMoveList') /\ checkCondition2(thinnedMoveList')
                     THEN "thin" ELSE "idle"
       ELSE pc' = "panic" /\ UNCHANGED loopVars
    /\ UNCHANGED <<allMoveList, adj, mover, declared, accepted>>

EvalWinCondition == DeclareWin \/ ThinAgain

Next == handleNewMoveEvent \/ EvalWinCondition

Spec == Init /\ [][Next]_vars

(* A handler that has begun runs on: nothing blocks inside the loop.        *)
FairSpec == Spec /\ WF_vars(EvalWinCondition)

-----------------------------------------------------------------------------
(* Properties *)

TypeOK ==
    /\ allMoveList \in Seq(Vertex)
    /\ \A p \in Player : adj[p] \in Matrix(adj[p].size) /\ adj[p].size \in Nat
    /\ DOMAIN adj = Player
    /\ pc \in {"idle", "thin", "panic"}
    /\ mover \in Player
    /\ numRows \in Nat
    /\ thinnedMoveList \in Seq(Vertex)
    /\ declared \subseteq Player
    /\ accepted \subseteq Candidate

Cells(p) == {extractPlayerMovesFromAllMoves(p, allMoveList)[i] :
                i \in DOMAIN extractPlayerMovesFromAllMoves(p, allMoveList)}

Rules == INSTANCE HexRules WITH
            SideLen <- SideLenGameboard,
            tiles <- [p \in Player |-> Cells(p)],
            toMove <- ToMove(allMoveList)

(* Whatever proposals arrive, replayed ones included, the moves the handler *)
(* accepts play the board game: alternating, on the board, on free cells    *)
(* but for the swap (checkMoveValidity with the append in                   *)
(* IncorporateNewVert).                                                     *)
PlaysByTheRules == Rules!Spec

(* A proposal delivered twice is a move once: the turn number it names has  *)
(* passed (the "move out of order" check).                                  *)
ReplayRejected == Cardinality(accepted) = Len(allMoveList)

(* The symmetry check after thinning never fails, so the evaluation never   *)
(* panics: every edge is written in both directions, whatever is removed.   *)
NoPanic == pc # "panic"

(* No index of the matrix code is out of range: a player's matrix has a row *)
(* for each of that player's moves and the two hidden points, also after    *)
(* the other player's moves, and no pass looks past the matrix it reads.    *)
IndicesInBounds ==
    /\ \A p \in Player : adj[p].size = Len(OwnMoves(p, allMoveList)) + 2
    /\ pc = "thin" => numRows \in 2..adj[mover].size

(* Each hidden point stands for one column, though later moves write whole  *)
(* rows: the near one is linked to a player's tiles of the first column and *)
(* no others, the far one to those of one column, the same for both players *)
(* and for the whole game, and no others.  Which column that is stays open: *)
(* the last but one by the condition newVert.X == SideLenGameboard-1, the   *)
(* last by the comments beside it (gamelogic.go:197, 205, 215).             *)
HiddenEdgesByColumn ==
    \E far \in {SideLenGameboard - 1, SideLenGameboard} :
        \A p \in Player : \A i \in 1..Len(OwnMoves(p, allMoveList)) :
            LET column == OwnMoves(p, allMoveList)[i].X
            IN  /\ <<Near, i + 1>> \in adj[p].ones <=> column = 1
                /\ <<Far, i + 1>> \in adj[p].ones <=> column = far /\ column # 1

(* The matrix links two tiles of a player at all only once that player      *)
(* holds two tiles that touch, and then it does (getAdjacentVertices        *)
(* against the geometry of the board).                                      *)
TileEdgeIffTouch ==
    \A p \in Player :
        (\E e \in adj[p].ones : e[1] >= 2 /\ e[2] >= 2)
            <=> \E c, d \in Cells(p) : Rules!Touch(c, d)

(* The two quick checks never turn down a player whose tiles join the two   *)
(* edges (conditions 1 and 2 of EvalWinCondition).                          *)
QuickRejectSound ==
    \A p \in Player : Rules!Joined(p, Cells(p)) => EnoughToWin(p, allMoveList)

(* A player declared to have won holds a tile in every column: thinning     *)
(* with the wrong indices cannot make up columns the player lacks.          *)
DeclaredSpansBoard ==
    \A p \in declared : \A k \in 1..SideLenGameboard :
        \E c \in Cells(p) : Rules!Column(p, c) = k

-----------------------------------------------------------------------------
(* What comments of the source say and the code does not do *)

(* "Check if there is a path from one hidden point to the other": a player  *)
(* declared to have won has joined the two edges (EvalWinCondition).        *)
WinImpliesPath == \A p \in declared : Rules!Joined(p, Cells(p))

(* "after exhausting thinning": every evaluation comes to an answer.        *)
EvaluationAnswers == pc = "thin" ~> pc # "thin"
=============================================================================
