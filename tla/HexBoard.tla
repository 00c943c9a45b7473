------------------------------ MODULE HexBoard ------------------------------
(***************************************************************************)
(* The pure functions of server/gamelogic.go: the referee's adjacency      *)
(* matrices, the thinning of a matrix and of a move list, the two quick    *)
(* checks for a win, and the validation of a proposed move.                *)
(*                                                                         *)
(* A [][]int of zeros and ones is a record: its size and the set of        *)
(* <<row, column>> pairs (from 0) that hold a 1.  Every matrix here is     *)
(* built by make(n) x make(n), so one size is enough.  Move lists keep     *)
(* their order; a Go index i is position i + 1 of the sequence.            *)
(***************************************************************************)
EXTENDS Integers, Sequences, FiniteSets

CONSTANT SideLenGameboard

ASSUME SideLenAssumption == SideLenGameboard \in Nat \ {0}

Player == {"A", "B"}                 \* the values under CurrentPlayerIDKey
Vertex == [X : 1..SideLenGameboard, Y : 1..SideLenGameboard]

Matrix(n) == [size : {n}, ones : SUBSET ((0..n-1) \X (0..n-1))]
Both(i, j) == {<<i, j>>, <<j, i>>}
Near == 0                            \* the hidden point left of (below) the board
Far == 1                             \* the hidden point right of (above) it
Empty == [size |-> 2, ones |-> {}]   \* only the two hidden points, no edges

-----------------------------------------------------------------------------
(* Move lists *)

FirstIndex(p) == IF p = "B" THEN 1 ELSE 0

extractPlayerMovesFromAllMoves(p, allMoveList) ==
    [i \in 1..((Len(allMoveList) + 1 - FirstIndex(p)) \div 2) |->
        allMoveList[2 * i - 1 + FirstIndex(p)]]

flipPlayerB(moveList) ==
    [i \in DOMAIN moveList |-> [X |-> moveList[i].Y, Y |-> moveList[i].X]]

containsVert(vertices, v) == \E i \in DOMAIN vertices : vertices[i] = v

(* The positions of 0..n-1 that a list of indices leaves, in their order:  *)
(* Rank says where a kept index lands.                                     *)
Kept(n, indices) == (0..n-1) \ indices
Rank(K, i) == Cardinality({k \in K : k < i})

removeVerts_moveList(s, indices) ==
    LET K == Kept(Len(s), indices)
    IN  [j \in 1..Cardinality(K) |-> s[1 + CHOOSE i \in K : Rank(K, i) = j - 1]]

-----------------------------------------------------------------------------
(* Matrices *)

removeRows(s, indices) ==
    LET K == Kept(s.size, indices)
    IN  [size |-> Cardinality(K),
         ones |-> {<<Rank(K, e[1]), Rank(K, e[2])>> : e \in s.ones \cap (K \X K)}]

transpose(s) == [size |-> s.size, ones |-> {<<e[2], e[1]>> : e \in s.ones}]

isSymmetric(s) == \A e \in s.ones : <<e[2], e[1]>> \in s.ones

(* removeRows drops columns as well as rows, so the indices are removed a  *)
(* second time, from the smaller matrix.                                   *)
ThinAdjacencyMat(adj, indices) ==
    removeRows(transpose(removeRows(adj, indices)), indices)

Degree(adj, i, numCols) == Cardinality({j \in 0..numCols-1 : <<i, j>> \in adj.ones})

lowDegreeNodes(adj, numRows) == {i \in 2..numRows-1 : Degree(adj, i, numRows) <= 1}

(* A mutant: the last neighbour forgotten. *)
getAdjacentVertices_Five(v) ==
    {[X |-> v.X - 1, Y |-> v.Y + 1], [X |-> v.X - 1, Y |-> v.Y],
     [X |-> v.X,     Y |-> v.Y - 1], [X |-> v.X,     Y |-> v.Y + 1],
     [X |-> v.X + 1, Y |-> v.Y]}

getAdjacentVertices(v) ==
    {[X |-> v.X - 1, Y |-> v.Y + 1], [X |-> v.X - 1, Y |-> v.Y],
     [X |-> v.X,     Y |-> v.Y - 1], [X |-> v.X,     Y |-> v.Y + 1],
     [X |-> v.X + 1, Y |-> v.Y],     [X |-> v.X + 1, Y |-> v.Y - 1]}

-----------------------------------------------------------------------------
(* IncorporateNewVert: the grown matrix of player p; allMoves already ends *)
(* with newVert.                                                           *)

(* A mutant: the loop over the tiles starts at the hidden point Far. *)
NeighbourEdges_FromFar(moves, newVert) ==
    IF \E v \in getAdjacentVertices(newVert) : containsVert(moves, v)
    THEN UNION {Both(k, Len(moves)) : k \in 1..Len(moves)+1}
    ELSE {}

(* As soon as one neighbour of newVert is held, row and column moveCount   *)
(* of every tile are set: the loop writes at k, not at the neighbour.      *)
NeighbourEdges(moves, newVert) ==
    IF \E v \in getAdjacentVertices(newVert) : containsVert(moves, v)
    THEN UNION {Both(k, Len(moves)) : k \in 2..Len(moves)+1}
    ELSE {}

(* A mutant: the edge written in one direction only. *)
HiddenEdges_OneWay(p, moves, newVert) ==
    LET axis == IF p = "A" THEN newVert.X ELSE newVert.Y
        last == Len(moves) + 1
    IN  IF axis = 1 THEN {<<Near, last>>}
        ELSE IF axis = SideLenGameboard - 1 THEN Both(Far, last) ELSE {}

HiddenEdges(p, moves, newVert) ==
    LET axis == IF p = "A" THEN newVert.X ELSE newVert.Y
        last == Len(moves) + 1
    IN  IF axis = 1 THEN Both(Near, last)
        ELSE IF axis = SideLenGameboard - 1 THEN Both(Far, last) ELSE {}

(* A mutant: the size taken from the moves of both players. *)
IncorporateNewVert_AllMoves(p, allMoves, adjGraph, newVert) ==
    LET moves == extractPlayerMovesFromAllMoves(p, allMoves)
    IN  [size |-> Len(allMoves) + 2,
         ones |-> adjGraph.ones \cup NeighbourEdges(moves, newVert)
                    \cup HiddenEdges(p, moves, newVert)]

IncorporateNewVert(p, allMoves, adjGraph, newVert) ==
    LET moves == extractPlayerMovesFromAllMoves(p, allMoves)
        index == 0..Len(moves)+1
    IN  [size |-> Len(moves) + 2,
         ones |-> (adjGraph.ones \cap (index \X index))
                    \cup NeighbourEdges(moves, newVert)
                    \cup HiddenEdges(p, moves, newVert)]

-----------------------------------------------------------------------------
(* Quick checks for a win *)

checkCondition1(moveList) == Len(moveList) >= SideLenGameboard

(* A mutant: k < SideLenGameboard for k <= SideLenGameboard. *)
checkCondition2_ButLast(moveList) ==
    \A k \in 1..SideLenGameboard-1 : \E i \in DOMAIN moveList : moveList[i].X = k

checkCondition2(moveList) ==
    \A k \in 1..SideLenGameboard : \E i \in DOMAIN moveList : moveList[i].X = k

-----------------------------------------------------------------------------
(* A proposed move "turn.x.y.note", split at the dots: parts is how many   *)
(* fields there were, turn the number and the letter of the first one.  A  *)
(* coordinate is a token: a numeral, a letter (n its place in the          *)
(* alphabet, either case), or something parseCoordinate cannot read.       *)

Token == [kind : {"numeral", "letter", "other"}, n : Int]
Candidate == [parts : Nat, turn : [number : Nat, side : {"a", "b"}],
              x : Token, y : Token, note : {"", "swap"}]

parseCoordinate(token) == IF token.kind = "other" THEN -1 ELSE token.n

expectedNextTurn(allMoveList) ==
    [number |-> Len(allMoveList) \div 2,
     side   |-> IF Len(allMoveList) % 2 = 0 THEN "a" ELSE "b"]

Proposed(c) == [X |-> parseCoordinate(c.x), Y |-> parseCoordinate(c.y)]

(* Mutants: the turn not compared; a swap allowed in every turn. *)
checkMoveValidity_AnyTurn(c, allMoveList) ==
    /\ c.parts = 4
    /\ Proposed(c) \in Vertex
    /\ containsVert(allMoveList, Proposed(c)) => c.turn.number = 0 /\ c.note = "swap"
checkMoveValidity_SwapLate(c, allMoveList) ==
    /\ c.parts = 4
    /\ c.turn = expectedNextTurn(allMoveList)
    /\ Proposed(c) \in Vertex
    /\ containsVert(allMoveList, Proposed(c)) => c.note = "swap"

checkMoveValidity(c, allMoveList) ==
    /\ c.parts = 4
    /\ c.turn = expectedNextTurn(allMoveList)
    /\ Proposed(c) \in Vertex
    /\ containsVert(allMoveList, Proposed(c)) => c.turn.number = 0 /\ c.note = "swap"
=============================================================================
