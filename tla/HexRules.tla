------------------------------ MODULE HexRules ------------------------------
(***************************************************************************)
(* What the referee promises the two players about the board, with none of *)
(* its data structures: they alternate, every tile is on the board and     *)
(* free, except that player B may answer the opening by taking that very   *)
(* tile (the swap of turn 0).  Each player tries to join the two edges     *)
(* across one axis: A along X, B along Y.                                  *)
(***************************************************************************)
EXTENDS Integers

CONSTANT SideLen            \* cells along one side of the rhombus

VARIABLES
    tiles,                  \* tiles[p]: the cells player p holds
    toMove                  \* the player whose turn it is

vars == <<tiles, toMove>>

Player == {"A", "B"}
Cell == [X : 1..SideLen, Y : 1..SideLen]
Other(p) == IF p = "A" THEN "B" ELSE "A"

Init == tiles = [p \in Player |-> {}] /\ toMove = "A"

Place(p, c) ==
    /\ toMove = p
    /\ \A q \in Player : c \notin tiles[q]
    /\ tiles' = [tiles EXCEPT ![p] = @ \cup {c}]
    /\ toMove' = Other(p)

TakeOpening ==
    /\ toMove = "B"
    /\ tiles["B"] = {}
    /\ tiles' = [tiles EXCEPT !["B"] = tiles["A"]]
    /\ toMove' = "A"

Next == TakeOpening \/ \E p \in Player, c \in Cell : Place(p, c)

Spec == Init /\ [][Next]_vars

-----------------------------------------------------------------------------
(* Two cells touch when they differ by at most one step along each axis and *)
(* do not differ by the same step along both: the six hexagonal neighbours. *)
Touch(c, d) ==
    /\ d.X - c.X \in -1..1
    /\ d.Y - c.Y \in -1..1
    /\ d.X - c.X # d.Y - c.Y

Column(p, c) == IF p = "A" THEN c.X ELSE c.Y

(* The cells T join p's two edges: whatever part of T holds its tiles on   *)
(* the near edge and every tile touching one of its own reaches the far    *)
(* edge.  (A path without naming the path, so no recursion is needed.)     *)
Joined(p, T) ==
    \A C \in SUBSET T :
        (/\ \A c \in T : Column(p, c) = 1 => c \in C
         /\ \A c \in C, d \in T : Touch(c, d) => d \in C)
        => \E c \in C : Column(p, c) = SideLen
=============================================================================
