------------------------------ MODULE MCHexGame ------------------------------
(* Instances of HexGame for TLC: which proposals arrive at which ply.       *)
EXTENDS HexGame

Numeral(n) == [kind |-> "numeral", n |-> n]
Letter(n) == [kind |-> "letter", n |-> n]
Unreadable == [kind |-> "other", n |-> 0]

Move(number, side, x, y, note) ==
    [parts |-> 4, turn |-> [number |-> number, side |-> side], x |-> x, y |-> y, note |-> note]
Garbled == [Move(0, "a", Numeral(1), Numeral(1), "") EXCEPT !.parts = 3]

SideOf(ply) == IF ply % 2 = 0 THEN "a" ELSE "b"
Notes(ply) == IF ply = 1 THEN {"", "swap"} ELSE {""}

(* The proposals of one turn that name a cell of the board.                 *)
OnBoard(number, side, note) ==
    {Move(number, side, Numeral(x), Letter(y), note) :
        x \in 1..SideLenGameboard, y \in 1..SideLenGameboard}
TurnProposals(ply) ==
    UNION {OnBoard(ply \div 2, SideOf(ply), note) : note \in Notes(ply)}

(* What may go wrong in one field or in several: too few parts, any turn,   *)
(* off the board on each side, unreadable coordinates, a swap at any turn   *)
(* (at the turn it is due for a free cell only at <<1, 1>>, as all cells    *)
(* would be the same proposal twice in the history).                        *)
Stray(ply) ==
    {Garbled, Move(ply \div 2, SideOf(ply), Numeral(1), Letter(1), "swap")} \cup
    {m \in {Move(number, side, x, y, note) :
                number \in 0..2, side \in {"a", "b"}, note \in {"", "swap"},
                x \in {Unreadable} \cup {Numeral(n) : n \in 0..SideLenGameboard + 1},
                y \in {Unreadable} \cup {Letter(n) : n \in 1..SideLenGameboard + 1}} :
        \/ m.turn # [number |-> ply \div 2, side |-> SideOf(ply)]
        \/ m.x \in {Unreadable, Numeral(0), Numeral(SideLenGameboard + 1)}
        \/ m.y \in {Unreadable, Letter(SideLenGameboard + 1)}}

(* Board of side 3, six plies: three tiles each, so either player can join  *)
(* the edges.  Anything may arrive in the first three, replays included.    *)
Early == [ply \in 0..2 |-> TurnProposals(ply) \cup Stray(ply)]
SixPlies ==
    <<Early[0], Early[1], Early[2], TurnProposals(3), TurnProposals(4), TurnProposals(5)>>
SevenPlies == [n \in 1..7 |-> OnBoard((n - 1) \div 2, SideOf(n - 1), "")]

(* Board of side 4: one game, in which A's sixth tile starts an evaluation  *)
(* that thins down to the same list again and again.                        *)
LoopGame ==
    <<<<3, 3>>, <<1, 2>>, <<4, 2>>, <<1, 3>>, <<2, 2>>, <<2, 3>>,
      <<1, 4>>, <<2, 4>>, <<4, 3>>, <<3, 2>>, <<1, 1>>>>
LoopProposals ==
    [n \in DOMAIN LoopGame |->
        {Move((n - 1) \div 2, SideOf(n - 1), Numeral(LoopGame[n][1]), Letter(LoopGame[n][2]), "")}]
=============================================================================
