---------------------------- MODULE MCMoveCache ----------------------------
(***************************************************************************)
(* Two moves of one game and one of another, stored, deleted and cleaned   *)
(* up while they expire.                                                   *)
(***************************************************************************)
EXTENDS MoveCache

MCKeys == {[GameID |-> 1, MoveCounter |-> 1],
           [GameID |-> 1, MoveCounter |-> 2],
           [GameID |-> 2, MoveCounter |-> 1]}
=============================================================================
