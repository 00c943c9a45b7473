--------------------------- MODULE MCPersistence ---------------------------
(* An instance of Persistence for TLC.                                      *)
EXTENDS Persistence, TLC

(* An ordinary move, an end, no end, and an end of a kind there is not.     *)
MCLastMoves ==
    {<<"3a", "4", "5", "">>, <<"999a", "99", "99", "true_win">>,
     <<"999b", "99", "99", "z">>, <<"999b", "99", "99", "resigned">>}

Interchangeable == Permutations(Callers) \cup Permutations(Games)
=============================================================================
