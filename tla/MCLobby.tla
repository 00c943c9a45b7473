------------------------------ MODULE MCLobby ------------------------------
(***************************************************************************)
(* Three players, one of whom has no channel, and three messages of the    *)
(* matchmaking service: an acknowledgement may be late by two pairings.    *)
(***************************************************************************)
EXTENDS Lobby

MCPlayers == {"ann", "bob", "eve"}
MCPlayerChans == {"ann", "bob"}
=============================================================================
