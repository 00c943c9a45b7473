----------------------------- MODULE MCGameLocus -----------------------------
(***************************************************************************)
(* Two clients and two events, with a channel of one place and a limiter   *)
(* of one token: the second event can find a channel full, its publish can *)
(* wait for the limiter with the mutex held, and the two race for it.      *)
(***************************************************************************)
EXTENDS GameLocus
=============================================================================
