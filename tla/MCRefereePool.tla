---------------------------- MODULE MCRefereePool ----------------------------
(* Instances of RefereePool for TLC: two referees, three tasks, two of them *)
(* for one game, and room for one task in the channel.                      *)
EXTENDS RefereePool, TLC

CONSTANTS r1, r2, m1, g1, g2, t1, t2, t3

MCGameID == t1 :> g1 @@ t2 :> g1 @@ t3 :> g2
=============================================================================
