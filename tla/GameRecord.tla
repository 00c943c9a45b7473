---------------------------- MODULE GameRecord ----------------------------
(***************************************************************************)
(* What the database promises of games and moves, with no transaction, no  *)
(* statement and no caller: the record of a game is begun once, grows by   *)
(* one move at a time, each with the next number and later than those      *)
(* before it, and goes as a whole and for good.  A move that was confirmed *)
(* stays as it was confirmed while its game is there.  Of a game on which  *)
(* additions overlapped all this holds but the numbers and the order.      *)
(***************************************************************************)
EXTENDS Naturals

CONSTANT Games

VARIABLES
    status,       \* status[g]: "unused", "open" or "deleted"
    rows,         \* the moves stored, with their game, number and time
    confirmed,    \* the moves of open games that somebody relies on
    overlapped    \* games on which additions overlapped

vars == <<status, rows, confirmed, overlapped>>

Of(g) == {r \in rows : r.game = g}

Init ==
    /\ status = [g \in Games |-> "unused"]
    /\ rows = {} /\ confirmed = {} /\ overlapped = {}

Begin(g) ==
    /\ status[g] = "unused"
    /\ status' = [status EXCEPT ![g] = "open"]
    /\ UNCHANGED <<rows, confirmed, overlapped>>

Grow(g) ==
    /\ status[g] = "open"
    /\ \E row \in rows' \ rows :
          /\ row.game = g
          /\ rows' = rows \cup {row}
          /\ g \notin overlapped =>
                /\ row.number = 1 \/ \E r \in Of(g) : row.number = r.number + 1
                /\ \A r \in Of(g) : r.number < row.number /\ r.time < row.time
    /\ UNCHANGED <<status, confirmed, overlapped>>

Confirm ==
    /\ \E row \in rows : confirmed' = confirmed \cup {row}
    /\ UNCHANGED <<status, rows, overlapped>>

Overlap(g) ==
    /\ overlapped' = overlapped \cup {g}
    /\ UNCHANGED <<status, rows, confirmed>>

Delete(g) ==
    /\ status[g] = "open"
    /\ status' = [status EXCEPT ![g] = "deleted"]
    /\ rows' = rows \ Of(g)
    /\ confirmed' = confirmed \ Of(g)
    /\ UNCHANGED overlapped

Next == Confirm \/ \E g \in Games : Begin(g) \/ Grow(g) \/ Overlap(g) \/ Delete(g)

Spec == Init /\ [][Next]_vars
=============================================================================
