---------------------------- MODULE EventStream ----------------------------
(***************************************************************************)
(* What the broadcasting server promises of its events, with no mutex, no  *)
(* channel and no connection: there is one stream of events, numbered in   *)
(* the order in which they are published.  A reader begins anywhere in it  *)
(* and from there gets every event, one after the other; only a reader     *)
(* that was declared late may miss some, and it never goes back either.    *)
(***************************************************************************)
EXTENDS Naturals

CONSTANT Readers

VARIABLES
    published,    \* number of events published
    position,     \* position[r]: the number of the event r got last, or 0
    late          \* readers that may miss events

vars == <<published, position, late>>

Init == published = 0 /\ position = [r \in Readers |-> 0] /\ late = {}

Publish == published' = published + 1 /\ UNCHANGED <<position, late>>

Deliver(r) ==
    /\ \E n \in 1..published :
          /\ \/ position[r] = 0
             \/ n = position[r] + 1
             \/ r \in late /\ n > position[r]
          /\ position' = [position EXCEPT ![r] = n]
    /\ UNCHANGED <<published, late>>

FallBehind(r) == late' = late \cup {r} /\ UNCHANGED <<published, position>>

Next == Publish \/ \E r \in Readers : Deliver(r) \/ FallBehind(r)

Spec == Init /\ [][Next]_vars
=============================================================================
