----------------------------- MODULE TaskQueue -----------------------------
(***************************************************************************)
(* What the pool of referees promises of its tasks, with no channel, no    *)
(* blocked sender and no game: they stand in one line in the order in      *)
(* which they were submitted, a worker that is free takes the first one,   *)
(* nobody else has it meanwhile, and it is finished once.                  *)
(***************************************************************************)
EXTENDS Sequences

CONSTANTS Workers, Tasks, Nobody

VARIABLES
    submitted,    \* tasks handed in
    line,         \* tasks nobody has taken
    at,           \* at[w]: the task of worker w
    finished      \* tasks that were handled or dropped

vars == <<submitted, line, at, finished>>

Init ==
    /\ submitted = {} /\ line = <<>> /\ finished = {}
    /\ at = [w \in Workers |-> Nobody]

Submit(t) ==
    /\ t \notin submitted
    /\ submitted' = submitted \cup {t}
    /\ line' = Append(line, t)
    /\ UNCHANGED <<at, finished>>

Take(w) ==
    /\ at[w] = Nobody
    /\ line # <<>>
    /\ \A v \in Workers : at[v] # Head(line)
    /\ at' = [at EXCEPT ![w] = Head(line)]
    /\ line' = Tail(line)
    /\ UNCHANGED <<submitted, finished>>

Finish(w) ==
    /\ at[w] \in submitted \ finished
    /\ finished' = finished \cup {at[w]}
    /\ at' = [at EXCEPT ![w] = Nobody]
    /\ UNCHANGED <<submitted, line>>

Next == (\E t \in Tasks : Submit(t)) \/ \E w \in Workers : Take(w) \/ Finish(w)

Spec == Init /\ [][Next]_vars
=============================================================================
