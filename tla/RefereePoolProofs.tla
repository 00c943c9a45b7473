-------------------------- MODULE RefereePoolProofs --------------------------
(***************************************************************************)
(* Theorems about the referee pool, for every number of referees, managers *)
(* and games, every family of tasks and every capacity of the channel.     *)
(***************************************************************************)
EXTENDS RefereePool, SequenceTheorems, TLAPS

(* Beside their types, a goroutine inside a call has the call's arguments. *)
Holding ==
    /\ \A r \in Referees : pc[r] # "range" => task[r] \in Tasks
    /\ \A m \in Managers : mpc[m] # "idle" => call[m] # NoOne

TypeInv == TypeOK /\ Holding

LEMMA InitTypeInv == Init => TypeInv
  BY PoolAssumption DEF Init, TypeInv, TypeOK, Holding

LEMMA NextTypeInv == TypeInv /\ [Next]_vars => TypeInv'
  <1> SUFFICES ASSUME TypeInv, [Next]_vars PROVE TypeInv'
    OBVIOUS
  <1> USE DEF TypeInv
  <1>1. ASSUME NEW t \in Tasks, SubmitTask(t)
        PROVE  TypeInv'
    <2>1. /\ refTasks' \in Seq(Tasks) /\ Len(refTasks') <= Capacity
          /\ sendq' \in Seq(Tasks)
      <3>1. refTasks \in Seq(Tasks) /\ sendq \in Seq(Tasks) /\ Len(refTasks) \in Nat
            /\ Len(refTasks) <= Capacity /\ Capacity \in Nat
        BY PoolAssumption DEF TypeOK
      <3>2. CASE Len(refTasks) < Capacity
        <4>1. refTasks' = Append(refTasks, t) /\ sendq' = sendq
          BY <1>1, <3>2 DEF SubmitTask
        <4> QED BY <3>1, <3>2, <4>1
      <3>3. CASE ~(Len(refTasks) < Capacity)
        <4>1. sendq' = Append(sendq, t) /\ refTasks' = refTasks
          BY <1>1, <3>3 DEF SubmitTask
        <4> QED BY <3>1, <4>1
      <3> QED BY <3>2, <3>3
    <2> QED
      BY <1>1, <2>1 DEF SubmitTask, TypeOK, Holding, lockVars, managerVars, gameVars
  <1>2. ASSUME NEW r \in Referees, Receive(r)
        PROVE  TypeInv'
    <2>1. refTasks # <<>> /\ refTasks \in Seq(Tasks) /\ sendq \in Seq(Tasks)
      BY <1>2 DEF Receive, TypeOK
    <2>2. Head(refTasks) \in Tasks /\ Tail(refTasks) \in Seq(Tasks)
          /\ Len(Tail(refTasks)) = Len(refTasks) - 1 /\ Len(refTasks) \in Nat
      BY <2>1
    <2>3. sendq # <<>> => Head(sendq) \in Tasks /\ Tail(sendq) \in Seq(Tasks)
      BY <2>1
    <2>4. /\ refTasks' \in Seq(Tasks) /\ Len(refTasks') <= Capacity
          /\ sendq' \in Seq(Tasks)
      <3>0. Capacity \in Nat /\ Len(refTasks) <= Capacity
        BY PoolAssumption DEF TypeOK
      <3>1. CASE sendq = <<>>
        <4>1. refTasks' = Tail(refTasks) /\ sendq' = sendq
          BY <1>2, <3>1 DEF Receive
        <4> QED BY <2>1, <2>2, <3>0, <4>1
      <3>2. CASE sendq # <<>>
        <4>1. refTasks' = Append(Tail(refTasks), Head(sendq)) /\ sendq' = Tail(sendq)
          BY <1>2, <3>2 DEF Receive
        <4> QED BY <2>2, <2>3, <3>0, <3>2, <4>1
      <3> QED BY <3>1, <3>2
    <2> QED
      BY <1>2, <2>2, <2>4 DEF Receive, TypeOK, Holding, lockVars, managerVars, gameVars
  <1>3. ASSUME NEW r \in Referees, RLock(r)
        PROVE  TypeInv'
    <2>1. task[r] \in Tasks /\ GameID[task[r]] \in Games
      BY <1>3, PoolAssumption DEF RLock, TypeOK, Holding
    <2>2. TypeOK'
      BY <1>3, <2>1, PoolAssumption DEF RLock, TypeOK, chanVars, lockVars, managerVars, gameVars
    <2>3. Holding'
      BY <1>3, <2>1, PoolAssumption DEF RLock, TypeOK, Holding, chanVars, lockVars, managerVars, gameVars
    <2> QED
      BY <2>2, <2>3
  <1>3a. ASSUME NEW r \in Referees, ActionRead(r)
        PROVE  TypeInv'
    <2>1. task[r] \in Tasks /\ GameID[task[r]] \in Games
      BY <1>3a, PoolAssumption DEF ActionRead, TypeOK, Holding
    <2>2. TypeOK'
      BY <1>3a, <2>1, PoolAssumption DEF ActionRead, TypeOK, chanVars, lockVars, managerVars, gameVars
    <2>3. Holding'
      BY <1>3a, <2>1, PoolAssumption DEF ActionRead, TypeOK, Holding, chanVars, lockVars, managerVars, gameVars
    <2> QED
      BY <2>2, <2>3
  <1>3b. ASSUME NEW r \in Referees, PersistLoad(r)
        PROVE  TypeInv'
    <2>1. task[r] \in Tasks /\ GameID[task[r]] \in Games
      BY <1>3b, PoolAssumption DEF PersistLoad, TypeOK, Holding
    <2>2. TypeOK'
      BY <1>3b, <2>1, PoolAssumption DEF PersistLoad, TypeOK, chanVars, lockVars, managerVars, gameVars
    <2>3. Holding'
      BY <1>3b, <2>1, PoolAssumption DEF PersistLoad, TypeOK, Holding, chanVars, lockVars, managerVars, gameVars
    <2> QED
      BY <2>2, <2>3
  <1>4. ASSUME NEW r \in Referees, Lookup(r)
        PROVE  TypeInv'
    <2>1. task[r] \in Tasks /\ GameID[task[r]] \in Games
      BY <1>4, PoolAssumption DEF Lookup, TypeOK, Holding
    <2>2. TypeOK'
      <3>1. CASE GameID[task[r]] \in games
        BY <1>4, <2>1, <3>1 DEF Lookup, TypeOK, chanVars, managerVars
      <3>2. CASE GameID[task[r]] \notin games
        BY <1>4, <2>1, <3>2 DEF Lookup, TypeOK, chanVars, managerVars
      <3> QED BY <3>1, <3>2
    <2>3. Holding'
      BY <1>4, <2>1, PoolAssumption DEF Lookup, TypeOK, Holding, chanVars, lockVars, managerVars, gameVars
    <2> QED
      BY <2>2, <2>3
  <1>5. ASSUME NEW r \in Referees, ActionReturns(r)
        PROVE  TypeInv'
    <2>1. task[r] \in Tasks /\ GameID[task[r]] \in Games
      BY <1>5, PoolAssumption DEF ActionReturns, TypeOK, Holding
    <2>2. TypeOK'
      BY <1>5, <2>1, PoolAssumption DEF ActionReturns, TypeOK, chanVars, lockVars, managerVars, gameVars
    <2>3. Holding'
      BY <1>5, <2>1, PoolAssumption DEF ActionReturns, TypeOK, Holding, chanVars, lockVars, managerVars, gameVars
    <2> QED
      BY <2>2, <2>3
  <1>6. ASSUME NEW r \in Referees, PersistStore(r)
        PROVE  TypeInv'
    <2>1. task[r] \in Tasks /\ GameID[task[r]] \in Games
      BY <1>6, PoolAssumption DEF PersistStore, TypeOK, Holding
    <2>2. TypeOK'
      BY <1>6, <2>1, PoolAssumption DEF PersistStore, TypeOK, chanVars, lockVars, managerVars, gameVars
    <2>3. Holding'
      BY <1>6, <2>1, PoolAssumption DEF PersistStore, TypeOK, Holding, chanVars, lockVars, managerVars, gameVars
    <2> QED
      BY <2>2, <2>3
  <1>7. ASSUME NEW m \in Managers, NEW op \in {"add", "remove"}, NEW g \in Games, Call(m, op, g)
        PROVE  TypeInv'
    <2>1. <<op, g>> # NoOne
      BY <1>7, PoolAssumption
    <2> QED
      BY <1>7, <2>1 DEF Call, TypeOK, Holding, chanVars, lockVars, gameVars
  <1>8. ASSUME NEW m \in Managers, Lock(m) \/ Locked(m)
        PROVE  TypeInv'
    BY <1>8 DEF Lock, Locked, TypeOK, Holding, chanVars, lockVars, gameVars
  <1>9. ASSUME NEW m \in Managers, WriteMap(m)
        PROVE  TypeInv'
    <2>1. call[m] \in {"add", "remove"} \X Games
      BY <1>9 DEF WriteMap, TypeOK, Holding
    <2> QED
      BY <1>9, <2>1 DEF WriteMap, TypeOK, Holding, chanVars, gameVars
  <1>10. CASE UNCHANGED vars
    BY <1>10 DEF vars, TypeOK, Holding
  <1> QED
    BY <1>1, <1>2, <1>3, <1>3a, <1>3b, <1>4, <1>5, <1>6, <1>7, <1>8, <1>9, <1>10
    DEF Next, RefRoutine, Mutex, AddGame, RemoveGame

THEOREM TypeCorrect == Spec => []TypeOK
  <1>1. TypeInv => TypeOK
    BY DEF TypeInv
  <1> QED
    BY <1>1, InitTypeInv, NextTypeInv, PTL DEF Spec

-----------------------------------------------------------------------------
(* GamesMutex: who holds it is where the goroutines are, and a manager      *)
(* writes the map only when the readers have left.                          *)
LockInv ==
    /\ \A r \in Referees : pc[r] = "lookup" <=> r \in readers
    /\ \A m \in Managers : mpc[m] \in {"drain", "map"} <=> writer = m
    /\ \A m \in Managers : mpc[m] = "map" => readers = {}

LEMMA NextLockInv == TypeOK /\ LockInv /\ [Next]_vars => LockInv'
  <1> SUFFICES ASSUME TypeOK, LockInv, [Next]_vars PROVE LockInv'
    OBVIOUS
  <1>1. ASSUME NEW t \in Tasks, SubmitTask(t)
        PROVE  LockInv'
    BY <1>1 DEF SubmitTask, LockInv, lockVars, managerVars
  <1>2. ASSUME NEW r \in Referees,
               Receive(r) \/ ActionRead(r) \/ ActionReturns(r) \/ PersistLoad(r) \/ PersistStore(r)
        PROVE  LockInv'
    <2>1. /\ UNCHANGED <<readers, writer, mpc>>
          /\ pc[r] # "lookup"
          /\ pc' = [pc EXCEPT ![r] = pc'[r]] /\ pc'[r] # "lookup"
      BY <1>2 DEF Receive, ActionRead, ActionReturns, PersistLoad, PersistStore, TypeOK,
                  lockVars, managerVars
    <2> QED
      BY <2>1 DEF LockInv, TypeOK
  <1>3. ASSUME NEW r \in Referees, RLock(r)
        PROVE  LockInv'
    BY <1>3, PoolAssumption DEF RLock, LockInv, TypeOK, managerVars
  <1>4. ASSUME NEW r \in Referees, Lookup(r)
        PROVE  LockInv'
    <2>1. /\ UNCHANGED <<writer, mpc>> /\ readers' = readers \ {r}
          /\ pc' = [pc EXCEPT ![r] = pc'[r]] /\ pc'[r] # "lookup"
      BY <1>4 DEF Lookup, TypeOK, managerVars
    <2> QED
      BY <2>1 DEF LockInv, TypeOK
  <1>5. ASSUME NEW m \in Managers, NEW op \in {"add", "remove"}, NEW g \in Games, Call(m, op, g)
        PROVE  LockInv'
    BY <1>5 DEF Call, LockInv, TypeOK, lockVars
  <1>6. ASSUME NEW m \in Managers, Lock(m)
        PROVE  LockInv'
    BY <1>6, PoolAssumption DEF Lock, LockInv, TypeOK
  <1>7. ASSUME NEW m \in Managers, Locked(m)
        PROVE  LockInv'
    BY <1>7 DEF Locked, LockInv, TypeOK, lockVars
  <1>8. ASSUME NEW m \in Managers, WriteMap(m)
        PROVE  LockInv'
    <2>1. /\ writer = m /\ writer' = NoOne
          /\ \A k \in Managers : mpc'[k] \in {"drain", "map"} <=> k # m /\ mpc[k] \in {"drain", "map"}
      BY <1>8 DEF WriteMap, LockInv, TypeOK
    <2>2. \A k \in Managers : mpc'[k] \notin {"drain", "map"}
      BY <2>1 DEF LockInv
    <2>3. \A r \in Referees : pc'[r] = "lookup" <=> r \in readers'
      BY <1>8 DEF WriteMap, LockInv
    <2> QED
      BY <2>1, <2>2, <2>3, PoolAssumption DEF LockInv
  <1>9. CASE UNCHANGED vars
    BY <1>9 DEF vars, LockInv
  <1> QED
    BY <1>1, <1>2, <1>3, <1>4, <1>5, <1>6, <1>7, <1>8, <1>9
    DEF Next, RefRoutine, Mutex, AddGame, RemoveGame

(* No write to the map of games ever overlaps a lookup or another write,    *)
(* for any number of referees and managers.                                 *)
THEOREM MapIsExclusive == Spec => []MapExclusive
  <1>1. Init => LockInv
    BY PoolAssumption DEF Init, LockInv
  <1>2. LockInv => MapExclusive
    BY DEF LockInv, MapExclusive
  <1> QED
    BY <1>1, <1>2, NextLockInv, TypeCorrect, PTL DEF Spec

-----------------------------------------------------------------------------
(* Why a game that only ever had one referee at a time is saved: what that  *)
(* referee has read is what the game still holds.                           *)
SerialInv ==
    \A g \in Games \ shared :
        /\ \A r, q \in Referees : AtGame(r, g) /\ AtGame(q, g) => r = q
        /\ \A r \in Referees : AtGame(r, g) /\ pc[r] \in {"write", "store"} => seen[r] = state[g]
        /\ state[g] = AppliedTo(g)
        /\ Quiet(g) /\ g \notin unsaved => db[g] = state[g]

(* Steps that change no game and take no referee to one. *)
LEMMA SerialFrame ==
    ASSUME SerialInv, UNCHANGED <<gameVars, seen>>,
           \A r \in Referees : \/ pc'[r] = pc[r] /\ task'[r] = task[r]
                               \/ /\ pc[r] \notin {"read", "write", "load", "store"}
                                  /\ pc'[r] \notin {"read", "write", "load", "store"}
    PROVE  SerialInv'
  <1>1. \A r \in Referees, g \in Games : AtGame(r, g)' <=> AtGame(r, g)
    BY DEF AtGame
  <1>2. \A g \in Games : AppliedTo(g)' = AppliedTo(g) /\ (Quiet(g)' <=> Quiet(g))
    BY <1>1 DEF AppliedTo, Quiet, gameVars
  <1>3. \A r \in Referees, g \in Games :
            AtGame(r, g)' /\ pc'[r] \in {"write", "store"} => pc[r] = pc'[r]
    BY DEF AtGame
  <1> QED
    BY <1>1, <1>2, <1>3 DEF SerialInv, gameVars

LEMMA NextSerialInv == TypeInv /\ SerialInv /\ [Next]_vars => SerialInv'
  <1> SUFFICES ASSUME TypeInv, SerialInv, [Next]_vars PROVE SerialInv'
    OBVIOUS
  <1>0. \A r \in Referees : pc[r] # "range" => task[r] \in Tasks /\ GameID[task[r]] \in Games
    BY PoolAssumption DEF TypeInv, Holding
  <1>1. ASSUME NEW t \in Tasks, SubmitTask(t)
        PROVE  SerialInv'
    BY <1>1, SerialFrame DEF SubmitTask
  <1>2. ASSUME NEW r \in Referees, Receive(r) \/ RLock(r)
        PROVE  SerialInv'
    BY <1>2, SerialFrame DEF Receive, RLock, TypeInv, TypeOK
  <1>3. ASSUME NEW r \in Referees, Lookup(r)
        PROVE  SerialInv'
    <2> DEFINE g == GameID[task[r]]
    <2>1. CASE g \notin games
      BY <1>3, <2>1, SerialFrame DEF Lookup, TypeInv, TypeOK, gameVars
    <2>2. CASE g \in games
      <3>1. /\ UNCHANGED <<state, db, applied, unsaved, seen, task>> /\ shared \subseteq shared'
            /\ pc' = [pc EXCEPT ![r] = "read"] /\ pc[r] = "lookup"
            /\ g \notin shared' => \A q \in Referees \ {r} : ~AtGame(q, g)
        BY <1>3, <2>2 DEF Lookup
      <3>2. \A q \in Referees : q # r => pc'[q] = pc[q]
        BY <3>1 DEF TypeInv, TypeOK
      <3>3. pc'[r] = "read"
        BY <3>1 DEF TypeInv, TypeOK
      <3>4. SUFFICES ASSUME NEW h \in Games \ shared'
                     PROVE  /\ \A p, q \in Referees : AtGame(p, h)' /\ AtGame(q, h)' => p = q
                            /\ \A q \in Referees : AtGame(q, h)' /\ pc'[q] \in {"write", "store"}
                                                        => seen'[q] = state'[h]
                            /\ state'[h] = AppliedTo(h)'
                            /\ Quiet(h)' /\ h \notin unsaved' => db'[h] = state'[h]
        BY DEF SerialInv
      <3>5. \A q \in Referees : q # r => (AtGame(q, h)' <=> AtGame(q, h))
        BY <3>1, <3>2 DEF AtGame
      <3>6. AtGame(r, h)' <=> h = g
        BY <3>1, <3>3 DEF AtGame
      <3>7. h \in Games \ shared
        BY <3>1
      <3>8. AppliedTo(h)' = AppliedTo(h)
        BY <3>1 DEF AppliedTo
      <3>9. Quiet(h)' => Quiet(h)
        BY <3>1, <3>5 DEF Quiet, AtGame
      <3> QED
        BY <3>1, <3>2, <3>3, <3>5, <3>6, <3>7, <3>8, <3>9 DEF SerialInv
    <2> QED BY <2>1, <2>2
  <1>4. ASSUME NEW r \in Referees,
               ActionRead(r) \/ ActionReturns(r) \/ PersistLoad(r)
        PROVE  SerialInv'
    <2>0. task[r] \in Tasks /\ GameID[task[r]] \in Games
      BY <1>0, <1>4 DEF ActionRead, ActionReturns, PersistLoad
    <2> PICK g \in Games : g = GameID[task[r]]
      BY <2>0
    <2>1. /\ UNCHANGED <<db, unsaved, shared, task>>
          /\ pc[r] \in {"read", "write", "load"} /\ pc'[r] \in {"write", "load", "store"}
          /\ \A q \in Referees : q # r => pc'[q] = pc[q] /\ seen'[q] = seen[q]
          /\ \A h \in Games : h # g => state'[h] = state[h]
      BY <1>4 DEF ActionRead, ActionReturns, PersistLoad, TypeInv, TypeOK, gameVars
    <2>2. \A q \in Referees, h \in Games : AtGame(q, h)' <=> AtGame(q, h)
      BY <2>1 DEF AtGame
    <2>3. AtGame(r, g) /\ g \in Games /\ task[r] \in Tasks
      BY <2>0, <2>1 DEF AtGame
    <2>4. \A h \in Games : Quiet(h)' <=> Quiet(h)
      BY <2>2 DEF Quiet
    <2>5. \A h \in Games : h # g => AppliedTo(h)' = AppliedTo(h)
      BY <1>4, <2>3 DEF AppliedTo, ActionRead, ActionReturns, PersistLoad, gameVars
    <2>6. ASSUME g \notin shared
          PROVE  /\ pc'[r] \in {"write", "store"} => seen'[r] = state'[g]
                 /\ state'[g] = AppliedTo(g)'
      <3>1. state[g] = AppliedTo(g) /\ (pc[r] = "write" => seen[r] = state[g])
        BY <2>3, <2>6 DEF SerialInv
      <3>2. CASE ActionRead(r)
        BY <3>1, <3>2 DEF ActionRead, AppliedTo, TypeInv, TypeOK, gameVars
      <3>3. CASE PersistLoad(r)
        BY <3>1, <3>3 DEF PersistLoad, AppliedTo, TypeInv, TypeOK, gameVars
      <3>4. CASE ActionReturns(r)
        <4>1. pc'[r] = "load"
          BY <3>4 DEF ActionReturns, TypeInv, TypeOK
        <4>2. CASE UNCHANGED <<state, applied>>
          BY <3>1, <4>1, <4>2 DEF AppliedTo
        <4>3. CASE state' = [state EXCEPT ![g] = seen[r] \cup {task[r]}] /\ applied' = applied \cup {task[r]}
          <5>1. state'[g] = state[g] \cup {task[r]}
            BY <2>3, <3>1, <3>4, <4>3 DEF ActionReturns, TypeInv, TypeOK
          <5>2. AppliedTo(g)' = AppliedTo(g) \cup {task[r]}
            BY <4>3 DEF AppliedTo
          <5> QED BY <3>1, <4>1, <5>1, <5>2
        <4> QED BY <3>4, <4>2, <4>3 DEF ActionReturns
      <3> QED BY <1>4, <3>2, <3>3, <3>4
    <2>7. ~Quiet(g)
      BY <2>3 DEF Quiet
    <2>8. SUFFICES ASSUME NEW h \in Games \ shared
                   PROVE  /\ \A p, q \in Referees : AtGame(p, h) /\ AtGame(q, h) => p = q
                          /\ \A q \in Referees : AtGame(q, h) /\ pc'[q] \in {"write", "store"}
                                                    => seen'[q] = state'[h]
                          /\ state'[h] = AppliedTo(h)'
                          /\ Quiet(h) /\ h \notin unsaved => db[h] = state'[h]
      BY <2>1, <2>2, <2>4 DEF SerialInv
    <2>9. CASE h = g
      BY <2>3, <2>6, <2>7, <2>9 DEF SerialInv
    <2>10. CASE h # g
      <3>1. ~AtGame(r, h)
        BY <2>3, <2>10 DEF AtGame
      <3> QED BY <2>1, <2>5, <2>10, <3>1 DEF SerialInv
    <2> QED BY <2>9, <2>10
  <1>5. ASSUME NEW r \in Referees, PersistStore(r)
        PROVE  SerialInv'
    <2> DEFINE g == GameID[task[r]]
    <2>1. /\ UNCHANGED <<state, applied, shared>> /\ pc[r] = "store" /\ pc'[r] = "range"
          /\ \A q \in Referees : q # r => pc'[q] = pc[q] /\ seen'[q] = seen[q] /\ task'[q] = task[q]
          /\ \A h \in Games : h # g => db'[h] = db[h] /\ (h \in unsaved' <=> h \in unsaved)
      BY <1>5 DEF PersistStore, TypeInv, TypeOK
    <2>2. AtGame(r, g) /\ g \in Games /\ task[r] \in Tasks
      BY <1>0, <2>1 DEF AtGame
    <2>3. \A h \in Games : ~AtGame(r, h)'
      BY <2>1 DEF AtGame
    <2>4. \A q \in Referees, h \in Games : q # r => (AtGame(q, h)' <=> AtGame(q, h))
      BY <2>1 DEF AtGame
    <2>5. \A h \in Games : AppliedTo(h)' = AppliedTo(h)
      BY <2>1 DEF AppliedTo
    <2>6. ASSUME g \notin shared, g \notin unsaved'
          PROVE  db'[g] = state[g]
      <3>1. db' = [db EXCEPT ![g] = seen[r]]
        BY <1>5, <2>6 DEF PersistStore
      <3>2. seen[r] = state[g]
        BY <2>1, <2>2, <2>6 DEF SerialInv
      <3> QED BY <2>2, <3>1, <3>2 DEF TypeInv, TypeOK
    <2>7. SUFFICES ASSUME NEW h \in Games \ shared
                   PROVE  /\ \A p, q \in Referees : AtGame(p, h)' /\ AtGame(q, h)' => p = q
                          /\ \A q \in Referees : AtGame(q, h)' /\ pc'[q] \in {"write", "store"}
                                                    => seen'[q] = state[h]
                          /\ state[h] = AppliedTo(h)
                          /\ Quiet(h)' /\ h \notin unsaved' => db'[h] = state[h]
      BY <2>1, <2>5 DEF SerialInv
    <2>8. /\ \A p, q \in Referees : AtGame(p, h)' /\ AtGame(q, h)' => p = q
          /\ \A q \in Referees : AtGame(q, h)' /\ pc'[q] \in {"write", "store"} => seen'[q] = state[h]
          /\ state[h] = AppliedTo(h)
      BY <2>1, <2>3, <2>4 DEF SerialInv
    <2>9. Quiet(h)' /\ h \notin unsaved' => db'[h] = state[h]
      <3>1. CASE h = g
        BY <2>6, <3>1
      <3>2. CASE h # g
        <4>1. ~AtGame(r, h)
          BY <2>2, <3>2 DEF AtGame
        <4>2. Quiet(h)' => Quiet(h)
          BY <2>4, <4>1 DEF Quiet
        <4> QED BY <2>1, <3>2, <4>2 DEF SerialInv
      <3> QED BY <3>1, <3>2
    <2> QED BY <2>8, <2>9
  <1>6. ASSUME NEW m \in Managers, NEW op \in {"add", "remove"}, NEW g \in Games, Call(m, op, g)
        PROVE  SerialInv'
    BY <1>6, SerialFrame DEF Call
  <1>7. ASSUME NEW m \in Managers, Lock(m) \/ Locked(m)
        PROVE  SerialInv'
    BY <1>7, SerialFrame DEF Lock, Locked
  <1>8. ASSUME NEW m \in Managers, WriteMap(m)
        PROVE  SerialInv'
    BY <1>8, SerialFrame DEF WriteMap
  <1>9. CASE UNCHANGED vars
    BY <1>9, SerialFrame DEF vars, gameVars
  <1> QED
    BY <1>1, <1>2, <1>3, <1>4, <1>5, <1>6, <1>7, <1>8, <1>9
    DEF Next, RefRoutine, Mutex, AddGame, RemoveGame

(* A game that never had two referees at a time loses no change, and its    *)
(* row is up to date whenever no referee is at it and the last write to the *)
(* database succeeded; for any number of referees, games and tasks.         *)
THEOREM SerialGamesAreSaved == Spec => []SerialGamesSaved
  <1>1. Init => SerialInv
    BY DEF Init, SerialInv, AtGame, AppliedTo
  <1>2. SerialInv => SerialGamesSaved
    BY DEF SerialInv, SerialGamesSaved
  <1> QED
    BY <1>1, <1>2, NextSerialInv, InitTypeInv, NextTypeInv, PTL DEF Spec

-----------------------------------------------------------------------------
(* The channel as one line: its buffer and then its blocked senders.        *)
Line == refTasks \o sendq

LEMMA LineType == TypeOK => Line \in Seq(Tasks)
  BY DEF TypeOK, Line

(* Who submits a task joins the end: the buffer has room only when nobody   *)
(* is blocked.                                                              *)
LEMMA SubmitLine ==
    ASSUME TypeOK, sendq # <<>> => Len(refTasks) = Capacity, NEW t \in Tasks, SubmitTask(t)
    PROVE  Line' = Append(Line, t) /\ (sendq' # <<>> => Len(refTasks') = Capacity)
  <1>1. refTasks \in Seq(Tasks) /\ sendq \in Seq(Tasks) /\ Len(refTasks) <= Capacity
        /\ Len(refTasks) \in Nat /\ Capacity \in Nat
    BY PoolAssumption DEF TypeOK
  <1>2. CASE Len(refTasks) < Capacity
    <2>1. refTasks' = Append(refTasks, t) /\ sendq' = sendq /\ sendq = <<>>
      BY <1>1, <1>2 DEF SubmitTask
    <2>2. Append(refTasks, t) \in Seq(Tasks)
      BY <1>1
    <2>3. Append(refTasks, t) \o <<>> = Append(refTasks, t) /\ refTasks \o <<>> = refTasks
      BY <1>1, <2>2, ConcatEmptySeq
    <2> QED BY <2>1, <2>3 DEF Line
  <1>3. CASE ~(Len(refTasks) < Capacity)
    <2>1. sendq' = Append(sendq, t) /\ refTasks' = refTasks
      BY <1>3 DEF SubmitTask
    <2>2. refTasks \o Append(sendq, t) = Append(refTasks \o sendq, t)
      BY <1>1
    <2> QED BY <1>1, <1>3, <2>1, <2>2 DEF Line
  <1> QED BY <1>2, <1>3

(* The head and the tail of a line of which the first part is not empty.    *)
LEMMA ConcatTail ==
    ASSUME NEW S, NEW s \in Seq(S), NEW u \in Seq(S), s # <<>>
    PROVE  s \o u # <<>> /\ Head(s \o u) = Head(s) /\ Tail(s \o u) = Tail(s) \o u
  <1> DEFINE whole == s \o u
             rest == Tail(s) \o u
  <1>1. /\ Len(s) \in Nat \ {0} /\ Len(u) \in Nat
        /\ whole \in Seq(S) /\ Len(whole) = Len(s) + Len(u)
        /\ \A i \in 1..Len(whole) :
             whole[i] = IF i <= Len(s) THEN s[i] ELSE u[i - Len(s)]
    BY ConcatProperties
  <1>2. /\ Tail(s) \in Seq(S) /\ Len(Tail(s)) = Len(s) - 1
        /\ \A i \in 1..Len(Tail(s)) : Tail(s)[i] = s[i + 1]
    BY HeadTailProperties
  <1>3. /\ rest \in Seq(S) /\ Len(rest) = Len(Tail(s)) + Len(u)
        /\ \A i \in 1..Len(rest) :
             rest[i] = IF i <= Len(Tail(s)) THEN Tail(s)[i] ELSE u[i - Len(Tail(s))]
    BY <1>2, ConcatProperties
  <1> HIDE DEF whole, rest
  <1>4. whole # <<>> /\ Head(whole) = whole[1] /\ Head(s) = s[1]
    BY <1>1
  <1>5. /\ Tail(whole) \in Seq(S) /\ Len(Tail(whole)) = Len(whole) - 1
        /\ \A i \in 1..Len(Tail(whole)) : Tail(whole)[i] = whole[i + 1]
    BY <1>1, <1>4, HeadTailProperties
  <1>6. Len(rest) = Len(Tail(whole))
    BY <1>1, <1>2, <1>3, <1>5
  <1>7. ASSUME NEW i \in 1..Len(rest) PROVE rest[i] = Tail(whole)[i]
    <2>1. Tail(whole)[i] = whole[i + 1] /\ i + 1 \in 1..Len(whole) /\ i \in Nat
      BY <1>1, <1>5, <1>6
    <2>2. CASE i <= Len(Tail(s))
      BY <1>1, <1>2, <1>3, <2>1, <2>2
    <2>3. CASE ~(i <= Len(Tail(s)))
      <3>1. i - Len(Tail(s)) = (i + 1) - Len(s) /\ ~(i + 1 <= Len(s))
        BY <1>1, <1>2, <2>1, <2>3
      <3> QED BY <1>1, <1>3, <2>1, <2>3, <3>1
    <2> QED BY <2>2, <2>3
  <1>8. Tail(whole) = rest
    BY <1>3, <1>5, <1>6, <1>7, SeqEqual
  <1> QED BY <1>1, <1>4, <1>8 DEF whole, rest

(* Who receives a task takes the first: the place it frees goes to the      *)
(* sender that waits longest, which is the next in line.                    *)
LEMMA ReceiveLine ==
    ASSUME TypeOK, sendq # <<>> => Len(refTasks) = Capacity, NEW r \in Referees, Receive(r)
    PROVE  /\ Line # <<>> /\ Head(Line) = Head(refTasks) /\ Line' = Tail(Line)
           /\ sendq' # <<>> => Len(refTasks') = Capacity
  <1>1. refTasks \in Seq(Tasks) /\ sendq \in Seq(Tasks) /\ refTasks # <<>>
        /\ Capacity \in Nat
    BY PoolAssumption DEF TypeOK, Receive
  <1>2. Tail(refTasks) \in Seq(Tasks)
        /\ Len(Tail(refTasks)) = Len(refTasks) - 1 /\ Len(refTasks) \in Nat \ {0}
    BY <1>1
  <1>3. Line # <<>> /\ Head(Line) = Head(refTasks) /\ Tail(Line) = Tail(refTasks) \o sendq
    BY <1>1, ConcatTail DEF Line
  <1>4. CASE sendq = <<>>
    <2>1. refTasks' = Tail(refTasks) /\ sendq' = sendq
      BY <1>4 DEF Receive
    <2>2. Tail(refTasks) \o sendq = refTasks' \o sendq'
      BY <2>1
    <2> QED BY <1>3, <1>4, <2>1, <2>2 DEF Line
  <1>5. CASE sendq # <<>>
    <2>1. refTasks' = Append(Tail(refTasks), Head(sendq)) /\ sendq' = Tail(sendq)
      BY <1>5 DEF Receive
    <2>2. Head(sendq) \in Tasks /\ Tail(sendq) \in Seq(Tasks) /\ <<Head(sendq)>> \in Seq(Tasks)
          /\ sendq = <<Head(sendq)>> \o Tail(sendq)
      BY <1>1, <1>5
    <2>3. Append(Tail(refTasks), Head(sendq)) = Tail(refTasks) \o <<Head(sendq)>>
      BY <1>2, <2>2
    <2>4. (Tail(refTasks) \o <<Head(sendq)>>) \o Tail(sendq)
            = Tail(refTasks) \o (<<Head(sendq)>> \o Tail(sendq))
      BY <1>2, <2>2, ConcatAssociative
    <2>5. Line' = Tail(Line)
      BY <1>3, <2>1, <2>2, <2>3, <2>4 DEF Line
    <2>6. Len(refTasks') = Len(refTasks)
      BY <1>2, <2>1, <2>2
    <2> QED BY <1>3, <1>5, <2>5, <2>6
  <1> QED BY <1>4, <1>5

(* Every task that was submitted and is neither dropped nor done is in one  *)
(* place: somewhere in the line, or with one referee.                       *)
InLine == {Line[i] : i \in 1..Len(Line)}

PlaceInv ==
    /\ sendq # <<>> => Len(refTasks) = Capacity
    /\ \A i, j \in 1..Len(Line) : Line[i] = Line[j] => i = j
    /\ \A t \in Tasks : t \in InLine => outcome[t] = "sent"
    /\ \A r \in Referees : pc[r] = "range" <=> task[r] = NoOne
    /\ \A r \in Referees : task[r] # NoOne => outcome[task[r]] = "sent" /\ task[r] \notin InLine
    /\ \A p, q \in Referees : task[p] = task[q] => p = q \/ task[p] = NoOne

LEMMA InitPlaceInv == Init => PlaceInv
  <1> SUFFICES ASSUME Init PROVE PlaceInv
    OBVIOUS
  <1>1. Line = <<>>
    BY ConcatEmptySeq DEF Init, Line
  <1> QED BY <1>1 DEF Init, PlaceInv, InLine

LEMMA PlaceFrame ==
    ASSUME PlaceInv, UNCHANGED <<chanVars, outcome, task>>,
           \A r \in Referees : pc'[r] = "range" <=> pc[r] = "range"
    PROVE  PlaceInv'
  <1>1. refTasks' = refTasks /\ sendq' = sendq /\ Line' = Line /\ outcome' = outcome /\ task' = task
    BY DEF chanVars, Line
  <1>2. InLine' = InLine
    BY <1>1 DEF InLine
  <1> QED BY <1>1, <1>2 DEF PlaceInv

(* A referee lets go of its task, which counts as dropped or done.          *)
LEMMA PlaceRelease ==
    ASSUME TypeInv, PlaceInv, UNCHANGED chanVars, NEW r \in Referees, pc[r] # "range",
           NEW o, outcome' = [outcome EXCEPT ![task[r]] = o],
           task' = [task EXCEPT ![r] = NoOne], pc' = [pc EXCEPT ![r] = "range"]
    PROVE  PlaceInv'
  <1>1. refTasks' = refTasks /\ sendq' = sendq /\ Line' = Line
    BY DEF chanVars, Line
  <1>2. InLine' = InLine
    BY <1>1 DEF InLine
  <1>3. /\ task[r] \in Tasks /\ task[r] # NoOne /\ task[r] \notin InLine
        /\ task \in [Referees -> Tasks \cup {NoOne}]
        /\ pc \in [Referees -> {"range", "rlock", "lookup", "read", "write", "load", "store"}]
        /\ outcome \in [Tasks -> {"new", "sent", "dropped", "done"}]
    BY PoolAssumption DEF TypeInv, TypeOK, Holding, PlaceInv
  <1>4. \A q \in Referees : task'[q] = IF q = r THEN NoOne ELSE task[q]
    BY <1>3
  <1>5. \A t \in Tasks : t # task[r] => outcome'[t] = outcome[t]
    BY <1>3
  <1>6. \A q \in Referees \ {r} : task[q] # task[r]
    BY <1>3 DEF PlaceInv
  <1>7. \A t \in Tasks : t \in InLine' => outcome'[t] = "sent"
    BY <1>2, <1>3, <1>5 DEF PlaceInv
  <1>8. \A q \in Referees : pc'[q] = "range" <=> task'[q] = NoOne
    BY <1>3, <1>4 DEF PlaceInv
  <1>9. \A q \in Referees : task'[q] # NoOne => outcome'[task'[q]] = "sent" /\ task'[q] \notin InLine'
    <2> SUFFICES ASSUME NEW q \in Referees, task'[q] # NoOne
                 PROVE  outcome'[task'[q]] = "sent" /\ task'[q] \notin InLine'
      OBVIOUS
    <2>1. q # r /\ task'[q] = task[q] /\ task[q] \in Tasks /\ task[q] # task[r]
      BY <1>3, <1>4, <1>6
    <2> QED BY <1>1, <1>5, <2>1 DEF PlaceInv, InLine
  <1>10. \A p, q \in Referees : task'[p] = task'[q] => p = q \/ task'[p] = NoOne
    BY <1>4 DEF PlaceInv
  <1> QED BY <1>1, <1>7, <1>8, <1>9, <1>10 DEF PlaceInv

LEMMA SubmitPlaceInv ==
    ASSUME TypeInv, PlaceInv, NEW t \in Tasks, SubmitTask(t)
    PROVE  PlaceInv'
  <1>1. /\ Line \in Seq(Tasks) /\ Len(Line) \in Nat /\ Line' = Append(Line, t)
        /\ sendq' # <<>> => Len(refTasks') = Capacity
    BY LineType, SubmitLine DEF TypeInv, PlaceInv
  <1>2. /\ Len(Line') = Len(Line) + 1 /\ Line'[Len(Line) + 1] = t
        /\ \A i \in 1..Len(Line) : Line'[i] = Line[i]
    BY <1>1
  <1>3. /\ pc' = pc /\ task' = task /\ outcome[t] = "new"
        /\ outcome' = [outcome EXCEPT ![t] = "sent"]
        /\ outcome \in [Tasks -> {"new", "sent", "dropped", "done"}]
        /\ task \in [Referees -> Tasks \cup {NoOne}] /\ NoOne \notin Tasks
    BY PoolAssumption DEF SubmitTask, TypeInv, TypeOK
  <1>4. \A i \in 1..Len(Line) : Line[i] # t /\ Line[i] \in Tasks
    BY <1>1, <1>3 DEF PlaceInv, InLine
  <1>5. \A i \in 1..Len(Line') : i \in 1..Len(Line) \/ i = Len(Line) + 1
    BY <1>1, <1>2
  <1>6. \A i, j \in 1..Len(Line') : Line'[i] = Line'[j] => i = j
    BY <1>2, <1>4, <1>5 DEF PlaceInv
  <1>7. \A s : s \in InLine' => s \in InLine \/ s = t
    BY <1>2, <1>5 DEF InLine
  <1>8. \A s \in Tasks : s \in InLine' => outcome'[s] = "sent"
    BY <1>3, <1>7 DEF PlaceInv
  <1>9. \A r \in Referees : task'[r] # NoOne => outcome'[task'[r]] = "sent" /\ task'[r] \notin InLine'
    <2> SUFFICES ASSUME NEW r \in Referees, task[r] # NoOne
                 PROVE  outcome'[task[r]] = "sent" /\ task[r] \notin InLine'
      BY <1>3 DEF InLine
    <2>1. task[r] \in Tasks /\ outcome[task[r]] = "sent" /\ task[r] \notin InLine /\ task[r] # t
      BY <1>3 DEF PlaceInv
    <2> QED BY <1>3, <1>7, <2>1
  <1> QED BY <1>1, <1>3, <1>6, <1>8, <1>9 DEF PlaceInv

LEMMA ReceivePlaceInv ==
    ASSUME TypeInv, PlaceInv, NEW r \in Referees, Receive(r)
    PROVE  PlaceInv' /\ Head(Line) \in InLine /\ Head(Line) \in Tasks
  <1>1. /\ Line \in Seq(Tasks) /\ Len(Line) \in Nat /\ Line # <<>> /\ Line' = Tail(Line)
        /\ Head(Line) = Head(refTasks)
        /\ sendq' # <<>> => Len(refTasks') = Capacity
    BY LineType, ReceiveLine DEF TypeInv, PlaceInv
  <1>2. /\ Head(Line) = Line[1] /\ Head(Line) \in Tasks /\ Len(Line) >= 1
        /\ Len(Line') = Len(Line) - 1
        /\ \A i \in 1..Len(Line') : Line'[i] = Line[i + 1] /\ i + 1 \in 2..Len(Line)
    BY <1>1
  <1> DEFINE h == Head(Line)
  <1>3. /\ task' = [task EXCEPT ![r] = h] /\ pc' = [pc EXCEPT ![r] = "rlock"]
        /\ outcome' = outcome /\ h \in Tasks
        /\ task \in [Referees -> Tasks \cup {NoOne}] /\ NoOne \notin Tasks
        /\ pc \in [Referees -> {"range", "rlock", "lookup", "read", "write", "load", "store"}]
    BY <1>1, <1>2, PoolAssumption DEF Receive, TypeInv, TypeOK
  <1>4. h \in InLine /\ outcome[h] = "sent"
    BY <1>2, <1>3 DEF InLine, PlaceInv
  <1> HIDE DEF h
  <1>5. \A i, j \in 1..Len(Line') : Line'[i] = Line'[j] => i = j
    <2> SUFFICES ASSUME NEW i \in 1..Len(Line'), NEW j \in 1..Len(Line'), Line'[i] = Line'[j]
                 PROVE  i = j
      OBVIOUS
    <2>1. i + 1 \in 1..Len(Line) /\ j + 1 \in 1..Len(Line) /\ Line[i + 1] = Line[j + 1]
      BY <1>1, <1>2
    <2>2. i + 1 = j + 1
      BY <2>1 DEF PlaceInv
    <2> QED BY <1>1, <1>2, <2>2
  <1>6. \A s : s \in InLine' => s \in InLine /\ s # h
    <2> SUFFICES ASSUME NEW i \in 1..Len(Line') PROVE Line'[i] \in InLine /\ Line'[i] # h
      BY DEF InLine
    <2>1. i + 1 \in 1..Len(Line) /\ 1 \in 1..Len(Line) /\ i + 1 # 1 /\ Line'[i] = Line[i + 1]
      BY <1>1, <1>2
    <2>2. Line[i + 1] # Line[1]
      BY <2>1 DEF PlaceInv
    <2> QED BY <1>2, <2>1, <2>2 DEF InLine, h
  <1>7. \A q \in Referees : task'[q] = IF q = r THEN h ELSE task[q]
    BY <1>3
  <1>8. \A q \in Referees : task[q] # h
    BY <1>3, <1>4 DEF PlaceInv
  <1>9. \A q \in Referees : pc'[q] = "range" <=> task'[q] = NoOne
    BY <1>3, <1>7 DEF PlaceInv
  <1>10. \A q \in Referees : task'[q] # NoOne => outcome'[task'[q]] = "sent" /\ task'[q] \notin InLine'
    <2> SUFFICES ASSUME NEW q \in Referees, task'[q] # NoOne
                 PROVE  outcome[task'[q]] = "sent" /\ task'[q] \notin InLine'
      BY <1>3
    <2>1. CASE q = r
      <3>1. task'[q] = h
        BY <1>7, <2>1
      <3>2. h \notin InLine'
        BY <1>6
      <3> QED BY <1>4, <3>1, <3>2 DEF InLine
    <2>2. CASE q # r
      <3>1. task'[q] = task[q]
        BY <1>7, <2>2
      <3>2. outcome[task[q]] = "sent" /\ task[q] \notin InLine
        BY <3>1 DEF PlaceInv
      <3> QED BY <1>6, <3>1, <3>2
    <2> QED BY <2>1, <2>2
  <1>11. \A p, q \in Referees : task'[p] = task'[q] => p = q \/ task'[p] = NoOne
    BY <1>7, <1>8 DEF PlaceInv
  <1>12. \A s \in Tasks : s \in InLine' => outcome'[s] = "sent"
    BY <1>3, <1>6 DEF PlaceInv
  <1>13. PlaceInv'
    BY <1>1, <1>5, <1>9, <1>10, <1>11, <1>12 DEF PlaceInv
  <1> QED BY <1>2, <1>4, <1>13 DEF h

LEMMA NextPlaceInv == TypeInv /\ PlaceInv /\ [Next]_vars => PlaceInv'
  <1> SUFFICES ASSUME TypeInv, PlaceInv, [Next]_vars PROVE PlaceInv'
    OBVIOUS
  <1>0. pc \in [Referees -> {"range", "rlock", "lookup", "read", "write", "load", "store"}]
    BY DEF TypeInv, TypeOK
  <1>1. ASSUME NEW t \in Tasks, SubmitTask(t)
        PROVE  PlaceInv'
    BY <1>1, SubmitPlaceInv
  <1>2. ASSUME NEW r \in Referees, Receive(r)
        PROVE  PlaceInv'
    BY <1>2, ReceivePlaceInv
  <1>3. ASSUME NEW r \in Referees, RLock(r) \/ ActionRead(r) \/ ActionReturns(r) \/ PersistLoad(r)
        PROVE  PlaceInv'
    <2>1. \A q \in Referees : pc'[q] = "range" <=> pc[q] = "range"
      BY <1>0, <1>3 DEF RLock, ActionRead, ActionReturns, PersistLoad
    <2> QED BY <1>3, <2>1, PlaceFrame DEF RLock, ActionRead, ActionReturns, PersistLoad
  <1>4. ASSUME NEW r \in Referees, Lookup(r)
        PROVE  PlaceInv'
    <2>1. CASE GameID[task[r]] \in games
      <3>1. \A q \in Referees : pc'[q] = "range" <=> pc[q] = "range"
        BY <1>0, <1>4, <2>1 DEF Lookup
      <3> QED BY <1>4, <2>1, <3>1, PlaceFrame DEF Lookup
    <2>2. CASE GameID[task[r]] \notin games
      BY <1>4, <2>2, PlaceRelease DEF Lookup
    <2> QED BY <2>1, <2>2
  <1>5. ASSUME NEW r \in Referees, PersistStore(r)
        PROVE  PlaceInv'
    BY <1>5, PlaceRelease DEF PersistStore
  <1>6. ASSUME NEW m \in Managers, NEW op \in {"add", "remove"}, NEW g \in Games, Call(m, op, g)
        PROVE  PlaceInv'
    BY <1>6, PlaceFrame DEF Call
  <1>7. ASSUME NEW m \in Managers, Lock(m) \/ Locked(m)
        PROVE  PlaceInv'
    BY <1>7, PlaceFrame DEF Lock, Locked
  <1>8. ASSUME NEW m \in Managers, WriteMap(m)
        PROVE  PlaceInv'
    <2>1. \A q \in Referees : pc'[q] = "range" <=> pc[q] = "range"
      BY <1>0, <1>8 DEF WriteMap
    <2> QED BY <1>8, <2>1, PlaceFrame DEF WriteMap
  <1>9. CASE UNCHANGED vars
    BY <1>9, PlaceFrame DEF vars, chanVars
  <1> QED
    BY <1>1, <1>2, <1>3, <1>4, <1>5, <1>6, <1>7, <1>8, <1>9
    DEF Next, RefRoutine, Mutex, AddGame, RemoveGame

(* What TaskQueue sees of a state.                                          *)
Submitted == {t \in Tasks : outcome[t] # "new"}
Finished == {t \in Tasks : outcome[t] \in {"dropped", "done"}}

(* A step that leaves the channel, the outcomes and the referees' tasks     *)
(* alone is a stutter of the queue.                                         *)
LEMMA QueueStutter ==
    ASSUME UNCHANGED <<chanVars, outcome, task>>
    PROVE  UNCHANGED Queue!vars
  BY DEF Queue!vars, chanVars

LEMMA QueueSubmit ==
    ASSUME TypeInv, PlaceInv, NEW t \in Tasks, SubmitTask(t)
    PROVE  Queue!Submit(t)
  <1>1. Line' = Append(Line, t)
    BY SubmitLine DEF TypeInv, PlaceInv
  <1>2. /\ outcome \in [Tasks -> {"new", "sent", "dropped", "done"}] /\ task' = task
        /\ outcome[t] = "new" /\ outcome' = [outcome EXCEPT ![t] = "sent"]
    BY DEF SubmitTask, TypeInv, TypeOK
  <1>3. t \notin Submitted /\ Submitted' = Submitted \cup {t} /\ Finished' = Finished
    BY <1>2 DEF Submitted, Finished
  <1> QED BY <1>1, <1>2, <1>3 DEF Queue!Submit, Submitted, Finished, Line

LEMMA QueueTake ==
    ASSUME TypeInv, PlaceInv, NEW r \in Referees, Receive(r)
    PROVE  Queue!Take(r)
  <1>1. Line # <<>> /\ Head(Line) = Head(refTasks) /\ Line' = Tail(Line)
    BY ReceiveLine DEF TypeInv, PlaceInv
  <1>2. Head(Line) \in InLine /\ Head(Line) \in Tasks
    BY ReceivePlaceInv
  <1>3. /\ task' = [task EXCEPT ![r] = Head(Line)] /\ outcome' = outcome
        /\ task[r] = NoOne
    BY <1>1 DEF Receive, PlaceInv
  <1>4. \A q \in Referees : task[q] # Head(Line)
    BY <1>2, PoolAssumption DEF PlaceInv
  <1>5. Submitted' = Submitted /\ Finished' = Finished
    BY <1>3 DEF Submitted, Finished
  <1> QED BY <1>1, <1>3, <1>4, <1>5 DEF Queue!Take, Submitted, Finished, Line

LEMMA QueueFinish ==
    ASSUME TypeInv, PlaceInv, UNCHANGED chanVars, NEW r \in Referees, pc[r] # "range",
           NEW o \in {"dropped", "done"}, outcome' = [outcome EXCEPT ![task[r]] = o],
           task' = [task EXCEPT ![r] = NoOne]
    PROVE  Queue!Finish(r)
  <1>1. Line' = Line
    BY DEF chanVars, Line
  <1>2. /\ outcome \in [Tasks -> {"new", "sent", "dropped", "done"}]
        /\ task[r] \in Tasks /\ outcome[task[r]] = "sent"
    BY PoolAssumption DEF TypeInv, TypeOK, Holding, PlaceInv
  <1>3. /\ task[r] \in Submitted \ Finished
        /\ Submitted' = Submitted /\ Finished' = Finished \cup {task[r]}
    BY <1>2 DEF Submitted, Finished
  <1> QED BY <1>1, <1>3 DEF Queue!Finish, Submitted, Finished, Line

(* The channel, the senders blocked on it and the referees implement one    *)
(* line: tasks are taken in the order of SubmitTask, each by one referee    *)
(* and once, and none is lost; for any capacity, any number of referees and *)
(* tasks, and whatever AddGame and RemoveGame do meanwhile.                 *)
THEOREM TasksTakenInTurn == Spec => TakenInTurn
  <1>1. Init => Queue!Init
    <2> SUFFICES ASSUME Init PROVE Queue!Init
      OBVIOUS
    <2>1. Submitted = {} /\ Finished = {} /\ Line = <<>> /\ task = [r \in Referees |-> NoOne]
      BY ConcatEmptySeq DEF Init, Submitted, Finished, Line
    <2> QED BY <2>1 DEF Queue!Init, Submitted, Finished, Line
  <1>2. TypeInv /\ PlaceInv /\ [Next]_vars => [Queue!Next]_(Queue!vars)
    <2> SUFFICES ASSUME TypeInv, PlaceInv, [Next]_vars
                 PROVE  Queue!Next \/ UNCHANGED Queue!vars
      OBVIOUS
    <2>1. ASSUME NEW t \in Tasks, SubmitTask(t)
          PROVE  Queue!Next
      BY <2>1, QueueSubmit DEF Queue!Next
    <2>2. ASSUME NEW r \in Referees, Receive(r)
          PROVE  Queue!Next
      BY <2>2, QueueTake DEF Queue!Next
    <2>3. ASSUME NEW r \in Referees, Lookup(r)
          PROVE  Queue!Next \/ UNCHANGED Queue!vars
      <3>1. CASE GameID[task[r]] \in games
        BY <2>3, <3>1, QueueStutter DEF Lookup
      <3>2. CASE GameID[task[r]] \notin games
        <4>1. Queue!Finish(r)
          BY <2>3, <3>2, QueueFinish DEF Lookup
        <4> QED BY <4>1 DEF Queue!Next
      <3> QED BY <3>1, <3>2
    <2>4. ASSUME NEW r \in Referees, PersistStore(r)
          PROVE  Queue!Next
      <3>1. Queue!Finish(r)
        BY <2>4, QueueFinish DEF PersistStore
      <3> QED BY <3>1 DEF Queue!Next
    <2>5. ASSUME NEW r \in Referees, RLock(r) \/ ActionRead(r) \/ ActionReturns(r) \/ PersistLoad(r)
          PROVE  UNCHANGED Queue!vars
      BY <2>5, QueueStutter DEF RLock, ActionRead, ActionReturns, PersistLoad
    <2>6. ASSUME NEW m \in Managers, NEW op \in {"add", "remove"}, NEW g \in Games, Call(m, op, g)
          PROVE  UNCHANGED Queue!vars
      BY <2>6, QueueStutter DEF Call
    <2>7. ASSUME NEW m \in Managers, Mutex(m)
          PROVE  UNCHANGED Queue!vars
      BY <2>7, QueueStutter DEF Mutex, Lock, Locked, WriteMap
    <2>8. CASE UNCHANGED vars
      BY <2>8, QueueStutter DEF vars, chanVars
    <2> QED
      BY <2>1, <2>2, <2>3, <2>4, <2>5, <2>6, <2>7, <2>8
      DEF Next, RefRoutine, AddGame, RemoveGame
  <1> QED
    BY <1>1, <1>2, InitTypeInv, NextTypeInv, InitPlaceInv, NextPlaceInv, PTL
    DEF Spec, TakenInTurn, Queue!Spec
=============================================================================
