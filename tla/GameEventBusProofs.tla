------------------------- MODULE GameEventBusProofs -------------------------
(***************************************************************************)
(* Theorems about one event bus, for any senders, messages and topics.     *)
(***************************************************************************)
EXTENDS GameEventBus, SequenceTheorems, TLAPS

-----------------------------------------------------------------------------
(* Types *)

LEMMA RecipientsType ==
    ASSUME NEW g
    PROVE  Recipients(g) \in Seq(folksAttendingGame)
  <1> DEFINE S == SubscribersForEachTopic
  <1>1. /\ S.TestTopic \in Seq(folksAttendingGame)
        /\ S.TimerTopic \in Seq(folksAttendingGame)
        /\ S.GameLogicTopic \in Seq(folksAttendingGame)
        /\ S.MetagameTopic \in Seq(folksAttendingGame)
        /\ S.ResultsTopic \in Seq(folksAttendingGame)
    BY DEF SubscribersForEachTopic, folksAttendingGame
  <1>2. Topics = {"TestTopic", "TimerTopic", "GameLogicTopic", "MetagameTopic", "ResultsTopic"}
    BY DEF Topics, SubscribersForEachTopic
  <1>3. \A t \in Topics : S[t] \in Seq(folksAttendingGame)
    <2> HIDE DEF S
    <2> QED BY <1>1, <1>2
  <1> QED BY <1>3 DEF Recipients

LEMMA InitTypeOK == Init => TypeOK
  <1> SUFFICES ASSUME Init PROVE TypeOK
    OBVIOUS
  <1>1. <<>> \in Seq(folksAttendingGame)
    OBVIOUS
  <1>2. fto \in Seq(folksAttendingGame) /\ dto \in [Dispatchers -> Seq(folksAttendingGame)]
    BY <1>1 DEF Init
  <1>3. received \in [folksAttendingGame -> SUBSET Dispatchers]
    BY DEF Init
  <1> QED BY <1>2, <1>3 DEF Init, TypeOK

LEMMA GetsType ==
    ASSUME TypeOK, NEW x \in folksAttendingGame, NEW d \in Dispatchers,
           Gets(x, d) \/ UNCHANGED <<rpc, received>>
    PROVE  /\ rpc' \in [folksAttendingGame -> {"busy", "receiving"}]
           /\ received' \in [folksAttendingGame -> SUBSET Dispatchers]
  <1>1. CASE Gets(x, d)
    <2>1. rpc' \in [folksAttendingGame -> {"busy", "receiving"}]
      BY <1>1 DEF Gets, TypeOK
    <2>2. received[x] \cup {d} \in SUBSET Dispatchers
      BY DEF TypeOK
    <2> DEFINE more == received[x] \cup {d}
    <2>3. received' = [received EXCEPT ![x] = more]
      BY <1>1 DEF Gets
    <2> HIDE DEF more
    <2> QED BY <2>1, <2>2, <2>3 DEF TypeOK, more
  <1>2. CASE UNCHANGED <<rpc, received>>
    BY <1>2 DEF TypeOK
  <1> QED BY <1>1, <1>2

LEMMA NextTypeOK == TypeOK /\ [Next]_vars => TypeOK'
  <1> SUFFICES ASSUME TypeOK, [Next]_vars PROVE TypeOK'
    OBVIOUS
  <1> USE BusAssumption DEF TypeOK, forwarderVars, dispatcherVars, participantVars, shutdownVars
  <1>1. ASSUME NEW p \in Publishers, Publish(p) \/ PublishPanics(p) \/ Take(p) PROVE TypeOK'
    <2>1. CASE Publish(p)
      BY <2>1 DEF Publish
    <2>2. CASE PublishPanics(p)
      BY <2>2 DEF PublishPanics
    <2>3. CASE Take(p)
      BY <2>3 DEF Take
    <2> QED BY <1>1, <2>1, <2>2, <2>3
  <1>2. CASE ForwardLookup \/ Forwarded \/ ForwarderStops
    BY <1>2, RecipientsType DEF ForwardLookup, Forwarded, ForwarderStops
  <1>3. CASE ForwardTo
    <2>1. Head(fto) \in folksAttendingGame /\ Tail(fto) \in Seq(folksAttendingGame)
      BY <1>3, HeadTailProperties DEF ForwardTo
    <2>2. rpc' \in [folksAttendingGame -> {"busy", "receiving"}]
      BY <1>3, <2>1 DEF ForwardTo
    <2>3. crashed' \in BOOLEAN /\ fto' \in Seq(folksAttendingGame)
      BY <1>3, <2>1 DEF ForwardTo
    <2> QED BY <1>3, <2>2, <2>3 DEF ForwardTo
  <1>4. ASSUME NEW d \in Dispatchers, Dispatch(d) \/ Dispatched(d)
        PROVE  TypeOK'
    BY <1>4 DEF Dispatch, Dispatched
  <1>5. ASSUME NEW d \in Dispatchers, getChannelsForTopic(d)
        PROVE  TypeOK'
    <2>1. dto' \in [Dispatchers -> Seq(folksAttendingGame)]
      BY <1>5, RecipientsType DEF getChannelsForTopic
    <2>2. dpc' \in [Dispatchers -> {"new", "lookup", "send", "returned"}]
      BY <1>5 DEF getChannelsForTopic
    <2> QED BY <1>5, <2>1, <2>2 DEF getChannelsForTopic
  <1>9. ASSUME NEW d \in Dispatchers, SendTo(d) PROVE TypeOK'
    <2>1. Head(dto[d]) \in folksAttendingGame /\ Tail(dto[d]) \in Seq(folksAttendingGame)
      BY <1>9, HeadTailProperties DEF SendTo
    <2>2. dto' \in [Dispatchers -> Seq(folksAttendingGame)]
      BY <1>9, <2>1 DEF SendTo
    <2>3. /\ rpc' \in [folksAttendingGame -> {"busy", "receiving"}]
          /\ received' \in [folksAttendingGame -> SUBSET Dispatchers]
      <3>1. Gets(Head(dto[d]), d) \/ UNCHANGED <<rpc, received>>
        BY <1>9 DEF SendTo
      <3> QED BY <2>1, <3>1, GetsType
    <2>4. crashed' \in BOOLEAN
      BY <1>9 DEF SendTo
    <2> QED BY <1>9, <2>2, <2>3, <2>4 DEF SendTo
  <1>6. ASSUME NEW x \in folksAttendingGame, Ready(x) \/ TurnsAway(x) \/ CloseChannel(x)
        PROVE  TypeOK'
    BY <1>6 DEF Ready, TurnsAway, CloseChannel
  <1>7. CASE ShutdownCalled \/ ShutdownLock \/ CloseEventChan \/ Cancel \/ ContextCancelled
    BY <1>7 DEF ShutdownCalled, ShutdownLock, CloseEventChan, Cancel,
                  ContextCancelled
  <1>8. CASE UNCHANGED vars
    BY <1>8 DEF vars
  <1> QED BY <1>1, <1>2, <1>3, <1>4, <1>5, <1>6, <1>7, <1>8, <1>9
          DEF Next, marshalAndForward, DispatchMessage, Shutdown

(* Every reachable state of the bus has its type. *)
THEOREM TypeCorrect == Spec => []TypeOK
  <1> QED BY InitTypeOK, NextTypeOK, PTL DEF Spec

-----------------------------------------------------------------------------
(* Only a Shutdown under way closes channels. *)

ClosedInv ==
    /\ closed # {} => spc \in {"closing", "closed", "done"}
    /\ NoPanicInGame

LEMMA NextClosedInv == TypeOK /\ ClosedInv /\ [Next]_vars => ClosedInv'
  <1> SUFFICES ASSUME TypeOK, ClosedInv, [Next]_vars PROVE ClosedInv'
    OBVIOUS
  <1> USE DEF ClosedInv, NoPanicInGame, EventChanClosed, forwarderVars, dispatcherVars,
              participantVars, shutdownVars
  <1>1. ASSUME NEW p \in Publishers, Publish(p) \/ PublishPanics(p) \/ Take(p) PROVE ClosedInv'
    BY <1>1 DEF Publish, PublishPanics, Take
  <1>2. CASE ForwardLookup \/ Forwarded \/ ForwarderStops
    BY <1>2 DEF ForwardLookup, Forwarded, ForwarderStops
  <1>7. CASE ForwardTo
    <2>1. closed' = closed /\ spc' = spc /\ (crashed' <=> Head(fto) \in closed)
      BY <1>7 DEF ForwardTo
    <2> QED BY <2>1 DEF TypeOK
  <1>3. ASSUME NEW d \in Dispatchers, Dispatch(d) \/ DispatchMessage(d) PROVE ClosedInv'
    BY <1>3 DEF Dispatch, DispatchMessage, getChannelsForTopic, SendTo, Dispatched
  <1>4. ASSUME NEW x \in folksAttendingGame, Ready(x) \/ TurnsAway(x) \/ CloseChannel(x)
        PROVE  ClosedInv'
    BY <1>4 DEF Ready, TurnsAway, CloseChannel
  <1>5. CASE ShutdownCalled \/ ShutdownLock \/ CloseEventChan \/ Cancel \/ ContextCancelled
    BY <1>5 DEF ShutdownCalled, ShutdownLock, CloseEventChan, Cancel,
                  ContextCancelled
  <1>6. CASE UNCHANGED vars
    BY <1>6 DEF vars
  <1> QED BY <1>1, <1>2, <1>3, <1>4, <1>5, <1>6, <1>7, BusAssumption
          DEF Next, marshalAndForward, Shutdown

(* While the game runs nothing on the bus panics, whoever sends and however *)
(* slow the participants are (Shutdown and the sends of the bus).           *)
THEOREM NoPanicWhileRunning == Spec => []NoPanicInGame
  <1>1. Init => ClosedInv
    BY DEF Init, ClosedInv, NoPanicInGame
  <1>2. ClosedInv => NoPanicInGame
    BY DEF ClosedInv
  <1> QED BY <1>1, <1>2, NextClosedInv, TypeCorrect, PTL DEF Spec

-----------------------------------------------------------------------------
(* A dispatcher has given its message to whom it no longer has to send it.  *)

DispatchInv ==
    \A d \in Dispatchers :
        /\ dpc[d] = "send" =>
              \A x \in ToSet(Recipients(d)) : d \in received[x] \/ x \in ToSet(dto[d])
        /\ dpc[d] = "returned" =>
              \A x \in ToSet(Recipients(d)) : d \in received[x]

LEMMA HeadOrTail ==
    ASSUME NEW S, NEW s \in Seq(S), s # <<>>, NEW x \in ToSet(s)
    PROVE  x = Head(s) \/ x \in ToSet(Tail(s))
  <1>1. PICK i \in 1..Len(s) : x = s[i]
    BY DEF ToSet
  <1>2. CASE i = 1
    BY <1>1, <1>2
  <1>3. CASE i # 1
    <2>1. i - 1 \in 1..Len(Tail(s)) /\ Tail(s)[i - 1] = s[i]
      BY <1>3
    <2>2. DOMAIN Tail(s) = 1..Len(Tail(s))
      OBVIOUS
    <2> QED BY <1>1, <2>1, <2>2 DEF ToSet
  <1> QED BY <1>2, <1>3

LEMMA RecipientsInGame == ASSUME NEW g PROVE ToSet(Recipients(g)) \subseteq folksAttendingGame
  BY RecipientsType DEF ToSet

(* What is received is kept, and no other step moves a dispatcher. *)
LEMMA DispatchFrame ==
    ASSUME DispatchInv, UNCHANGED <<dpc, dto>>,
           \A x \in folksAttendingGame : received[x] \subseteq received'[x]
    PROVE  DispatchInv'
  BY RecipientsInGame DEF DispatchInv

LEMMA NextDispatchInv == TypeOK /\ DispatchInv /\ [Next]_vars => DispatchInv'
  <1> SUFFICES ASSUME TypeOK, DispatchInv, [Next]_vars PROVE DispatchInv'
    OBVIOUS
  <1> USE DEF forwarderVars, dispatcherVars, participantVars, shutdownVars
  <1>1. ASSUME NEW p \in Publishers, Publish(p) \/ PublishPanics(p) \/ Take(p) PROVE DispatchInv'
    BY <1>1, DispatchFrame DEF Publish, PublishPanics, Take
  <1>2. CASE ForwardLookup \/ Forwarded \/ ForwarderStops
    BY <1>2, DispatchFrame DEF ForwardLookup, Forwarded, ForwarderStops
  <1>3. CASE ForwardTo
    BY <1>3, DispatchFrame DEF ForwardTo
  <1>4. ASSUME NEW d \in Dispatchers, Dispatch(d) PROVE DispatchInv'
    BY <1>4 DEF Dispatch, DispatchInv, TypeOK
  <1>5. ASSUME NEW d \in Dispatchers, getChannelsForTopic(d) PROVE DispatchInv'
    <2>1. TopicName[d] \notin Topics => ToSet(Recipients(d)) = {}
      BY DEF Recipients, ToSet
    <2>2. /\ dpc' = [dpc EXCEPT ![d] = IF TopicName[d] \in Topics THEN "send" ELSE "returned"]
          /\ dto' = [dto EXCEPT ![d] = Recipients(d)]
          /\ received' = received
      BY <1>5 DEF getChannelsForTopic
    <2> QED BY <2>1, <2>2 DEF DispatchInv, TypeOK
  <1>6. ASSUME NEW d \in Dispatchers, SendTo(d) PROVE DispatchInv'
    <2>1. CASE Head(dto[d]) \in closed
      BY <1>6, <2>1, DispatchFrame DEF SendTo
    <2>2. CASE Head(dto[d]) \notin closed
      <3> DEFINE h == Head(dto[d])
      <3>1. /\ dpc' = dpc /\ dpc[d] = "send" /\ dto[d] # <<>>
            /\ dto' = [dto EXCEPT ![d] = Tail(dto[d])]
            /\ received' = [received EXCEPT ![h] = @ \cup {d}]
        BY <1>6, <2>2 DEF SendTo, Gets
      <3>2. dto[d] \in Seq(folksAttendingGame) /\ h \in folksAttendingGame
        BY <3>1 DEF TypeOK
      <3>3. \A x \in ToSet(dto[d]) : x = h \/ x \in ToSet(dto'[d])
        BY <3>1, <3>2, HeadOrTail DEF TypeOK
      <3>4. d \in received'[h] /\ \A x \in folksAttendingGame : received[x] \subseteq received'[x]
        BY <3>1, <3>2 DEF TypeOK
      <3>5. \A e \in Dispatchers \ {d} : dto'[e] = dto[e]
        BY <3>1 DEF TypeOK
      <3> HIDE DEF h
      <3> QED BY <3>1, <3>3, <3>4, <3>5, RecipientsInGame DEF DispatchInv
    <2> QED BY <2>1, <2>2
  <1>7. ASSUME NEW d \in Dispatchers, Dispatched(d) PROVE DispatchInv'
    <2>1. ToSet(<<>>) = {}
      BY DEF ToSet
    <2> QED BY <1>7, <2>1 DEF Dispatched, DispatchInv, TypeOK
  <1>8. ASSUME NEW x \in folksAttendingGame, Ready(x) \/ TurnsAway(x) \/ CloseChannel(x)
        PROVE  DispatchInv'
    BY <1>8, DispatchFrame DEF Ready, TurnsAway, CloseChannel
  <1>9. CASE ShutdownCalled \/ ShutdownLock \/ CloseEventChan \/ Cancel \/ ContextCancelled
    BY <1>9, DispatchFrame DEF ShutdownCalled, ShutdownLock, CloseEventChan, Cancel,
                  ContextCancelled
  <1>10. CASE UNCHANGED vars
    BY <1>10, DispatchFrame DEF vars
  <1> QED BY <1>1, <1>2, <1>3, <1>4, <1>5, <1>6, <1>7, <1>8, <1>9, <1>10, BusAssumption
          DEF Next, marshalAndForward, DispatchMessage, Shutdown

(* DispatchMessage returns only once every subscriber of the topic was      *)
(* given the message.                                                       *)
THEOREM DispatchReachesAll == Spec => []DispatchedToAll
  <1>1. Init => DispatchInv
    BY DEF Init, DispatchInv
  <1>2. DispatchInv => DispatchedToAll
    BY DEF DispatchInv, DispatchedToAll
  <1> QED BY <1>1, <1>2, NextDispatchInv, TypeCorrect, PTL DEF Spec
=============================================================================
