--------------------------- MODULE GameLocusProofs ---------------------------
(***************************************************************************)
(* Theorems about the broadcasting of events, for any finite sets of       *)
(* clients and events, every size of the channels and every burst of the   *)
(* limiter.                                                                *)
(***************************************************************************)
EXTENDS GameLocus, SequenceTheorems, FiniteSetTheorems, TLAPS

-----------------------------------------------------------------------------
(* What is in a client's hands and on its way, and how the actions move it. *)

Queue(c) == delivered[c] \o writing[c] \o evts[c]

(* An event added to the channel is added to the whole. *)
LEMMA QueueAppend ==
    ASSUME NEW S, NEW d \in Seq(S), NEW w \in Seq(S), NEW q \in Seq(S), NEW e \in S
    PROVE  d \o w \o Append(q, e) = Append(d \o w \o q, e)
  <1>1. d \o w \in Seq(S) /\ Append(q, e) \in Seq(S) /\ <<e>> \in Seq(S)
    BY ConcatProperties
  <1> DEFINE s == d \o w
  <1>2. s \in Seq(S)
    BY <1>1
  <1> HIDE DEF s
  <1>3. s \o Append(q, e) = Append(s \o q, e)
    BY <1>2
  <1> QED BY <1>3 DEF s

(* The event taken from the channel to be written stays where it is. *)
LEMMA QueueReceive ==
    ASSUME NEW S, NEW d \in Seq(S), NEW q \in Seq(S), q # <<>>
    PROVE  d \o <<Head(q)>> \o Tail(q) = d \o <<>> \o q
  <1>1. Head(q) \in S /\ Tail(q) \in Seq(S) /\ <<Head(q)>> \in Seq(S)
    BY HeadTailProperties
  <1>2. d \o <<Head(q)>> \o Tail(q) = d \o (<<Head(q)>> \o Tail(q))
    BY <1>1, ConcatAssociative
  <1>3. <<Head(q)>> \o Tail(q) = q
    OBVIOUS
  <1>4. d \o <<>> = d
    BY ConcatEmptySeq
  <1> QED BY <1>2, <1>3, <1>4

(* So does an event that was written. *)
LEMMA QueueWrite ==
    ASSUME NEW S, NEW d \in Seq(S), NEW w \in Seq(S), NEW q \in Seq(S)
    PROVE  (d \o w) \o <<>> \o q = d \o w \o q
  <1>1. d \o w \in Seq(S)
    BY ConcatProperties
  <1>2. (d \o w) \o <<>> = d \o w
    BY <1>1, ConcatEmptySeq
  <1> QED BY <1>2

-----------------------------------------------------------------------------
(* Types *)

LEMMA InitTypeOK == Init => TypeOK
  <1> SUFFICES ASSUME Init PROVE TypeOK
    OBVIOUS
  <1>1. <<>> \in Seq(Events) /\ Len(<<>>) = 0
    BY EmptySeq
  <1>2. \A c \in Clients : Len(evts[c]) <= Buffer
    BY <1>1, LocusAssumption DEF Init
  <1>3. [c \in Clients |-> <<>>] \in [Clients -> Seq(Events)]
    BY <1>1
  <1>4. /\ evts \in [Clients -> Seq(Events)] /\ writing \in [Clients -> Seq(Events)]
        /\ delivered \in [Clients -> Seq(Events)] /\ offered \in [Clients -> Seq(Events)]
    BY <1>3 DEF Init
  <1>5. /\ subscribers \subseteq Clients /\ subscribersMu \in Events \cup {NoOne}
        /\ tokens \in 0..Burst /\ stamp \in [Events -> Nat]
        /\ remaining \in [Events -> SUBSET Clients]
        /\ epc \in [Events -> {"new", "lock", "wait", "send", "done"}]
    BY LocusAssumption DEF Init
  <1>6. /\ pc \in [Clients -> {"new", "add", "loop", "write", "delete", "left", "done"}]
        /\ conn \in [Clients -> {"none", "open", "closed"}]
        /\ cancelled \subseteq Clients /\ interrupted \in BOOLEAN /\ told \subseteq Clients
    BY DEF Init
  <1> QED BY <1>2, <1>4, <1>5, <1>6 DEF TypeOK

LEMMA NextTypeOK == TypeOK /\ [Next]_vars => TypeOK'
  <1> SUFFICES ASSUME TypeOK, [Next]_vars PROVE TypeOK'
    OBVIOUS
  <1> USE LocusAssumption DEF TypeOK, publishVars, connVars, eventVars
  <1>1. ASSUME NEW e \in Events, publishHandler(e) PROVE TypeOK'
    BY <1>1 DEF publishHandler
  <1>2. ASSUME NEW e \in Events, Lock(e) PROVE TypeOK'
    BY <1>2 DEF Lock
  <1>3. ASSUME NEW e \in Events, Wait(e) PROVE TypeOK'
    <2>1. IsFiniteSet({f \in Events : stamp[f] # 0})
      BY FS_Subset
    <2>2. Cardinality({f \in Events : stamp[f] # 0}) + 1 \in Nat
      BY <2>1, FS_CardinalityType
    <2>3. stamp' \in [Events -> Nat]
      BY <1>3, <2>2 DEF Wait
    <2> QED BY <1>3, <2>3 DEF Wait
  <1>4. ASSUME NEW e \in Events, NEW c \in Clients, Offer(e, c) PROVE TypeOK'
    <2>1. offered' \in [Clients -> Seq(Events)] /\ remaining' \in [Events -> SUBSET Clients]
      BY <1>4 DEF Offer
    <2>2. /\ evts' \in [Clients -> Seq(Events)] /\ told' \subseteq Clients
          /\ \A k \in Clients : Len(evts'[k]) <= Buffer
      <3>1. CASE Len(evts[c]) < Buffer
        <4>1. Append(evts[c], e) \in Seq(Events)
              /\ Len(Append(evts[c], e)) = Len(evts[c]) + 1 /\ Len(evts[c]) \in Nat
          OBVIOUS
        <4> DEFINE longer == Append(evts[c], e)
        <4>2. evts' = [evts EXCEPT ![c] = longer] /\ told' = told
          BY <1>4, <3>1 DEF Offer
        <4>3. longer \in Seq(Events) /\ Len(longer) <= Buffer
          BY <3>1, <4>1
        <4> HIDE DEF longer
        <4> QED BY <4>2, <4>3
      <3>2. CASE ~(Len(evts[c]) < Buffer)
        BY <1>4, <3>2 DEF Offer
      <3> QED BY <3>1, <3>2
    <2>3. /\ subscribers' = subscribers /\ subscribersMu' = subscribersMu
          /\ tokens' = tokens /\ epc' = epc /\ stamp' = stamp /\ pc' = pc /\ conn' = conn
          /\ cancelled' = cancelled /\ interrupted' = interrupted
          /\ writing' = writing /\ delivered' = delivered
      BY <1>4 DEF Offer
    <2> QED BY ONLY TypeOK, <2>1, <2>2, <2>3 DEF TypeOK
  <1>5. ASSUME NEW e \in Events, Unlock(e) PROVE TypeOK'
    BY <1>5 DEF Unlock
  <1>6. CASE Refill
    BY <1>6 DEF Refill
  <1>7. ASSUME NEW c \in Clients, Accept(c) PROVE TypeOK'
    <2>1. CASE pc' = [pc EXCEPT ![c] = "add"] /\ conn' = [conn EXCEPT ![c] = "open"]
      BY <1>7, <2>1 DEF Accept
    <2>2. CASE pc' = [pc EXCEPT ![c] = "done"] /\ conn' = conn
      BY <1>7, <2>2 DEF Accept
    <2> QED BY <1>7, <2>1, <2>2 DEF Accept
  <1>8. ASSUME NEW c \in Clients, AddSubscriber(c) PROVE TypeOK'
    BY <1>8 DEF AddSubscriber
  <1>9. ASSUME NEW c \in Clients, Receive(c) PROVE TypeOK'
    <2>1. /\ Head(evts[c]) \in Events /\ Tail(evts[c]) \in Seq(Events)
          /\ Len(Tail(evts[c])) = Len(evts[c]) - 1 /\ Len(evts[c]) \in Nat
          /\ <<Head(evts[c])>> \in Seq(Events)
      BY <1>9, HeadTailProperties DEF Receive
    <2>2. \A k \in Clients : Len(evts'[k]) <= Buffer
      BY <1>9, <2>1 DEF Receive
    <2>3. writing' \in [Clients -> Seq(Events)] /\ evts' \in [Clients -> Seq(Events)]
      BY <1>9, <2>1 DEF Receive
    <2> QED BY <1>9, <2>2, <2>3 DEF Receive
  <1>10. ASSUME NEW c \in Clients, ContextDone(c) PROVE TypeOK'
    BY <1>10 DEF ContextDone
  <1>11. ASSUME NEW c \in Clients, Write(c) PROVE TypeOK'
    <2>1. delivered[c] \o writing[c] \in Seq(Events) /\ <<>> \in Seq(Events)
      BY ConcatProperties, EmptySeq
    <2> DEFINE longer == delivered[c] \o writing[c]
               none == <<>>
    <2>2. /\ writing' = [writing EXCEPT ![c] = none]
          /\ UNCHANGED <<subscribers, subscribersMu, tokens, epc, remaining, stamp>>
          /\ UNCHANGED <<cancelled, interrupted, told, evts, offered>>
      BY <1>11 DEF Write
    <2>3. longer \in Seq(Events) /\ none \in Seq(Events)
      BY <2>1
    <2> HIDE DEF longer, none
    <2>4. CASE /\ delivered' = [delivered EXCEPT ![c] = longer] /\ conn' = conn
               /\ pc' = [pc EXCEPT ![c] = "loop"]
      BY <2>2, <2>3, <2>4
    <2>5. CASE /\ delivered' = delivered /\ conn' = [conn EXCEPT ![c] = "closed"]
               /\ pc' = [pc EXCEPT ![c] = "delete"]
      BY <2>2, <2>3, <2>5
    <2> QED BY <1>11, <2>4, <2>5 DEF Write, longer
  <1>12. ASSUME NEW c \in Clients, DeleteSubscriber(c) PROVE TypeOK'
    BY <1>12 DEF DeleteSubscriber
  <1>13. ASSUME NEW c \in Clients, Return(c) PROVE TypeOK'
    BY <1>13 DEF Return
  <1>14. ASSUME NEW c \in Clients, Hangup(c) \/ closeTooSlow(c) \/ CloseRead(c) PROVE TypeOK'
    <2>1. CASE Hangup(c)
      BY <2>1 DEF Hangup
    <2>2. CASE closeTooSlow(c)
      BY <2>2 DEF closeTooSlow
    <2>3. CASE CloseRead(c)
      BY <2>3 DEF CloseRead
    <2> QED BY <1>14, <2>1, <2>2, <2>3
  <1>15. CASE Interrupt
    BY <1>15 DEF Interrupt
  <1>16. CASE UNCHANGED vars
    BY <1>16 DEF vars
  <1> QED
    BY <1>1, <1>2, <1>3, <1>4, <1>5, <1>6, <1>7, <1>8, <1>9, <1>10, <1>11, <1>12, <1>13,
       <1>14, <1>15, <1>16 DEF Next, publish, subscribe

(* The state of publish, of the handlers and of the connections has its     *)
(* type, and no channel holds more than its buffer, whatever the sets of    *)
(* clients and events are.                                                  *)
THEOREM TypeCorrect == Spec => []TypeOK
  BY InitTypeOK, NextTypeOK, PTL DEF Spec

-----------------------------------------------------------------------------
(* The mutex: one publish is past Lock at a time, and while one goes        *)
(* through the map nobody enters or leaves it.                              *)

LockInv ==
    /\ \A e \in Events : epc[e] \in {"wait", "send"} => subscribersMu = e
    /\ \A c \in subscribers : pc[c] \in {"loop", "write", "delete"}
    /\ MapSteady

LEMMA LockFrame ==
    ASSUME LockInv, UNCHANGED <<subscribers, subscribersMu, epc, remaining>>,
           UNCHANGED pc
    PROVE  LockInv'
  BY DEF LockInv, MapSteady

LEMMA NextLockInv == TypeOK /\ LockInv /\ [Next]_vars => LockInv'
  <1> SUFFICES ASSUME TypeOK, LockInv, [Next]_vars PROVE LockInv'
    OBVIOUS
  <1> USE LocusAssumption DEF LockInv, MapSteady, connVars, publishVars
  <1>1. ASSUME NEW e \in Events, publishHandler(e) \/ Lock(e) \/ Wait(e) \/ Unlock(e)
        PROVE  LockInv'
    <2>1. CASE publishHandler(e)
      BY <2>1 DEF publishHandler, TypeOK
    <2>4. CASE Lock(e)
      BY <2>4 DEF Lock, TypeOK
    <2>2. CASE Wait(e)
      BY <2>2 DEF Wait, TypeOK
    <2>3. CASE Unlock(e)
      BY <2>3 DEF Unlock, TypeOK
    <2> QED BY <1>1, <2>1, <2>2, <2>3, <2>4
  <1>2. ASSUME NEW e \in Events, NEW c \in Clients, Offer(e, c)
        PROVE  LockInv'
    BY <1>2 DEF Offer, TypeOK
  <1>3. ASSUME NEW c \in Clients, Accept(c) \/ Receive(c) \/ ContextDone(c) \/ Write(c) \/ Return(c)
        PROVE  LockInv'
    <2>1. /\ UNCHANGED <<subscribers, subscribersMu, epc, remaining>>
          /\ c \in subscribers => pc'[c] \in {"write", "delete", "loop"}
          /\ \A k \in Clients \ {c} : pc'[k] = pc[k]
      BY <1>3 DEF Accept, Receive, ContextDone, Write, Return, TypeOK
    <2> QED BY <2>1 DEF TypeOK
  <1>4. ASSUME NEW c \in Clients, AddSubscriber(c) \/ DeleteSubscriber(c)
        PROVE  LockInv'
    <2>1. \A e \in Events : epc[e] # "send"
      BY <1>4 DEF AddSubscriber, DeleteSubscriber
    <2> QED BY <1>4, <2>1 DEF AddSubscriber, DeleteSubscriber, TypeOK
  <1>5. CASE Refill
    BY <1>5, LockFrame DEF Refill
  <1>6. ASSUME NEW c \in Clients, Hangup(c) \/ closeTooSlow(c) \/ CloseRead(c)
        PROVE  LockInv'
    BY <1>6, LockFrame DEF Hangup, closeTooSlow, CloseRead
  <1>7. CASE Interrupt
    BY <1>7, LockFrame DEF Interrupt
  <1>8. CASE UNCHANGED vars
    BY <1>8, LockFrame DEF vars
  <1> QED
    BY <1>1, <1>2, <1>3, <1>4, <1>5, <1>6, <1>7, <1>8 DEF Next, publish, subscribe

LEMMA InitLockInv == Init => LockInv
  BY DEF Init, LockInv, MapSteady

(* Nobody enters or leaves the map of subscribers while a publish ranges    *)
(* over it, for any number of publishes and connections.                    *)
THEOREM MapIsSteady == Spec => []MapSteady
  <1>1. LockInv => MapSteady
    BY DEF LockInv
  <1> QED
    BY <1>1, InitTypeOK, NextTypeOK, InitLockInv, NextLockInv, PTL DEF Spec

-----------------------------------------------------------------------------
(* No event is lost in silence. *)

GapInv ==
    /\ \A c \in Clients : pc[c] \in {"new", "add"} =>
          offered[c] = <<>> /\ delivered[c] = <<>> /\ evts[c] = <<>>
    /\ \A c \in Clients : pc[c] # "write" => writing[c] = <<>>
    /\ \A c \in Clients : pc[c] \in {"loop", "write"} /\ c \notin told =>
          offered[c] = Queue(c)

LEMMA InitGapInv == Init => GapInv
  BY DEF Init, GapInv

LEMMA GapFrame ==
    ASSUME GapInv, UNCHANGED <<told, evts, writing, delivered, offered>>,
           \A c \in Clients : pc'[c] = pc[c] \/ pc'[c] \in {"delete", "left", "done"},
           \A c \in Clients : pc'[c] = pc[c] \/ pc[c] # "write"
    PROVE  GapInv'
  BY DEF GapInv, Queue

LEMMA NextGapInv == TypeOK /\ LockInv /\ GapInv /\ [Next]_vars => GapInv'
  <1> SUFFICES ASSUME TypeOK, LockInv, GapInv, [Next]_vars PROVE GapInv'
    OBVIOUS
  <1>1. ASSUME NEW e \in Events, publishHandler(e) \/ Lock(e) \/ Wait(e) \/ Unlock(e)
        PROVE  GapInv'
    BY <1>1, GapFrame DEF publishHandler, Lock, Wait, Unlock, connVars, eventVars
  <1>2. ASSUME NEW e \in Events, NEW c \in Clients, Offer(e, c)
        PROVE  GapInv'
    <2>1. /\ UNCHANGED <<pc, writing, delivered>>
          /\ offered' = [offered EXCEPT ![c] = Append(@, e)]
      BY <1>2 DEF Offer
    <2>2. pc[c] \in {"loop", "write", "delete"}
      BY <1>2 DEF Offer, LockInv, MapSteady
    <2>3. /\ \A k \in Clients \ {c} : evts'[k] = evts[k] /\ offered'[k] = offered[k]
          /\ told \subseteq told' /\ told' \subseteq told \cup {c}
      BY <1>2, <2>1 DEF Offer, TypeOK
    <2>4. c \notin told' /\ pc[c] \in {"loop", "write"} => offered'[c] = Queue(c)'
      <3> SUFFICES ASSUME c \notin told', pc[c] \in {"loop", "write"}
                   PROVE  offered'[c] = Queue(c)'
        OBVIOUS
      <3>1. evts' = [evts EXCEPT ![c] = Append(@, e)]
        BY <1>2 DEF Offer
      <3>2. evts'[c] = Append(evts[c], e) /\ offered'[c] = Append(offered[c], e)
        BY <2>1, <3>1 DEF TypeOK
      <3>3. offered[c] = delivered[c] \o writing[c] \o evts[c]
        BY <2>3 DEF GapInv, Queue
      <3>4. delivered[c] \o writing[c] \o Append(evts[c], e)
              = Append(delivered[c] \o writing[c] \o evts[c], e)
        <4> DEFINE d == delivered[c]
                   w == writing[c]
                   q == evts[c]
        <4>1. d \in Seq(Events) /\ w \in Seq(Events) /\ q \in Seq(Events)
          BY DEF TypeOK
        <4> HIDE DEF d, w, q
        <4>2. d \o w \o Append(q, e) = Append(d \o w \o q, e)
          BY <4>1, QueueAppend, SMTT(30)
        <4> QED BY <4>2 DEF d, w, q
      <3> QED BY <2>1, <3>2, <3>3, <3>4 DEF Queue
    <2> QED BY <2>1, <2>2, <2>3, <2>4 DEF GapInv, Queue
  <1>3. ASSUME NEW c \in Clients, Accept(c)
        PROVE  GapInv'
    <2>1. pc[c] = "new" /\ pc'[c] \in {"add", "done"} /\ \A k \in Clients \ {c} : pc'[k] = pc[k]
      BY <1>3 DEF Accept, TypeOK
    <2>2. UNCHANGED <<told, evts, writing, delivered, offered>>
      BY <1>3 DEF Accept, eventVars
    <2> QED BY <2>1, <2>2 DEF GapInv, Queue
  <1>4. ASSUME NEW c \in Clients, AddSubscriber(c)
        PROVE  GapInv'
    <2>1. pc[c] = "add" /\ pc'[c] = "loop" /\ \A k \in Clients \ {c} : pc'[k] = pc[k]
      BY <1>4 DEF AddSubscriber, TypeOK
    <2>2. UNCHANGED <<told, evts, writing, delivered, offered>>
      BY <1>4 DEF AddSubscriber, connVars, eventVars
    <2>3. Queue(c) = offered[c]
      <3>1. /\ offered[c] = <<>> /\ delivered[c] = <<>> /\ evts[c] = <<>> /\ writing[c] = <<>>
        BY <2>1 DEF GapInv
      <3>2. <<>> \o <<>> \o <<>> = <<>>
        BY ConcatEmptySeq, EmptySeq
      <3> QED BY <3>1, <3>2 DEF Queue
    <2> QED BY <2>1, <2>2, <2>3 DEF GapInv, Queue
  <1>5. ASSUME NEW c \in Clients, Receive(c)
        PROVE  GapInv'
    <2>1. /\ pc[c] = "loop" /\ pc'[c] = "write" /\ \A k \in Clients \ {c} : pc'[k] = pc[k]
          /\ UNCHANGED <<told, delivered, offered>>
          /\ \A k \in Clients \ {c} : writing'[k] = writing[k] /\ evts'[k] = evts[k]
      BY <1>5 DEF Receive, TypeOK, connVars
    <2>2. writing[c] = <<>>
      BY <2>1 DEF GapInv
    <2>3. Queue(c)' = Queue(c)
      <3>1. writing'[c] = <<Head(evts[c])>> /\ evts'[c] = Tail(evts[c]) /\ evts[c] # <<>>
        BY <1>5 DEF Receive, TypeOK
      <3>2. delivered[c] \o <<Head(evts[c])>> \o Tail(evts[c]) = delivered[c] \o <<>> \o evts[c]
        <4>1. delivered[c] \in Seq(Events) /\ evts[c] \in Seq(Events)
          BY DEF TypeOK
        <4> QED BY <3>1, <4>1, QueueReceive
      <3> QED BY <2>1, <2>2, <3>1, <3>2 DEF Queue
    <2> QED BY <2>1, <2>3 DEF GapInv, Queue
  <1>6. ASSUME NEW c \in Clients, Write(c)
        PROVE  GapInv'
    <2>1. /\ pc[c] = "write" /\ \A k \in Clients \ {c} : pc'[k] = pc[k]
          /\ UNCHANGED <<told, evts, offered>>
          /\ \A k \in Clients \ {c} : writing'[k] = writing[k] /\ delivered'[k] = delivered[k]
          /\ writing'[c] = <<>> /\ pc'[c] \in {"loop", "delete"}
      BY <1>6 DEF Write, TypeOK
    <2>2. pc'[c] = "loop" => Queue(c)' = Queue(c)
      <3> SUFFICES ASSUME pc'[c] = "loop" PROVE Queue(c)' = Queue(c)
        OBVIOUS
      <3>1. delivered'[c] = delivered[c] \o writing[c]
        BY <1>6 DEF Write, TypeOK
      <3>2. (delivered[c] \o writing[c]) \o <<>> \o evts[c] = delivered[c] \o writing[c] \o evts[c]
        BY QueueWrite DEF TypeOK
      <3> QED BY <2>1, <3>1, <3>2 DEF Queue
    <2> QED BY <2>1, <2>2 DEF GapInv, Queue
  <1>7. ASSUME NEW c \in Clients, ContextDone(c) \/ DeleteSubscriber(c) \/ Return(c)
        PROVE  GapInv'
    <2>1. /\ pc[c] # "write" /\ pc'[c] \in {"delete", "left", "done"}
          /\ \A k \in Clients \ {c} : pc'[k] = pc[k]
          /\ UNCHANGED <<told, evts, writing, delivered, offered>>
      BY <1>7 DEF ContextDone, DeleteSubscriber, Return, TypeOK, connVars, eventVars
    <2> QED BY <2>1, GapFrame
  <1>8. CASE Refill
    BY <1>8, GapFrame DEF Refill, connVars, eventVars
  <1>9. ASSUME NEW c \in Clients, Hangup(c) \/ closeTooSlow(c) \/ CloseRead(c)
        PROVE  GapInv'
    BY <1>9, GapFrame DEF Hangup, closeTooSlow, CloseRead, eventVars
  <1>10. CASE Interrupt
    BY <1>10, GapFrame DEF Interrupt, eventVars
  <1>11. CASE UNCHANGED vars
    BY <1>11, GapFrame DEF vars
  <1> QED
    BY <1>1, <1>2, <1>3, <1>4, <1>5, <1>6, <1>7, <1>8, <1>9, <1>10, <1>11
    DEF Next, publish, subscribe

(* A served client for which closeTooSlow was not started has, in its hands *)
(* or on the way, all that was offered to it, for every size of its channel. *)
THEOREM NoSilentGaps == Spec => []GapsOnlyIfTold
  <1>1. GapInv => GapsOnlyIfTold
    BY DEF GapInv, GapsOnlyIfTold, Queue
  <1> QED
    BY <1>1, InitTypeOK, NextTypeOK, InitLockInv, NextLockInv, InitGapInv, NextGapInv, PTL DEF Spec

-----------------------------------------------------------------------------
(* The order of events.  Stamps only grow, each publish gets the next one   *)
(* when the limiter lets it through, and what a client holds rises.         *)

Rising(s, st) ==
    /\ \A i \in 1..Len(s) : st[s[i]] # 0
    /\ \A i, j \in 1..Len(s) : i < j => st[s[i]] < st[s[j]]
Below(s, st, n) == \A i \in 1..Len(s) : st[s[i]] < n

LEMMA RisingEmpty == \A st : Rising(<<>>, st)
  BY EmptySeq DEF Rising

LEMMA RisingAppend ==
    ASSUME NEW s \in Seq(Events), NEW st \in [Events -> Nat], NEW e \in Events,
           Rising(s, st), Below(s, st, st[e]), st[e] # 0
    PROVE  Rising(Append(s, e), st)
  <1> DEFINE longer == Append(s, e)
  <1>1. /\ Len(longer) = Len(s) + 1 /\ Len(s) \in Nat /\ longer[Len(s) + 1] = e
        /\ \A i \in 1..Len(s) : longer[i] = s[i] /\ s[i] \in Events
    BY ElementOfSeq
  <1> HIDE DEF longer
  <1>2. \A i \in 1..Len(longer) : longer[i] = e \/ i \in 1..Len(s)
    BY <1>1
  <1>3. \A i \in 1..Len(longer) : st[longer[i]] # 0
    BY <1>1, <1>2 DEF Rising
  <1>4. ASSUME NEW i \in 1..Len(longer), NEW j \in 1..Len(longer), i < j
        PROVE  st[longer[i]] < st[longer[j]]
    <2>1. i \in 1..Len(s) /\ longer[i] = s[i]
      BY <1>1, <1>4
    <2>2. CASE j \in 1..Len(s)
      BY <1>1, <1>4, <2>1, <2>2 DEF Rising
    <2>3. CASE j = Len(s) + 1
      BY <1>1, <2>1, <2>3 DEF Below
    <2> QED BY <1>1, <1>4, <2>2, <2>3
  <1>5. Rising(longer, st)
    BY <1>3, <1>4 DEF Rising
  <1> QED BY <1>5 DEF longer

LEMMA RisingPrefix ==
    ASSUME NEW s \in Seq(Events), NEW t \in Seq(Events), NEW st, Rising(s \o t, st)
    PROVE  Rising(s, st)
  <1>1. /\ Len(s \o t) = Len(s) + Len(t) /\ Len(s) \in Nat /\ Len(t) \in Nat
        /\ \A i \in 1..Len(s) : (s \o t)[i] = s[i]
    BY ConcatProperties
  <1> DEFINE u == s \o t
  <1>2. \A i \in 1..Len(s) : i \in 1..Len(u) /\ u[i] = s[i]
    BY <1>1
  <1>3. Rising(u, st)
    OBVIOUS
  <1> HIDE DEF u
  <1> QED BY <1>2, <1>3 DEF Rising

(* A new stamp, higher than all, changes nothing for the events stamped. *)
LEMMA RisingNewStamp ==
    ASSUME NEW s \in Seq(Events), NEW st \in [Events -> Nat], NEW e \in Events, NEW n \in Nat,
           st[e] = 0, Rising(s, st), \A f \in Events : st[f] <= n
    PROVE  /\ Rising(s, [st EXCEPT ![e] = n + 1])
           /\ Below(s, [st EXCEPT ![e] = n + 1], n + 1)
  <1>1. \A i \in 1..Len(s) : s[i] \in Events /\ s[i] # e
    BY ElementOfSeq DEF Rising
  <1>2. \A i \in 1..Len(s) : [st EXCEPT ![e] = n + 1][s[i]] = st[s[i]]
    BY <1>1
  <1>3. \A i \in 1..Len(s) : st[s[i]] \in Nat /\ st[s[i]] <= n
    BY <1>1
  <1> QED BY <1>2, <1>3 DEF Rising, Below

Stamped == {f \in Events : stamp[f] # 0}

StampInv ==
    /\ \A e \in Events : epc[e] \in {"new", "lock", "wait"} => stamp[e] = 0
    /\ \A e \in Events : stamp[e] <= Cardinality(Stamped)
    /\ \A e \in Events : epc[e] = "send" => stamp[e] # 0

QueueInv ==
    /\ \A c \in Clients : Rising(delivered[c], stamp)
    /\ \A c \in Clients : pc[c] \in {"loop", "write"} => Rising(Queue(c), stamp)
    /\ \A e \in Events : epc[e] = "send" =>
          \A c \in remaining[e] : pc[c] \in {"loop", "write"} => Below(Queue(c), stamp, stamp[e])

OrderInv == StampInv /\ QueueInv

LEMMA QueueType == TypeOK => \A c \in Clients : Queue(c) \in Seq(Events)
  BY ConcatProperties DEF TypeOK, Queue

LEMMA InitOrderInv == Init => OrderInv
  <1> SUFFICES ASSUME Init PROVE OrderInv
    OBVIOUS
  <1>1. Stamped = {} /\ Cardinality({}) = 0
    BY FS_EmptySet DEF Init, Stamped
  <1>2. StampInv
    BY <1>1 DEF Init, StampInv
  <1>3. QueueInv
    BY RisingEmpty DEF Init, QueueInv
  <1> QED BY <1>2, <1>3 DEF OrderInv

(* A step that leaves alone what the clients hold and the stamps.           *)
LEMMA OrderFrame ==
    ASSUME OrderInv, UNCHANGED <<stamp, evts, writing, delivered>>,
           \A e \in Events : epc'[e] = epc[e] \/ (epc[e] = "new" /\ epc'[e] = "lock")
              \/ (epc[e] = "lock" /\ epc'[e] = "wait") \/ epc'[e] = "done",
           UNCHANGED remaining,
           \A c \in Clients : pc'[c] = pc[c] \/ pc'[c] \in {"add", "delete", "left", "done"},
           TypeOK
    PROVE  OrderInv'
  <1>1. StampInv'
    BY DEF OrderInv, StampInv, Stamped
  <1>2. QueueInv'
    BY DEF OrderInv, QueueInv, Queue, TypeOK
  <1> QED BY <1>1, <1>2 DEF OrderInv

LEMMA WaitOrderInv ==
    ASSUME TypeOK, LockInv, OrderInv, NEW e \in Events, Wait(e)
    PROVE  OrderInv'
  <1> DEFINE n == Cardinality(Stamped)
  <1>1. /\ IsFiniteSet(Stamped) /\ n \in Nat
    BY FS_Subset, FS_CardinalityType, LocusAssumption DEF Stamped
  <1>2. /\ epc[e] = "wait" /\ stamp[e] = 0 /\ stamp' = [stamp EXCEPT ![e] = n + 1]
        /\ epc' = [epc EXCEPT ![e] = "send"]
        /\ remaining' = [remaining EXCEPT ![e] = subscribers]
        /\ UNCHANGED <<pc, evts, writing, delivered>>
    BY DEF Wait, OrderInv, StampInv, Stamped, eventVars
  <1>3. Stamped' = Stamped \cup {e} /\ e \notin Stamped
    <2>1. stamp'[e] = n + 1 /\ \A f \in Events \ {e} : stamp'[f] = stamp[f]
      BY <1>2 DEF TypeOK
    <2>2. n + 1 # 0
      BY <1>1
    <2> HIDE DEF n
    <2> QED BY <1>2, <2>1, <2>2 DEF Stamped
  <1>4. Cardinality(Stamped)' = n + 1
    BY <1>1, <1>3, FS_AddElement
  <1>5. \A f \in Events : stamp[f] <= n /\ stamp[f] \in Nat
    BY DEF OrderInv, StampInv, TypeOK
  <1>6. StampInv'
    <2>1. \A f \in Events : stamp'[f] <= n + 1
      BY <1>1, <1>2, <1>5 DEF TypeOK
    <2>2. \A f \in Events : f # e => epc'[f] = epc[f] /\ stamp'[f] = stamp[f]
      BY <1>2 DEF TypeOK
    <2>3. stamp'[e] # 0 /\ epc'[e] = "send"
      BY <1>1, <1>2 DEF TypeOK
    <2> QED BY <1>4, <2>1, <2>2, <2>3 DEF StampInv, OrderInv
  <1>7. QueueInv'
    <2>1. \A f \in Events : epc'[f] = "send" => f = e
      BY <1>2 DEF LockInv, TypeOK
    <2>2. \A s \in Seq(Events) : Rising(s, stamp) => Rising(s, stamp') /\ Below(s, stamp', n + 1)
      <3> HIDE DEF n
      <3> SUFFICES ASSUME NEW s \in Seq(Events), Rising(s, stamp)
                   PROVE  Rising(s, stamp') /\ Below(s, stamp', n + 1)
        OBVIOUS
      <3>1. stamp \in [Events -> Nat]
        BY DEF TypeOK
      <3> QED BY <1>1, <1>2, <1>5, <3>1, RisingNewStamp
    <2>3. stamp'[e] = n + 1
      BY <1>2 DEF TypeOK
    <2>4. \A c \in Clients : Queue(c)' = Queue(c) /\ Queue(c) \in Seq(Events)
                               /\ delivered[c] \in Seq(Events)
      BY <1>2, QueueType DEF Queue, TypeOK
    <2>5. subscribers \subseteq Clients /\ remaining'[e] = subscribers
      BY <1>2 DEF TypeOK
    <2> HIDE DEF n
    <2>6. \A c \in Clients : Rising(delivered[c], stamp') /\ delivered'[c] = delivered[c]
      BY <1>2, <2>2, <2>4 DEF QueueInv, OrderInv
    <2>7. \A c \in Clients : pc[c] \in {"loop", "write"} =>
             Rising(Queue(c), stamp') /\ Below(Queue(c), stamp', n + 1)
      BY <2>2, <2>4 DEF QueueInv, OrderInv
    <2>8. \A c \in Clients : pc'[c] = pc[c]
      BY <1>2
    <2> QED BY <2>1, <2>3, <2>4, <2>5, <2>6, <2>7, <2>8 DEF QueueInv
  <1> QED BY <1>6, <1>7 DEF OrderInv

LEMMA OfferOrderInv ==
    ASSUME TypeOK, LockInv, OrderInv, NEW e \in Events, NEW c \in Clients, Offer(e, c)
    PROVE  OrderInv'
  <1>1. /\ UNCHANGED <<pc, writing, delivered, stamp, epc>> /\ epc[e] = "send" /\ c \in remaining[e]
        /\ remaining' = [remaining EXCEPT ![e] = @ \ {c}]
        /\ evts' = evts \/ evts' = [evts EXCEPT ![c] = Append(@, e)]
    BY DEF Offer
  <1>2. StampInv'
    BY <1>1 DEF OrderInv, StampInv, Stamped
  <1>3. \A f \in Events : epc[f] = "send" => f = e
    BY <1>1 DEF LockInv
  <1>4. \A k \in Clients \ {c} : Queue(k)' = Queue(k)
    BY <1>1 DEF Queue, TypeOK
  <1>5. Queue(c)' = Queue(c) \/ Queue(c)' = Append(Queue(c), e)
    <2> DEFINE d == delivered[c]
               w == writing[c]
               q == evts[c]
    <2>1. d \in Seq(Events) /\ w \in Seq(Events) /\ q \in Seq(Events)
      BY DEF TypeOK
    <2>2. Queue(c) = d \o w \o q
      BY DEF Queue
    <2>3. Queue(c)' = d \o w \o q \/ Queue(c)' = d \o w \o Append(q, e)
      BY <1>1 DEF Queue, TypeOK
    <2> HIDE DEF d, w, q
    <2>4. d \o w \o Append(q, e) = Append(d \o w \o q, e)
      BY <2>1, QueueAppend, SMTT(30)
    <2> QED BY <2>2, <2>3, <2>4
  <1>6. pc[c] \in {"loop", "write"} => Rising(Queue(c)', stamp)
    <2> SUFFICES ASSUME pc[c] \in {"loop", "write"} PROVE Rising(Queue(c)', stamp)
      OBVIOUS
    <2>1. Rising(Queue(c), stamp) /\ Below(Queue(c), stamp, stamp[e]) /\ stamp[e] # 0
      BY <1>1 DEF OrderInv, QueueInv, StampInv
    <2>2. Queue(c) \in Seq(Events) /\ stamp \in [Events -> Nat]
      BY QueueType DEF TypeOK
    <2>3. Rising(Append(Queue(c), e), stamp)
      BY <2>1, <2>2, RisingAppend
    <2> QED BY <1>5, <2>1, <2>3
  <1>7. QueueInv'
    <2>1. remaining'[e] = remaining[e] \ {c} /\ remaining[e] \subseteq Clients
      BY <1>1 DEF TypeOK
    <2>2. \A k \in Clients : pc[k] \in {"loop", "write"} => Rising(Queue(k)', stamp)
      BY <1>4, <1>6 DEF OrderInv, QueueInv
    <2>3. \A k \in remaining'[e] : pc[k] \in {"loop", "write"} =>
                                     Below(Queue(k)', stamp, stamp[e])
      BY <1>1, <1>4, <2>1 DEF OrderInv, QueueInv
    <2> QED BY <1>1, <1>3, <2>2, <2>3 DEF OrderInv, QueueInv
  <1> QED BY <1>2, <1>7 DEF OrderInv

(* What the handler of c takes, writes or drops; nothing else moves.        *)
LEMMA HandlerOrderInv ==
    ASSUME TypeOK, OrderInv, NEW c \in Clients,
           UNCHANGED <<stamp, epc, remaining>>,
           \A k \in Clients \ {c} : /\ pc'[k] = pc[k] /\ evts'[k] = evts[k]
                                    /\ writing'[k] = writing[k] /\ delivered'[k] = delivered[k],
           Rising(delivered'[c], stamp),
           pc'[c] \in {"loop", "write"} => Queue(c)' = Queue(c) /\ pc[c] \in {"loop", "write"}
    PROVE  OrderInv'
  <1>1. StampInv'
    BY DEF OrderInv, StampInv, Stamped
  <1>2. \A k \in Clients \ {c} : Queue(k)' = Queue(k)
    BY DEF Queue
  <1>3. \A k \in Clients : pc'[k] \in {"loop", "write"} =>
           Queue(k)' = Queue(k) /\ pc[k] \in {"loop", "write"}
    BY <1>2
  <1>4. \A k \in Clients : Rising(delivered'[k], stamp)
    BY DEF OrderInv, QueueInv
  <1>5. QueueInv'
    <2>1. \A k \in Clients : pc'[k] \in {"loop", "write"} => Rising(Queue(k)', stamp')
      BY <1>3 DEF OrderInv, QueueInv
    <2>2. \A e \in Events : remaining[e] \subseteq Clients
      BY DEF TypeOK
    <2>3. \A e \in Events : epc'[e] = "send" =>
             \A k \in remaining'[e] : pc'[k] \in {"loop", "write"} =>
                 Below(Queue(k)', stamp', stamp'[e])
      BY <1>3, <2>2 DEF OrderInv, QueueInv
    <2> QED BY <1>4, <2>1, <2>3 DEF QueueInv
  <1> QED BY <1>1, <1>5 DEF OrderInv

LEMMA NextOrderInv == TypeOK /\ LockInv /\ GapInv /\ OrderInv /\ [Next]_vars => OrderInv'
  <1> SUFFICES ASSUME TypeOK, LockInv, GapInv, OrderInv, [Next]_vars PROVE OrderInv'
    OBVIOUS
  <1>1. ASSUME NEW e \in Events, publishHandler(e) \/ Lock(e) \/ Unlock(e)
        PROVE  OrderInv'
    <2>1. /\ UNCHANGED <<stamp, evts, writing, delivered, remaining, pc>>
          /\ \A f \in Events : epc'[f] = epc[f] \/ (epc[f] = "new" /\ epc'[f] = "lock")
              \/ (epc[f] = "lock" /\ epc'[f] = "wait") \/ epc'[f] = "done"
      BY <1>1 DEF publishHandler, Lock, Unlock, eventVars, TypeOK
    <2> QED BY <2>1, OrderFrame
  <1>2. ASSUME NEW e \in Events, Wait(e)
        PROVE  OrderInv'
    BY <1>2, WaitOrderInv
  <1>3. ASSUME NEW e \in Events, NEW c \in Clients, Offer(e, c)
        PROVE  OrderInv'
    BY <1>3, OfferOrderInv
  <1>4. ASSUME NEW c \in Clients, Accept(c) \/ ContextDone(c) \/ DeleteSubscriber(c) \/ Return(c)
        PROVE  OrderInv'
    <2>1. /\ UNCHANGED <<stamp, evts, writing, delivered, remaining, epc>>
          /\ \A k \in Clients : pc'[k] = pc[k] \/ pc'[k] \in {"add", "delete", "left", "done"}
      BY <1>4 DEF Accept, ContextDone, DeleteSubscriber, Return, publishVars, eventVars, TypeOK
    <2> QED BY <2>1, OrderFrame
  <1>5. ASSUME NEW c \in Clients, AddSubscriber(c)
        PROVE  OrderInv'
    <2>1. /\ pc[c] = "add" /\ pc' = [pc EXCEPT ![c] = "loop"] /\ subscribersMu = NoOne
          /\ UNCHANGED <<stamp, evts, writing, delivered, remaining, epc>>
      BY <1>5 DEF AddSubscriber, publishVars, eventVars
    <2>2. \A e \in Events : epc[e] # "send"
      BY <2>1, LocusAssumption DEF LockInv
    <2>3. Queue(c) = <<>>
      <3>1. delivered[c] = <<>> /\ evts[c] = <<>> /\ writing[c] = <<>>
        BY <2>1 DEF GapInv
      <3>2. <<>> \o <<>> \o <<>> = <<>>
        BY ConcatEmptySeq, EmptySeq
      <3> QED BY <3>1, <3>2 DEF Queue
    <2>4. StampInv'
      BY <2>1 DEF OrderInv, StampInv, Stamped
    <2>5. \A k \in Clients : Queue(k)' = Queue(k) /\ (k # c => pc'[k] = pc[k])
      BY <2>1 DEF Queue, TypeOK
    <2>6. Rising(Queue(c), stamp)
      BY <2>3, RisingEmpty
    <2>7. QueueInv'
      BY <2>1, <2>2, <2>5, <2>6 DEF OrderInv, QueueInv
    <2> QED BY <2>4, <2>7 DEF OrderInv
  <1>6. ASSUME NEW c \in Clients, Receive(c)
        PROVE  OrderInv'
    <2>1. /\ pc[c] = "loop" /\ writing'[c] = <<Head(evts[c])>> /\ evts'[c] = Tail(evts[c])
          /\ evts[c] # <<>> /\ UNCHANGED <<stamp, epc, remaining, delivered>>
          /\ \A k \in Clients \ {c} : /\ pc'[k] = pc[k] /\ evts'[k] = evts[k]
                                      /\ writing'[k] = writing[k]
      BY <1>6 DEF Receive, TypeOK, publishVars
    <2>2. Queue(c)' = Queue(c)
      <3>1. writing[c] = <<>>
        BY <2>1 DEF GapInv
      <3>2. delivered[c] \in Seq(Events) /\ evts[c] \in Seq(Events)
        BY DEF TypeOK
      <3>3. delivered[c] \o <<Head(evts[c])>> \o Tail(evts[c]) = delivered[c] \o <<>> \o evts[c]
        BY <2>1, <3>2, QueueReceive
      <3> QED BY <2>1, <3>1, <3>3 DEF Queue
    <2>3. Rising(delivered'[c], stamp)
      BY <2>1 DEF OrderInv, QueueInv
    <2> QED BY <2>1, <2>2, <2>3, HandlerOrderInv
  <1>7. ASSUME NEW c \in Clients, Write(c)
        PROVE  OrderInv'
    <2>1. /\ pc[c] = "write" /\ UNCHANGED <<stamp, epc, remaining, evts>> /\ writing'[c] = <<>>
          /\ \A k \in Clients \ {c} : /\ pc'[k] = pc[k] /\ delivered'[k] = delivered[k]
                                      /\ writing'[k] = writing[k]
          /\ \/ pc'[c] = "loop" /\ delivered'[c] = delivered[c] \o writing[c]
             \/ pc'[c] = "delete" /\ delivered'[c] = delivered[c]
      BY <1>7 DEF Write, TypeOK, publishVars
    <2>2. delivered[c] \in Seq(Events) /\ writing[c] \in Seq(Events) /\ evts[c] \in Seq(Events)
      BY DEF TypeOK
    <2>3. CASE pc'[c] = "delete" /\ delivered'[c] = delivered[c]
      BY <2>1, <2>3, HandlerOrderInv DEF OrderInv, QueueInv
    <2>4. CASE pc'[c] = "loop" /\ delivered'[c] = delivered[c] \o writing[c]
      <3>1. Queue(c)' = Queue(c)
        <4>1. (delivered[c] \o writing[c]) \o <<>> \o evts[c] = delivered[c] \o writing[c] \o evts[c]
          BY <2>2, QueueWrite
        <4> QED BY <2>1, <2>4, <4>1 DEF Queue
      <3>2. delivered[c] \o writing[c] \in Seq(Events)
        BY <2>2, ConcatProperties
      <3>3. Rising(delivered[c] \o writing[c] \o evts[c], stamp)
        BY <2>1 DEF OrderInv, QueueInv, Queue
      <3>4. Rising(delivered'[c], stamp)
        BY <2>2, <2>4, <3>2, <3>3, RisingPrefix
      <3> QED BY <2>1, <2>4, <3>1, <3>4, HandlerOrderInv
    <2> QED BY <2>1, <2>3, <2>4
  <1>8. CASE Refill
    BY <1>8, OrderFrame DEF Refill, eventVars
  <1>9. ASSUME NEW c \in Clients, Hangup(c) \/ closeTooSlow(c) \/ CloseRead(c)
        PROVE  OrderInv'
    BY <1>9, OrderFrame DEF Hangup, closeTooSlow, CloseRead, publishVars, eventVars
  <1>10. CASE Interrupt
    BY <1>10, OrderFrame DEF Interrupt, publishVars, eventVars
  <1>11. CASE UNCHANGED vars
    BY <1>11, OrderFrame DEF vars
  <1> QED
    BY <1>1, <1>2, <1>3, <1>4, <1>5, <1>6, <1>7, <1>8, <1>9, <1>10, <1>11
    DEF Next, publish, subscribe

(* Every client receives events in the order in which the limiter let them  *)
(* through and none twice, for any number of concurrent publishes.          *)
THEOREM DeliveredInOrder == Spec => []InOrder
  <1>1. TypeOK /\ OrderInv => InOrder
    <2> SUFFICES ASSUME TypeOK, OrderInv, NEW c \in Clients
                 PROVE  \A i, j \in DOMAIN delivered[c] :
                            i < j => stamp[delivered[c][i]] < stamp[delivered[c][j]]
      BY DEF InOrder
    <2>1. DOMAIN delivered[c] = 1..Len(delivered[c])
      BY LenProperties DEF TypeOK
    <2>2. Rising(delivered[c], stamp)
      BY DEF OrderInv, QueueInv
    <2> QED BY <2>1, <2>2 DEF Rising
  <1> QED
    BY <1>1, InitTypeOK, NextTypeOK, InitLockInv, NextLockInv, InitGapInv, NextGapInv,
       InitOrderInv, NextOrderInv, PTL DEF Spec

-----------------------------------------------------------------------------
(* The stream.  What a served client that is not late holds and has on its  *)
(* way are consecutive events, up to the latest one that was let through,   *)
(* or up to the one before if publish has yet to reach the client.          *)

Published == Cardinality(Stamped)
Owed == {c \in Clients : \E e \in Events : epc[e] = "send" /\ c \in remaining[e]}
Streak(s, st) == \A i \in 1..Len(s) : i + 1 \in 1..Len(s) => st[s[i + 1]] = st[s[i]] + 1
EndsAt(s, st, n) == s # <<>> => st[s[Len(s)]] = n

StreakInv ==
    /\ \A e \in Events : epc[e] = "send" => stamp[e] = Published
    /\ \A c \in Clients : pc[c] \in {"loop", "write", "delete"} => c \in subscribers
    /\ \A c \in Clients : pc[c] = "write" => \E e \in Events : writing[c] = <<e>>
    /\ \A c \in Clients : pc[c] \in {"loop", "write"} /\ c \notin told =>
          /\ Streak(Queue(c), stamp)
          /\ EndsAt(Queue(c), stamp, IF c \in Owed THEN Published - 1 ELSE Published)

LEMMA PublishedType == TypeOK => IsFiniteSet(Stamped) /\ Published \in Nat
  BY FS_Subset, FS_CardinalityType, LocusAssumption DEF Stamped, Published

LEMMA StreakAppend ==
    ASSUME NEW s \in Seq(Events), NEW st \in [Events -> Nat], NEW e \in Events,
           Streak(s, st), EndsAt(s, st, st[e] - 1)
    PROVE  Streak(Append(s, e), st) /\ EndsAt(Append(s, e), st, st[e])
  <1> DEFINE longer == Append(s, e)
  <1>1. /\ Len(longer) = Len(s) + 1 /\ Len(s) \in Nat /\ longer[Len(s) + 1] = e
        /\ \A i \in 1..Len(s) : longer[i] = s[i] /\ s[i] \in Events
        /\ Len(s) # 0 => s # <<>>
    BY ElementOfSeq
  <1> HIDE DEF longer
  <1>2. ASSUME NEW i \in 1..Len(longer), i + 1 \in 1..Len(longer)
        PROVE  st[longer[i + 1]] = st[longer[i]] + 1
    <2>1. i \in 1..Len(s) /\ longer[i] = s[i]
      BY <1>1, <1>2
    <2>2. CASE i + 1 \in 1..Len(s)
      BY <1>1, <2>1, <2>2 DEF Streak
    <2>3. CASE i = Len(s)
      <3>1. st[s[Len(s)]] = st[e] - 1
        BY <1>1, <2>1 DEF EndsAt
      <3>2. st[e] \in Nat /\ longer[i + 1] = e
        BY <1>1, <2>3
      <3> QED BY <2>1, <2>3, <3>1, <3>2
    <2> QED BY <1>1, <1>2, <2>1, <2>2, <2>3
  <1>3. Streak(longer, st)
    BY <1>2 DEF Streak
  <1>4. EndsAt(longer, st, st[e])
    BY <1>1 DEF EndsAt
  <1> QED BY <1>3, <1>4 DEF longer

(* A first stamp for one event changes nothing for those that have theirs.  *)
LEMMA StreakNewStamp ==
    ASSUME NEW s \in Seq(Events), NEW st, NEW nst, NEW n, Rising(s, st),
           \A f \in Events : st[f] # 0 => nst[f] = st[f]
    PROVE  /\ Streak(s, st) => Streak(s, nst)
           /\ EndsAt(s, st, n) => EndsAt(s, nst, n)
  <1>1. \A i \in 1..Len(s) : nst[s[i]] = st[s[i]]
    BY ElementOfSeq DEF Rising
  <1>2. s # <<>> => Len(s) \in 1..Len(s)
    BY LenProperties, EmptySeq
  <1> QED BY <1>1, <1>2 DEF Streak, EndsAt

(* The event that is written comes after the ones that were: next to them   *)
(* if nothing was left out.                                                 *)
LEMMA StreakNext ==
    ASSUME NEW d \in Seq(Events), NEW e \in Events, NEW q \in Seq(Events), NEW st, d # <<>>
    PROVE  /\ Rising(d \o <<e>> \o q, st) => st[d[Len(d)]] < st[e]
           /\ Streak(d \o <<e>> \o q, st) => st[e] = st[d[Len(d)]] + 1
  <1> DEFINE w == <<e>>
  <1>1. w \in Seq(Events) /\ Len(w) = 1 /\ w[1] = e
    OBVIOUS
  <1> HIDE DEF w
  <1> DEFINE dw == d \o w
  <1>2. /\ dw \in Seq(Events) /\ Len(dw) = Len(d) + 1
        /\ dw[Len(d)] = d[Len(d)] /\ dw[Len(d) + 1] = e /\ Len(d) \in Nat \ {0}
    <2>1. Len(d) \in Nat \ {0}
      BY LenProperties, EmptySeq
    <2>2. /\ dw \in Seq(Events) /\ Len(dw) = Len(d) + Len(w)
          /\ \A i \in 1..Len(d) + Len(w) : dw[i] = IF i <= Len(d) THEN d[i] ELSE w[i - Len(d)]
      BY <1>1, ConcatProperties
    <2> HIDE DEF dw
    <2> QED BY <1>1, <2>1, <2>2
  <1> HIDE DEF dw
  <1> DEFINE all == dw \o q
  <1>3. /\ Len(all) = Len(dw) + Len(q) /\ Len(q) \in Nat
        /\ \A i \in 1..Len(dw) : all[i] = dw[i]
    <2>1. /\ Len(all) = Len(dw) + Len(q) /\ Len(q) \in Nat /\ Len(dw) \in Nat
          /\ \A i \in 1..Len(dw) + Len(q) : all[i] = IF i <= Len(dw) THEN dw[i] ELSE q[i - Len(dw)]
      BY <1>2, ConcatProperties, LenProperties
    <2> HIDE DEF all
    <2> QED BY <2>1
  <1> HIDE DEF all
  <1>4. /\ Len(d) \in 1..Len(all) /\ Len(d) + 1 \in 1..Len(all)
        /\ all[Len(d)] = d[Len(d)] /\ all[Len(d) + 1] = e
    BY <1>2, <1>3
  <1>5. Rising(all, st) => st[d[Len(d)]] < st[e]
    BY <1>2, <1>4 DEF Rising
  <1>6. Streak(all, st) => st[e] = st[d[Len(d)]] + 1
    BY <1>2, <1>4 DEF Streak
  <1> QED BY <1>5, <1>6 DEF all, dw, w

LEMMA InitStreakInv == Init => StreakInv
  <1> SUFFICES ASSUME Init PROVE StreakInv
    OBVIOUS
  <1> QED BY DEF Init, StreakInv

(* No event is let through and no client gets further: only whom publish    *)
(* has yet to reach, the handlers' places and the late clients may differ.  *)
LEMMA StreakFrame ==
    ASSUME StreakInv, stamp' = stamp, Owed' = Owed, told \subseteq told',
           \A e \in Events : epc'[e] = "send" => epc[e] = "send",
           \A c \in Clients : pc'[c] \in {"loop", "write", "delete"} => c \in subscribers',
           \A c \in Clients : pc'[c] = "write" => \E e \in Events : writing'[c] = <<e>>,
           \A c \in Clients : pc'[c] \in {"loop", "write"} =>
              pc[c] \in {"loop", "write"} /\ Queue(c)' = Queue(c)
    PROVE  StreakInv'
  <1>1. Published' = Published
    BY DEF Published, Stamped
  <1>2. \A c \in Clients : pc'[c] \in {"loop", "write"} /\ c \notin told' =>
           /\ Streak(Queue(c)', stamp')
           /\ EndsAt(Queue(c)', stamp', IF c \in Owed' THEN Published' - 1 ELSE Published')
    BY <1>1 DEF StreakInv
  <1> QED BY <1>1, <1>2 DEF StreakInv

LEMMA WaitStreakInv ==
    ASSUME TypeOK, LockInv, OrderInv, StreakInv, NEW e \in Events, Wait(e)
    PROVE  StreakInv'
  <1> DEFINE n == Published
  <1>1. /\ IsFiniteSet(Stamped) /\ n \in Nat
    BY PublishedType
  <1>2. /\ epc[e] = "wait" /\ stamp[e] = 0 /\ stamp' = [stamp EXCEPT ![e] = n + 1]
        /\ epc' = [epc EXCEPT ![e] = "send"]
        /\ remaining' = [remaining EXCEPT ![e] = subscribers]
        /\ UNCHANGED <<pc, evts, writing, delivered, subscribers, told>>
    BY DEF Wait, OrderInv, StampInv, Stamped, Published, eventVars, connVars
  <1> HIDE DEF n
  <1>3. stamp'[e] = n + 1 /\ \A f \in Events \ {e} : stamp'[f] = stamp[f]
    BY <1>2 DEF TypeOK
  <1>4. Stamped' = Stamped \cup {e} /\ e \notin Stamped
    BY <1>1, <1>2, <1>3 DEF Stamped
  <1>5. Published' = n + 1
    BY <1>1, <1>4, FS_AddElement DEF Published, n
  <1>6. \A f \in Events : epc[f] # "send" /\ (epc'[f] = "send" <=> f = e)
    BY <1>2, LocusAssumption DEF LockInv, TypeOK
  <1>7. Owed = {} /\ Owed' = subscribers
    BY <1>2, <1>6 DEF Owed, TypeOK
  <1>8. ASSUME NEW c \in Clients, pc'[c] \in {"loop", "write"}, c \notin told'
        PROVE  /\ Streak(Queue(c)', stamp')
               /\ EndsAt(Queue(c)', stamp', IF c \in Owed' THEN Published' - 1 ELSE Published')
    <2>1. /\ Queue(c)' = Queue(c) /\ Queue(c) \in Seq(Events) /\ c \in Owed'
          /\ Rising(Queue(c), stamp)
      BY <1>2, <1>7, <1>8, QueueType DEF Queue, OrderInv, QueueInv, StreakInv
    <2>2. Streak(Queue(c), stamp) /\ EndsAt(Queue(c), stamp, n)
      BY <1>2, <1>7, <1>8 DEF StreakInv, n
    <2>3. \A f \in Events : stamp[f] # 0 => stamp'[f] = stamp[f]
      BY <1>2, <1>3
    <2>4. Streak(Queue(c), stamp') /\ EndsAt(Queue(c), stamp', n)
      BY <2>1, <2>2, <2>3, StreakNewStamp
    <2>5. Published' - 1 = n
      BY <1>1, <1>5
    <2> QED BY <2>1, <2>4, <2>5
  <1>9. \A f \in Events : epc'[f] = "send" => stamp'[f] = Published'
    BY <1>3, <1>5, <1>6
  <1> QED BY <1>2, <1>8, <1>9 DEF StreakInv

LEMMA OfferStreakInv ==
    ASSUME TypeOK, LockInv, OrderInv, StreakInv, NEW e \in Events, NEW c \in Clients, Offer(e, c)
    PROVE  StreakInv'
  <1>1. /\ UNCHANGED <<pc, writing, delivered, stamp, epc, subscribers>>
        /\ epc[e] = "send" /\ c \in remaining[e]
        /\ remaining' = [remaining EXCEPT ![e] = @ \ {c}]
        /\ \/ evts' = [evts EXCEPT ![c] = Append(@, e)] /\ told' = told
           \/ evts' = evts /\ told' = told \cup {c}
    BY DEF Offer
  <1>2. Published' = Published /\ stamp[e] = Published /\ Published \in Nat
    BY <1>1, PublishedType DEF Published, Stamped, StreakInv
  <1>3. \A f \in Events : epc[f] = "send" => f = e
    BY <1>1 DEF LockInv
  <1>4. c \in Owed /\ Owed' = Owed \ {c}
    BY <1>1, <1>3 DEF Owed, TypeOK
  <1>5. \A k \in Clients \ {c} : Queue(k)' = Queue(k) /\ (k \in told' <=> k \in told)
    BY <1>1 DEF Queue, TypeOK
  <1>6. ASSUME pc[c] \in {"loop", "write"}, c \notin told'
        PROVE  Streak(Queue(c)', stamp) /\ EndsAt(Queue(c)', stamp, Published)
    <2> DEFINE d == delivered[c]
               w == writing[c]
               q == evts[c]
    <2>1. d \in Seq(Events) /\ w \in Seq(Events) /\ q \in Seq(Events)
      BY DEF TypeOK
    <2>2. Queue(c) = d \o w \o q
      BY DEF Queue
    <2>3. Queue(c)' = d \o w \o Append(q, e) /\ c \notin told
      BY <1>1, <1>6 DEF Queue, TypeOK
    <2> HIDE DEF d, w, q
    <2>4. d \o w \o Append(q, e) = Append(d \o w \o q, e)
      BY <2>1, QueueAppend, SMTT(30)
    <2>5. Queue(c)' = Append(Queue(c), e)
      BY <2>2, <2>3, <2>4
    <2>6. Streak(Queue(c), stamp) /\ EndsAt(Queue(c), stamp, stamp[e] - 1)
      BY <1>2, <1>4, <1>6, <2>3 DEF StreakInv
    <2>7. Queue(c) \in Seq(Events) /\ stamp \in [Events -> Nat]
      BY QueueType DEF TypeOK
    <2> QED BY <1>2, <2>5, <2>6, <2>7, StreakAppend
  <1>7. ASSUME NEW k \in Clients, pc'[k] \in {"loop", "write"}, k \notin told'
        PROVE  /\ Streak(Queue(k)', stamp')
               /\ EndsAt(Queue(k)', stamp', IF k \in Owed' THEN Published' - 1 ELSE Published')
    <2>1. CASE k = c
      BY <1>1, <1>2, <1>4, <1>6, <1>7, <2>1
    <2>2. CASE k # c
      <3>1. Queue(k)' = Queue(k) /\ k \notin told /\ (k \in Owed' <=> k \in Owed)
        BY <1>4, <1>5, <1>7, <2>2
      <3> QED BY <1>1, <1>2, <1>7, <3>1 DEF StreakInv
    <2> QED BY <2>1, <2>2
  <1> QED BY <1>1, <1>2, <1>7 DEF StreakInv

LEMMA NextStreakInv ==
    TypeOK /\ LockInv /\ GapInv /\ OrderInv /\ StreakInv /\ [Next]_vars => StreakInv'
  <1> SUFFICES ASSUME TypeOK, LockInv, GapInv, OrderInv, StreakInv, [Next]_vars
               PROVE  StreakInv'
    OBVIOUS
  <1>0. /\ \A c \in Clients : pc[c] \in {"loop", "write", "delete"} => c \in subscribers
        /\ \A c \in Clients : pc[c] = "write" => \E e \in Events : writing[c] = <<e>>
    BY DEF StreakInv
  <1>1. ASSUME NEW e \in Events, publishHandler(e) \/ Lock(e) \/ Unlock(e)
        PROVE  StreakInv'
    <2>1. /\ UNCHANGED <<stamp, evts, writing, delivered, remaining, pc, told, subscribers>>
          /\ \A f \in Events : epc'[f] = "send" => epc[f] = "send"
          /\ \A f \in Events : epc[f] = "send" /\ epc'[f] # "send" => remaining[f] = {}
      BY <1>1 DEF publishHandler, Lock, Unlock, connVars, eventVars, TypeOK
    <2>2. Owed' = Owed
      BY <2>1 DEF Owed
    <2>3. \A c \in Clients : Queue(c)' = Queue(c)
      BY <2>1 DEF Queue
    <2> QED BY <1>0, <2>1, <2>2, <2>3, StreakFrame
  <1>2. ASSUME NEW e \in Events, Wait(e)
        PROVE  StreakInv'
    BY <1>2, WaitStreakInv
  <1>3. ASSUME NEW e \in Events, NEW c \in Clients, Offer(e, c)
        PROVE  StreakInv'
    BY <1>3, OfferStreakInv
  <1>4. ASSUME NEW c \in Clients, Accept(c) \/ ContextDone(c) \/ DeleteSubscriber(c) \/ Return(c)
        PROVE  StreakInv'
    <2>1. /\ UNCHANGED <<stamp, evts, writing, delivered, remaining, epc, told>>
          /\ \A k \in Clients \ {c} : /\ pc'[k] = pc[k]
                                      /\ k \in subscribers => k \in subscribers'
          /\ pc'[c] \in {"add", "delete", "left", "done"}
          /\ pc'[c] = "delete" => pc[c] = "loop" /\ subscribers' = subscribers
      BY <1>4 DEF Accept, ContextDone, DeleteSubscriber, Return, publishVars, connVars,
                  eventVars, TypeOK
    <2>2. Owed' = Owed
      BY <2>1 DEF Owed
    <2>3. \A k \in Clients : Queue(k)' = Queue(k)
      BY <2>1 DEF Queue
    <2> QED BY <1>0, <2>1, <2>2, <2>3, StreakFrame
  <1>5. ASSUME NEW c \in Clients, AddSubscriber(c)
        PROVE  StreakInv'
    <2>1. /\ pc[c] = "add" /\ pc' = [pc EXCEPT ![c] = "loop"]
          /\ subscribers' = subscribers \cup {c}
          /\ UNCHANGED <<stamp, evts, writing, delivered, remaining, epc, told>>
      BY <1>5 DEF AddSubscriber, publishVars, connVars, eventVars
    <2>2. Queue(c)' = <<>>
      <3>1. delivered[c] = <<>> /\ evts[c] = <<>> /\ writing[c] = <<>>
        BY <2>1 DEF GapInv
      <3>2. <<>> \o <<>> \o <<>> = <<>>
        BY ConcatEmptySeq, EmptySeq
      <3> QED BY <2>1, <3>1, <3>2 DEF Queue
    <2>3. \A st, n : Streak(<<>>, st) /\ EndsAt(<<>>, st, n)
      BY DEF Streak, EndsAt
    <2>4. Owed' = Owed /\ Published' = Published
      BY <2>1 DEF Owed, Published, Stamped
    <2>5. \A k \in Clients : k # c => Queue(k)' = Queue(k) /\ pc'[k] = pc[k]
      BY <2>1 DEF Queue, TypeOK
    <2>6. ASSUME NEW k \in Clients, pc'[k] \in {"loop", "write"}, k \notin told'
          PROVE  /\ Streak(Queue(k)', stamp')
                 /\ EndsAt(Queue(k)', stamp', IF k \in Owed' THEN Published' - 1 ELSE Published')
      <3>1. CASE k = c
        BY <2>2, <2>3, <3>1
      <3>2. CASE k # c
        BY <2>1, <2>4, <2>5, <2>6, <3>2 DEF StreakInv
      <3> QED BY <3>1, <3>2
    <2>7. /\ \A k \in Clients : pc'[k] \in {"loop", "write", "delete"} => k \in subscribers'
          /\ \A k \in Clients : pc'[k] = "write" => \E e \in Events : writing'[k] = <<e>>
          /\ \A e \in Events : epc'[e] = "send" => stamp'[e] = Published'
      BY <2>1, <2>4 DEF StreakInv, TypeOK
    <2> QED BY <2>6, <2>7 DEF StreakInv
  <1>6. ASSUME NEW c \in Clients, Receive(c)
        PROVE  StreakInv'
    <2>1. /\ pc[c] = "loop" /\ writing'[c] = <<Head(evts[c])>> /\ evts'[c] = Tail(evts[c])
          /\ evts[c] # <<>>
          /\ UNCHANGED <<stamp, epc, remaining, delivered, told, subscribers>>
          /\ pc'[c] = "write"
          /\ \A k \in Clients \ {c} : /\ pc'[k] = pc[k] /\ evts'[k] = evts[k]
                                      /\ writing'[k] = writing[k]
      BY <1>6 DEF Receive, TypeOK, publishVars, connVars
    <2>2. delivered[c] \in Seq(Events) /\ evts[c] \in Seq(Events) /\ Head(evts[c]) \in Events
      BY <2>1, HeadTailProperties DEF TypeOK
    <2>3. Queue(c)' = Queue(c)
      <3>1. writing[c] = <<>>
        BY <2>1 DEF GapInv
      <3>2. delivered[c] \o <<Head(evts[c])>> \o Tail(evts[c]) = delivered[c] \o <<>> \o evts[c]
        BY <2>1, <2>2, QueueReceive
      <3> QED BY <2>1, <3>1, <3>2 DEF Queue
    <2>4. \A k \in Clients \ {c} : Queue(k)' = Queue(k)
      BY <2>1 DEF Queue
    <2>5. Owed' = Owed
      BY <2>1 DEF Owed
    <2>6. \A k \in Clients : /\ pc'[k] \in {"loop", "write"} =>
                                  pc[k] \in {"loop", "write"} /\ Queue(k)' = Queue(k)
                             /\ pc'[k] = "write" => \E e \in Events : writing'[k] = <<e>>
                             /\ pc'[k] \in {"loop", "write", "delete"} => k \in subscribers'
      BY <1>0, <2>1, <2>2, <2>3, <2>4
    <2> QED BY <2>1, <2>5, <2>6, StreakFrame
  <1>7. ASSUME NEW c \in Clients, Write(c)
        PROVE  StreakInv'
    <2>1. /\ pc[c] = "write" /\ UNCHANGED <<stamp, epc, remaining, evts, told, subscribers>>
          /\ writing'[c] = <<>> /\ pc'[c] \in {"loop", "delete"}
          /\ \A k \in Clients \ {c} : /\ pc'[k] = pc[k] /\ delivered'[k] = delivered[k]
                                      /\ writing'[k] = writing[k]
          /\ pc'[c] = "loop" => delivered'[c] = delivered[c] \o writing[c]
      BY <1>7 DEF Write, TypeOK, publishVars
    <2>2. pc'[c] = "loop" => Queue(c)' = Queue(c)
      <3>1. delivered[c] \in Seq(Events) /\ writing[c] \in Seq(Events) /\ evts[c] \in Seq(Events)
        BY DEF TypeOK
      <3>2. (delivered[c] \o writing[c]) \o <<>> \o evts[c] = delivered[c] \o writing[c] \o evts[c]
        BY <3>1, QueueWrite
      <3> QED BY <2>1, <3>2 DEF Queue
    <2>3. \A k \in Clients \ {c} : Queue(k)' = Queue(k)
      BY <2>1 DEF Queue
    <2>4. Owed' = Owed
      BY <2>1 DEF Owed
    <2>5. \A k \in Clients : /\ pc'[k] \in {"loop", "write"} =>
                                  pc[k] \in {"loop", "write"} /\ Queue(k)' = Queue(k)
                             /\ pc'[k] = "write" => \E e \in Events : writing'[k] = <<e>>
                             /\ pc'[k] \in {"loop", "write", "delete"} => k \in subscribers'
      BY <1>0, <2>1, <2>2, <2>3
    <2> QED BY <2>1, <2>4, <2>5, StreakFrame
  <1>8. ASSUME UNCHANGED <<stamp, epc, remaining, subscribers, pc, told>>,
               UNCHANGED <<evts, writing, delivered>>
        PROVE  StreakInv'
    <2>1. Owed' = Owed /\ \A c \in Clients : Queue(c)' = Queue(c)
      BY <1>8 DEF Owed, Queue
    <2> QED BY <1>0, <1>8, <2>1, StreakFrame
  <1>9. CASE Refill
    BY <1>8, <1>9 DEF Refill, connVars, eventVars
  <1>10. ASSUME NEW c \in Clients, Hangup(c) \/ closeTooSlow(c) \/ CloseRead(c)
         PROVE  StreakInv'
    BY <1>8, <1>10 DEF Hangup, closeTooSlow, CloseRead, publishVars, eventVars
  <1>11. CASE Interrupt
    BY <1>8, <1>11 DEF Interrupt, publishVars, eventVars
  <1>12. CASE UNCHANGED vars
    BY <1>8, <1>12 DEF vars
  <1> QED
    BY <1>1, <1>2, <1>3, <1>4, <1>5, <1>6, <1>7, <1>9, <1>10, <1>11, <1>12
    DEF Next, publish, subscribe

(* A new stamp does not move the clients: what was delivered had its own.   *)
LEMMA PositionKept ==
    ASSUME TypeOK, OrderInv, delivered' = delivered,
           \A f \in Events : stamp[f] # 0 => stamp'[f] = stamp[f]
    PROVE  [c \in Clients |-> Position(c)]' = [c \in Clients |-> Position(c)]
  <1> SUFFICES ASSUME NEW c \in Clients PROVE Position(c)' = Position(c)
    BY Zenon
  <1>1. CASE delivered[c] = <<>>
    BY <1>1 DEF Position
  <1>2. CASE delivered[c] # <<>>
    <2>1. Len(delivered[c]) \in 1..Len(delivered[c]) /\ delivered[c] \in Seq(Events)
      BY <1>2, LenProperties, EmptySeq DEF TypeOK
    <2>2. /\ delivered[c][Len(delivered[c])] \in Events
          /\ stamp[delivered[c][Len(delivered[c])]] # 0
      BY <2>1, ElementOfSeq DEF OrderInv, QueueInv, Rising
    <2> QED BY <1>2, <2>2 DEF Position
  <1> QED BY <1>1, <1>2

LEMMA StreamStutter ==
    ASSUME TypeOK, OrderInv, UNCHANGED <<stamp, delivered, told>>
    PROVE  UNCHANGED Stream!vars
  <1>1. [c \in Clients |-> Position(c)]' = [c \in Clients |-> Position(c)]
    BY PositionKept
  <1>2. Published' = Published
    BY DEF Published, Stamped
  <1> QED BY <1>1, <1>2 DEF Stream!vars, Published, Stamped

LEMMA WaitPublishes ==
    ASSUME TypeOK, OrderInv, NEW e \in Events, Wait(e)
    PROVE  Stream!Publish
  <1>1. IsFiniteSet(Stamped) /\ Published \in Nat
    BY PublishedType
  <1>2. /\ stamp[e] = 0 /\ stamp' = [stamp EXCEPT ![e] = Published + 1]
        /\ delivered' = delivered /\ told' = told
    BY DEF Wait, OrderInv, StampInv, Stamped, Published, eventVars, connVars
  <1>3. stamp'[e] # 0 /\ \A f \in Events \ {e} : stamp'[f] = stamp[f]
    BY <1>1, <1>2 DEF TypeOK
  <1>4. Stamped' = Stamped \cup {e} /\ e \notin Stamped
    BY <1>2, <1>3 DEF Stamped
  <1>5. Published' = Published + 1
    BY <1>1, <1>4, FS_AddElement DEF Published
  <1>6. [c \in Clients |-> Position(c)]' = [c \in Clients |-> Position(c)]
    BY <1>2, <1>3, PositionKept
  <1> QED BY <1>2, <1>5, <1>6 DEF Stream!Publish, Published, Stamped

LEMMA OfferStreams ==
    ASSUME TypeOK, OrderInv, NEW e \in Events, NEW c \in Clients, Offer(e, c)
    PROVE  Stream!Next \/ UNCHANGED Stream!vars
  <1>1. UNCHANGED <<stamp, delivered>> /\ (told' = told \/ told' = told \cup {c})
    BY DEF Offer
  <1>2. CASE told' = told
    BY <1>1, <1>2, StreamStutter
  <1>3. CASE told' = told \cup {c}
    <2>1. [k \in Clients |-> Position(k)]' = [k \in Clients |-> Position(k)]
      BY <1>1, PositionKept
    <2>2. Published' = Published
      BY <1>1 DEF Published, Stamped
    <2>3. Stream!FallBehind(c)
      BY <1>3, <2>1, <2>2 DEF Stream!FallBehind, Published, Stamped
    <2> QED BY <2>3 DEF Stream!Next
  <1> QED BY <1>1, <1>2, <1>3

LEMMA WriteDelivers ==
    ASSUME TypeOK, OrderInv, StreakInv, NEW c \in Clients, Write(c)
    PROVE  Stream!Next \/ UNCHANGED Stream!vars
  <1>1. /\ pc[c] = "write" /\ UNCHANGED <<stamp, told>>
        /\ \/ delivered' = [delivered EXCEPT ![c] = @ \o writing[c]]
           \/ delivered' = delivered
    BY DEF Write, publishVars
  <1>2. CASE delivered' = delivered
    BY <1>1, <1>2, StreamStutter
  <1>3. CASE delivered' = [delivered EXCEPT ![c] = @ \o writing[c]]
    <2>1. PICK e \in Events : writing[c] = <<e>>
      BY <1>1 DEF StreakInv
    <2> DEFINE d == delivered[c]
               q == evts[c]
    <2>2. d \in Seq(Events) /\ q \in Seq(Events) /\ <<e>> \in Seq(Events)
      BY DEF TypeOK
    <2>3. /\ delivered'[c] = d \o <<e>>
          /\ \A k \in Clients \ {c} : delivered'[k] = delivered[k]
      BY <1>3, <2>1 DEF TypeOK
    <2>4. Queue(c) = d \o <<e>> \o q
      BY <2>1 DEF Queue
    <2>5. Rising(d \o <<e>> \o q, stamp)
      BY <1>1, <2>4 DEF OrderInv, QueueInv
    <2>6. c \notin told => Streak(d \o <<e>> \o q, stamp)
      BY <1>1, <2>4 DEF StreakInv
    <2> HIDE DEF d, q
    <2>7. d \o <<e>> # <<>> /\ (d \o <<e>>)[Len(d \o <<e>>)] = e
      BY <2>2
    <2>8. stamp[e] \in 1..Published
      <3>1. Rising(d \o <<e>>, stamp) /\ d \o <<e>> \in Seq(Events)
        BY <2>2, <2>5, ConcatProperties, RisingPrefix
      <3>2. Len(d \o <<e>>) \in 1..Len(d \o <<e>>)
        BY <2>7, <3>1, LenProperties, EmptySeq
      <3>3. stamp[e] # 0
        BY <2>7, <3>1, <3>2 DEF Rising
      <3>4. stamp[e] \in Nat /\ stamp[e] <= Published /\ Published \in Nat
        BY PublishedType DEF TypeOK, OrderInv, StampInv, Published
      <3> QED BY <3>3, <3>4
    <2>9. /\ Position(c)' = stamp[e]
          /\ \A k \in Clients \ {c} : Position(k)' = Position(k)
      BY <1>1, <2>3, <2>7 DEF Position
    <2>10. Position(c) = 0 \/ stamp[e] = Position(c) + 1
             \/ (c \in told /\ stamp[e] > Position(c))
      <3>1. CASE d = <<>>
        BY <3>1 DEF Position, d
      <3>2. CASE d # <<>>
        <4>1. Position(c) = stamp[d[Len(d)]]
          BY <3>2 DEF Position, d
        <4>2. Len(d) \in 1..Len(d)
          BY <2>2, <3>2, LenProperties, EmptySeq
        <4>3. Position(c) \in Nat /\ stamp[e] \in Nat
          BY <2>2, <4>1, <4>2, ElementOfSeq DEF TypeOK
        <4>4. stamp[d[Len(d)]] < stamp[e]
          BY <2>2, <2>5, <3>2, StreakNext
        <4>5. c \notin told => stamp[e] = stamp[d[Len(d)]] + 1
          BY <2>2, <2>6, <3>2, StreakNext
        <4> QED BY <4>1, <4>3, <4>4, <4>5
      <3> QED BY <3>1, <3>2
    <2> DEFINE position == [k \in Clients |-> Position(k)]
    <2>11. position' = [position EXCEPT ![c] = stamp[e]]
      BY <2>9, Zenon
    <2>12. Published' = Published
      BY <1>1 DEF Published, Stamped
    <2>13. position[c] = Position(c)
      OBVIOUS
    <2>14. Stream!Deliver(c)
      BY <1>1, <2>8, <2>10, <2>11, <2>12, <2>13 DEF Stream!Deliver, Published, Stamped
    <2> QED BY <2>14 DEF Stream!Next
  <1> QED BY <1>1, <1>2, <1>3

(* The mutex, the bounded channels, the limiter and the connections, for    *)
(* any number of publishes and clients, implement one stream that every     *)
(* client follows without a gap until it is told that it is too slow.       *)
THEOREM OneStreamForAll == Spec => StreamedInTurn
  <1>1. Init => Stream!Init
    <2> SUFFICES ASSUME Init PROVE Stream!Init
      OBVIOUS
    <2>1. Stamped = {} /\ Cardinality({}) = 0
      BY FS_EmptySet DEF Init, Stamped
    <2>2. \A c \in Clients : Position(c) = 0
      BY DEF Init, Position
    <2> QED BY <2>1, <2>2 DEF Init, Stream!Init, Stamped
  <1>2. TypeOK /\ LockInv /\ GapInv /\ OrderInv /\ StreakInv /\ [Next]_vars
          => [Stream!Next]_(Stream!vars)
    <2> SUFFICES ASSUME TypeOK, LockInv, GapInv, OrderInv, StreakInv, [Next]_vars
                 PROVE  Stream!Next \/ UNCHANGED Stream!vars
      OBVIOUS
    <2>1. ASSUME NEW e \in Events, publishHandler(e) \/ Lock(e) \/ Unlock(e)
          PROVE  UNCHANGED Stream!vars
      BY <2>1, StreamStutter DEF publishHandler, Lock, Unlock, connVars, eventVars
    <2>2. ASSUME NEW e \in Events, Wait(e)
          PROVE  Stream!Next
      BY <2>2, WaitPublishes DEF Stream!Next
    <2>3. ASSUME NEW e \in Events, NEW c \in Clients, Offer(e, c)
          PROVE  Stream!Next \/ UNCHANGED Stream!vars
      BY <2>3, OfferStreams
    <2>4. ASSUME NEW c \in Clients, Write(c)
          PROVE  Stream!Next \/ UNCHANGED Stream!vars
      BY <2>4, WriteDelivers
    <2>5. ASSUME NEW c \in Clients,
                 Accept(c) \/ AddSubscriber(c) \/ Receive(c) \/ ContextDone(c)
                   \/ DeleteSubscriber(c) \/ Return(c)
          PROVE  UNCHANGED Stream!vars
      BY <2>5, StreamStutter DEF Accept, AddSubscriber, Receive, ContextDone, DeleteSubscriber,
         Return, publishVars, connVars, eventVars
    <2>6. CASE Refill
      BY <2>6, StreamStutter DEF Refill, connVars, eventVars
    <2>7. ASSUME NEW c \in Clients, Hangup(c) \/ closeTooSlow(c) \/ CloseRead(c)
          PROVE  UNCHANGED Stream!vars
      BY <2>7, StreamStutter DEF Hangup, closeTooSlow, CloseRead, publishVars, eventVars
    <2>8. CASE Interrupt
      BY <2>8, StreamStutter DEF Interrupt, publishVars, eventVars
    <2>9. CASE UNCHANGED vars
      BY <2>9, StreamStutter DEF vars
    <2> QED
      BY <2>1, <2>2, <2>3, <2>4, <2>5, <2>6, <2>7, <2>8, <2>9 DEF Next, publish, subscribe
  <1> QED
    BY <1>1, <1>2, InitTypeOK, NextTypeOK, InitLockInv, NextLockInv, InitGapInv, NextGapInv,
       InitOrderInv, NextOrderInv, InitStreakInv, NextStreakInv, PTL
    DEF Spec, StreamedInTurn, Stream!Spec
=============================================================================
