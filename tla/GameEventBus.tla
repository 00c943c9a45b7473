---------------------------- MODULE GameEventBus ----------------------------
(***************************************************************************)
(* The event bus of one game (structures/lobby/eventBus.go).  Events sent  *)
(* to EventChan are forwarded by the goroutine marshalAndForward, which    *)
(* skips whoever is not receiving; DispatchMessage, called by the reader   *)
(* of a websocket, waits for each recipient instead.  Every channel is     *)
(* unbuffered, so a send is a rendezvous; a send on a closed channel       *)
(* panics and ends the program.  Shutdown closes the channels first and    *)
(* cancels the context last.  The context is derived from the caller's,    *)
(* which the other buses share: it can be done with this bus still open.   *)
(*                                                                         *)
(* External: who sends to EventChan, the participants' goroutines at the   *)
(* other end of AllSubscriberChannels, and who ends the caller's context.  *)
(***************************************************************************)
EXTENDS Naturals, Sequences, SequencesExt

CONSTANTS
    Publishers,   \* goroutines that each send one event to EventChan
    Dispatchers,  \* goroutines that each call DispatchMessage once
    TopicName,    \* TopicName[g]: the topic of g's event or message
    Receivers,    \* participants that have a goroutine to receive
    Nothing       \* no event in the forwarder's hands

folksAttendingGame == {"playerA", "playerB", "referee", "timer", "lobby", "memory"}

(* CreateTopics with DefineTopicSubscriptions; "TestTopic" is given the     *)
(* empty slice (the switch has a case for "TestingTopic").                  *)
SubscribersForEachTopic ==
    [TestTopic      |-> <<>>,
     TimerTopic     |-> <<"playerA", "playerB", "referee">>,
     GameLogicTopic |-> <<"playerA", "playerB", "referee", "memory">>,
     MetagameTopic  |-> <<"playerA", "playerB", "timer">>,
     ResultsTopic   |-> <<"memory", "lobby">>]

Topics == DOMAIN SubscribersForEachTopic
Recipients(g) == IF TopicName[g] \in Topics THEN SubscribersForEachTopic[TopicName[g]] ELSE <<>>

ASSUME BusAssumption ==
    /\ Publishers \cap Dispatchers = {}
    /\ TopicName \in [Publishers \cup Dispatchers -> STRING]
    /\ \A p \in Publishers : TopicName[p] \in Topics
    /\ Receivers \subseteq folksAttendingGame
    /\ Nothing \notin Publishers

VARIABLES
    ppc,          \* publishers: "new", "sending", "sent"
    fpc,          \* the forwarder: "select", "lookup", "send", "stopped"
    inHand,       \* the event it forwards
    fto,          \* the channels it has yet to try
    dpc,          \* dispatchers: "new", "lookup", "send", "returned"
    dto,          \* dto[d]: the channels d has yet to send to
    rpc,          \* participants: "busy", "receiving"
    received,     \* history: received[x]: the messages x was given by DispatchMessage
    spc,          \* Shutdown: "running", "lock", "closing", "closed", "done"
    closed,       \* participants' channels that are closed
    cancelled,    \* the context of the bus is done
    crashed       \* a goroutine panicked

vars == <<ppc, fpc, inHand, fto, dpc, dto, rpc, received, spc, closed, cancelled, crashed>>
forwarderVars == <<fpc, inHand, fto>>
dispatcherVars == <<dpc, dto>>
participantVars == <<rpc, received>>
shutdownVars == <<spc, closed, cancelled>>

EventChanClosed == spc \in {"closed", "done"}
Unlocked == spc # "closing"          \* Rwm can be taken for reading

Init ==
    /\ ppc = [p \in Publishers |-> "new"]
    /\ fpc = "select" /\ inHand = Nothing /\ fto = <<>>
    /\ dpc = [d \in Dispatchers |-> "new"]
    /\ dto = [d \in Dispatchers |-> <<>>]
    /\ rpc = [x \in folksAttendingGame |-> "busy"]
    /\ received = [x \in folksAttendingGame |-> {}]
    /\ spc = "running" /\ closed = {} /\ cancelled = FALSE
    /\ crashed = FALSE

-----------------------------------------------------------------------------
(* EventChan and the forwarder *)

Publish(p) ==
    /\ ppc[p] = "new"
    /\ ppc' = [ppc EXCEPT ![p] = "sending"]
    /\ UNCHANGED <<forwarderVars, dispatcherVars, participantVars, shutdownVars, crashed>>

PublishPanics(p) ==
    /\ ppc[p] = "sending"
    /\ EventChanClosed
    /\ crashed' = TRUE
    /\ UNCHANGED <<ppc, forwarderVars, dispatcherVars, participantVars, shutdownVars>>

(* The rendezvous on EventChan; an event that does not marshal is skipped.  *)
Take(p) ==
    /\ fpc = "select"
    /\ ppc[p] = "sending"
    /\ ~EventChanClosed
    /\ ppc' = [ppc EXCEPT ![p] = "sent"]
    /\ \/ fpc' = "lookup" /\ inHand' = p
       \/ UNCHANGED <<fpc, inHand>>
    /\ UNCHANGED <<fto, dispatcherVars, participantVars, shutdownVars, crashed>>

ForwardLookup ==
    /\ fpc = "lookup"
    /\ Unlocked
    /\ fpc' = "send"
    /\ fto' = Recipients(inHand)
    /\ UNCHANGED <<ppc, inHand, dispatcherVars, participantVars, shutdownVars, crashed>>

(* Mutants: no default in the select; a slow subscriber's channel closed.   *)
ForwardTo_Blocking ==
    /\ fpc = "send" /\ fto # <<>>
    /\ fto' = Tail(fto)
    /\ IF Head(fto) \in closed
       THEN crashed' = TRUE /\ UNCHANGED participantVars
       ELSE /\ rpc[Head(fto)] = "receiving"
            /\ rpc' = [rpc EXCEPT ![Head(fto)] = "busy"]
            /\ UNCHANGED <<received, crashed>>
    /\ UNCHANGED <<ppc, fpc, inHand, dispatcherVars, shutdownVars>>
ForwardTo_CloseSlow ==
    /\ fpc = "send" /\ fto # <<>>
    /\ fto' = Tail(fto)
    /\ crashed' = (Head(fto) \in closed)
    /\ IF rpc[Head(fto)] = "receiving" /\ Head(fto) \notin closed
       THEN rpc' = [rpc EXCEPT ![Head(fto)] = "busy"] /\ UNCHANGED closed
       ELSE closed' = closed \cup {Head(fto)} /\ UNCHANGED rpc
    /\ UNCHANGED <<ppc, fpc, inHand, dispatcherVars, received, spc, cancelled>>

(* One channel: its owner is receiving, or is skipped.                      *)
ForwardTo ==
    /\ fpc = "send" /\ fto # <<>>
    /\ fto' = Tail(fto)
    /\ crashed' = (Head(fto) \in closed)
    /\ IF rpc[Head(fto)] = "receiving" /\ Head(fto) \notin closed
       THEN rpc' = [rpc EXCEPT ![Head(fto)] = "busy"]
       ELSE UNCHANGED rpc
    /\ UNCHANGED <<ppc, fpc, inHand, dispatcherVars, received, shutdownVars>>

Forwarded ==
    /\ fpc = "send" /\ fto = <<>>
    /\ fpc' = "select"
    /\ inHand' = Nothing
    /\ UNCHANGED <<ppc, fto, dispatcherVars, participantVars, shutdownVars, crashed>>

ForwarderStops ==
    /\ fpc = "select"
    /\ EventChanClosed \/ cancelled
    /\ fpc' = "stopped"
    /\ UNCHANGED <<ppc, inHand, fto, dispatcherVars, participantVars, shutdownVars, crashed>>

marshalAndForward ==
    (\E p \in Publishers : Take(p)) \/ ForwardLookup \/ ForwardTo \/ Forwarded \/ ForwarderStops

-----------------------------------------------------------------------------
(* DispatchMessage *)

(* A message that does not parse goes on with the empty topic.              *)
Dispatch(d) ==
    /\ dpc[d] = "new"
    /\ dpc' = [dpc EXCEPT ![d] = "lookup"]
    /\ UNCHANGED <<ppc, forwarderVars, dto, participantVars, shutdownVars, crashed>>

getChannelsForTopic(d) ==
    /\ dpc[d] = "lookup"
    /\ Unlocked
    /\ dto' = [dto EXCEPT ![d] = Recipients(d)]
    /\ dpc' = [dpc EXCEPT ![d] = IF TopicName[d] \in Topics THEN "send" ELSE "returned"]
    /\ UNCHANGED <<ppc, forwarderVars, participantVars, shutdownVars, crashed>>

Gets(x, d) ==
    /\ received' = [received EXCEPT ![x] = @ \cup {d}]
    /\ rpc' = [rpc EXCEPT ![x] = "busy"]

(* A mutant: the recipient skipped when it is not receiving.                *)
SendTo_Skip(d) ==
    /\ dpc[d] = "send" /\ dto[d] # <<>>
    /\ crashed' = (Head(dto[d]) \in closed)
    /\ dto' = [dto EXCEPT ![d] = Tail(@)]
    /\ IF rpc[Head(dto[d])] = "receiving" /\ Head(dto[d]) \notin closed
       THEN Gets(Head(dto[d]), d)
       ELSE UNCHANGED participantVars
    /\ UNCHANGED <<ppc, forwarderVars, dpc, shutdownVars>>

(* ch <- msg waits until the recipient receives; closing the channel makes  *)
(* it panic.                                                                *)
SendTo(d) ==
    /\ dpc[d] = "send" /\ dto[d] # <<>>
    /\ IF Head(dto[d]) \in closed
       THEN crashed' = TRUE /\ UNCHANGED <<dto, participantVars>>
       ELSE /\ rpc[Head(dto[d])] = "receiving"
            /\ Gets(Head(dto[d]), d)
            /\ dto' = [dto EXCEPT ![d] = Tail(@)]
            /\ UNCHANGED crashed
    /\ UNCHANGED <<ppc, forwarderVars, dpc, shutdownVars>>

Dispatched(d) ==
    /\ dpc[d] = "send" /\ dto[d] = <<>>
    /\ dpc' = [dpc EXCEPT ![d] = "returned"]
    /\ UNCHANGED <<ppc, forwarderVars, dto, participantVars, shutdownVars, crashed>>

DispatchMessage(d) == getChannelsForTopic(d) \/ SendTo(d) \/ Dispatched(d)

-----------------------------------------------------------------------------
(* The participants, and Shutdown *)

(* A participant waits for the next message, or turns to something else,    *)
(* for good if it is gone.                                                  *)
Ready(x) ==
    /\ rpc[x] = "busy"
    /\ rpc' = [rpc EXCEPT ![x] = "receiving"]
    /\ UNCHANGED <<ppc, forwarderVars, dispatcherVars, received, shutdownVars, crashed>>

TurnsAway(x) ==
    /\ rpc[x] = "receiving"
    /\ rpc' = [rpc EXCEPT ![x] = "busy"]
    /\ UNCHANGED <<ppc, forwarderVars, dispatcherVars, received, shutdownVars, crashed>>

ShutdownCalled ==
    /\ spc = "running"
    /\ spc' = "lock"
    /\ UNCHANGED <<ppc, forwarderVars, dispatcherVars, participantVars, closed, cancelled, crashed>>

(* No reader keeps Rwm for longer than a lookup. *)
ShutdownLock ==
    /\ spc = "lock"
    /\ spc' = "closing"
    /\ UNCHANGED <<ppc, forwarderVars, dispatcherVars, participantVars, closed, cancelled, crashed>>

(* A mutant: a last word is sent on the channel before it is closed.        *)
CloseChannel_LastWord(x) ==
    /\ spc = "closing"
    /\ x \notin closed
    /\ rpc[x] = "receiving"
    /\ closed' = closed \cup {x}
    /\ UNCHANGED <<ppc, forwarderVars, dispatcherVars, participantVars, spc, cancelled, crashed>>

CloseChannel(x) ==
    /\ spc = "closing"
    /\ x \notin closed
    /\ closed' = closed \cup {x}
    /\ UNCHANGED <<ppc, forwarderVars, dispatcherVars, participantVars, spc, cancelled, crashed>>

(* The caller's context ends and this bus's with it: the caller cancels it, *)
(* or another bus that shares it is shut down.                              *)
ContextCancelled ==
    /\ ~cancelled
    /\ cancelled' = TRUE
    /\ UNCHANGED <<ppc, forwarderVars, dispatcherVars, participantVars, spc, closed, crashed>>

(* close(geb.EventChan), and the deferred Unlock ...                        *)
CloseEventChan ==
    /\ spc = "closing"
    /\ closed = folksAttendingGame
    /\ spc' = "closed"
    /\ UNCHANGED <<ppc, forwarderVars, dispatcherVars, participantVars, closed, cancelled, crashed>>

(* ... before the deferred CancelFn and cancel.                             *)
Cancel ==
    /\ spc = "closed"
    /\ cancelled' = TRUE
    /\ spc' = "done"
    /\ UNCHANGED <<ppc, forwarderVars, dispatcherVars, participantVars, closed, crashed>>

Shutdown ==
    ShutdownLock \/ (\E x \in folksAttendingGame : CloseChannel(x)) \/ CloseEventChan \/ Cancel

Next ==
    /\ ~crashed
    /\ \/ \E p \in Publishers : Publish(p) \/ PublishPanics(p)
       \/ marshalAndForward
       \/ \E d \in Dispatchers : Dispatch(d) \/ DispatchMessage(d)
       \/ \E x \in Receivers : Ready(x) \/ TurnsAway(x)
       \/ ShutdownCalled \/ Shutdown \/ ContextCancelled

Spec == Init /\ [][Next]_vars

(* The bus's own goroutines run; no participant need ever receive.          *)
FairSpec ==
    /\ Spec
    /\ WF_vars(~crashed /\ marshalAndForward)
    /\ \A d \in Dispatchers : WF_vars(~crashed /\ DispatchMessage(d))
    /\ WF_vars(~crashed /\ Shutdown)

-----------------------------------------------------------------------------
(* Properties *)

TypeOK ==
    /\ ppc \in [Publishers -> {"new", "sending", "sent"}]
    /\ fpc \in {"select", "lookup", "send", "stopped"}
    /\ inHand \in Publishers \cup {Nothing}
    /\ fpc \in {"lookup", "send"} => inHand # Nothing
    /\ fto \in Seq(folksAttendingGame)
    /\ dpc \in [Dispatchers -> {"new", "lookup", "send", "returned"}]
    /\ dto \in [Dispatchers -> Seq(folksAttendingGame)]
    /\ rpc \in [folksAttendingGame -> {"busy", "receiving"}]
    /\ received \in [folksAttendingGame -> SUBSET Dispatchers]
    /\ spc \in {"running", "lock", "closing", "closed", "done"}
    /\ closed \subseteq folksAttendingGame
    /\ cancelled \in BOOLEAN /\ crashed \in BOOLEAN

(* DispatchMessage returns only when each participant that subscribes to    *)
(* the message's topic was given it, however slow they were.                *)
DispatchedToAll ==
    \A d \in Dispatchers : dpc[d] = "returned" =>
        \A x \in ToSet(Recipients(d)) : d \in received[x]

(* While a game runs the bus does not panic: only Shutdown closes channels, *)
(* and it closes them with the lookups held off (Rwm).                      *)
NoPanicInGame == crashed => spc \notin {"running", "lock"}

(* Whoever sends an event is let go, even if every participant has stopped  *)
(* receiving (the default in marshalAndForward), unless the context of the  *)
(* bus is done or the program panics.  Nothing is promised once the context *)
(* is done: the forwarder leaves, and whoever sends to the unbuffered       *)
(* EventChan of a bus that is not shut down waits for ever.                 *)
PublishAccepted ==
    \A p \in Publishers : ppc[p] = "sending" ~> ppc[p] = "sent" \/ cancelled \/ crashed

(* A Shutdown that was called gets the lock and completes, and the          *)
(* forwarder stops, or the program panics: a dispatcher that waits for a    *)
(* participant does not hold Rwm.                                           *)
ShutdownStops ==
    spc = "lock" ~> (spc = "done" /\ fpc = "stopped") \/ crashed

(* "Signal to all goroutines to stop": at Shutdown the goroutines of the    *)
(* bus stop, they do not panic.                                             *)
StopsWithoutPanic == ~crashed
=============================================================================
