------------------------------ MODULE GameLocus ------------------------------
(***************************************************************************)
(* The broadcasting of server/server.go: publish, called by one HTTP       *)
(* request for each event, offers the event to every subscriber; each      *)
(* subscriber is a websocket connection whose handler, in subscribe,       *)
(* writes what it finds in its own bounded channel.  One mutex protects    *)
(* the map of subscribers, and publish keeps it while it waits for the     *)
(* rate limiter and while it goes through the map.                         *)
(*                                                                         *)
(* The websocket library is external: a connection is open or closed, a    *)
(* write to an open one succeeds or fails and closes it, and CloseRead     *)
(* starts a reader that ends, and cancels the context of subscribe, once   *)
(* the connection is closed.                                               *)
(***************************************************************************)
EXTENDS Naturals, Sequences, FiniteSets

CONSTANTS
    Clients,      \* websocket connections, each with its handler
    Events,       \* events posted, each by an HTTP request of its own
    Buffer,       \* subscriberEventMsgBuffer
    Burst,        \* the limiter's burst
    NoOne         \* nobody holds the mutex

ASSUME LocusAssumption ==
    /\ IsFiniteSet(Clients) /\ IsFiniteSet(Events)
    /\ Buffer \in Nat \ {0} /\ Burst \in Nat \ {0}
    /\ NoOne \notin Events

VARIABLES
    subscribers,  \* the keys of the map
    subscribersMu,\* the event whose publish holds the mutex, or NoOne
    tokens,       \* publishes the limiter lets through at once
    epc,          \* publish of e: "new", "lock", "wait" (limiter), "send", "done"
    remaining,    \* remaining[e]: subscribers that publish of e has yet to reach
    stamp,        \* history: the place of e among the events let through, or 0
    pc,           \* handlers: "new", "add", "loop", "write", "delete", "left", "done"
    conn,         \* conn[c]: "none", "open", "closed"
    cancelled,    \* clients whose CloseRead context is cancelled
    interrupted,  \* mainCtx, the base of every request's context, is done
    told,         \* clients for which closeTooSlow was started
    evts,         \* evts[c]: the channel of c
    writing,      \* writing[c]: the event the handler of c is writing, if any
    delivered,    \* history: events written to c
    offered       \* history: events publish offered to c

vars == <<subscribers, subscribersMu, tokens, epc, remaining, stamp, pc, conn,
          cancelled, interrupted, told, evts, writing, delivered, offered>>
publishVars == <<tokens, epc, remaining, stamp>>
connVars == <<conn, cancelled, interrupted, told>>
eventVars == <<evts, writing, delivered, offered>>

Init ==
    /\ subscribers = {} /\ subscribersMu = NoOne
    /\ tokens = Burst
    /\ epc = [e \in Events |-> "new"]
    /\ remaining = [e \in Events |-> {}]
    /\ stamp = [e \in Events |-> 0]
    /\ pc = [c \in Clients |-> "new"]
    /\ conn = [c \in Clients |-> "none"]
    /\ cancelled = {} /\ interrupted = FALSE /\ told = {}
    /\ evts = [c \in Clients |-> <<>>]
    /\ writing = [c \in Clients |-> <<>>]
    /\ delivered = [c \in Clients |-> <<>>]
    /\ offered = [c \in Clients |-> <<>>]

-----------------------------------------------------------------------------
(* publish *)

(* publishHandler has read a body that is not too large. *)
publishHandler(e) ==
    /\ epc[e] = "new"
    /\ epc' = [epc EXCEPT ![e] = "lock"]
    /\ UNCHANGED <<subscribers, subscribersMu, tokens, remaining, stamp, pc, connVars, eventVars>>

(* A mutant: the mutex not waited for. *)
Lock_NoWait(e) ==
    /\ epc[e] = "lock"
    /\ subscribersMu' = e
    /\ epc' = [epc EXCEPT ![e] = "wait"]
    /\ UNCHANGED <<subscribers, tokens, remaining, stamp, pc, connVars, eventVars>>

Lock(e) ==
    /\ epc[e] = "lock"
    /\ subscribersMu = NoOne
    /\ subscribersMu' = e
    /\ epc' = [epc EXCEPT ![e] = "wait"]
    /\ UNCHANGED <<subscribers, tokens, remaining, stamp, pc, connVars, eventVars>>

(* publishLimiter.Wait, with a context that is never done. *)
Wait(e) ==
    /\ epc[e] = "wait"
    /\ tokens > 0
    /\ tokens' = tokens - 1
    /\ epc' = [epc EXCEPT ![e] = "send"]
    /\ remaining' = [remaining EXCEPT ![e] = subscribers]
    /\ stamp' = [stamp EXCEPT ![e] = Cardinality({f \in Events : stamp[f] # 0}) + 1]
    /\ UNCHANGED <<subscribers, subscribersMu, pc, connVars, eventVars>>

(* Mutants: a full channel waited for; a full channel passed over in silence. *)
Offer_Blocking(e, c) ==
    /\ epc[e] = "send"
    /\ c \in remaining[e]
    /\ Len(evts[c]) < Buffer
    /\ remaining' = [remaining EXCEPT ![e] = @ \ {c}]
    /\ offered' = [offered EXCEPT ![c] = Append(@, e)]
    /\ evts' = [evts EXCEPT ![c] = Append(@, e)]
    /\ UNCHANGED <<subscribers, subscribersMu, tokens, epc, stamp, pc, connVars,
                   writing, delivered>>
Offer_Silent(e, c) ==
    /\ epc[e] = "send"
    /\ c \in remaining[e]
    /\ remaining' = [remaining EXCEPT ![e] = @ \ {c}]
    /\ offered' = [offered EXCEPT ![c] = Append(@, e)]
    /\ evts' = IF Len(evts[c]) < Buffer THEN [evts EXCEPT ![c] = Append(@, e)] ELSE evts
    /\ UNCHANGED <<subscribers, subscribersMu, tokens, epc, stamp, pc, connVars,
                   writing, delivered>>

(* One subscriber, in the map's own order: it gets the event, or its       *)
(* channel is full and closeTooSlow is started.                            *)
Offer(e, c) ==
    /\ epc[e] = "send"
    /\ c \in remaining[e]
    /\ remaining' = [remaining EXCEPT ![e] = @ \ {c}]
    /\ offered' = [offered EXCEPT ![c] = Append(@, e)]
    /\ IF Len(evts[c]) < Buffer
       THEN evts' = [evts EXCEPT ![c] = Append(@, e)] /\ UNCHANGED told
       ELSE told' = told \cup {c} /\ UNCHANGED evts
    /\ UNCHANGED <<subscribers, subscribersMu, tokens, epc, stamp, pc, conn, cancelled,
                   interrupted, writing, delivered>>

Unlock(e) ==
    /\ epc[e] = "send"
    /\ remaining[e] = {}
    /\ subscribersMu' = NoOne
    /\ epc' = [epc EXCEPT ![e] = "done"]
    /\ UNCHANGED <<subscribers, tokens, remaining, stamp, pc, connVars, eventVars>>

publish(e) == Lock(e) \/ Wait(e) \/ (\E c \in Clients : Offer(e, c)) \/ Unlock(e)

(* Time passes: the limiter gains a token, up to its burst. *)
Refill ==
    /\ tokens < Burst
    /\ tokens' = tokens + 1
    /\ UNCHANGED <<subscribers, subscribersMu, epc, remaining, stamp, pc, connVars, eventVars>>

-----------------------------------------------------------------------------
(* subscribeHandler *)

(* websocket.Accept fails, or subscribe begins with CloseRead. *)
Accept(c) ==
    /\ pc[c] = "new"
    /\ \/ /\ pc' = [pc EXCEPT ![c] = "add"]
          /\ conn' = [conn EXCEPT ![c] = "open"]
       \/ pc' = [pc EXCEPT ![c] = "done"] /\ UNCHANGED conn
    /\ UNCHANGED <<subscribers, subscribersMu, publishVars, cancelled, interrupted, told,
                   eventVars>>

AddSubscriber(c) ==
    /\ pc[c] = "add"
    /\ subscribersMu = NoOne
    /\ subscribers' = subscribers \cup {c}
    /\ pc' = [pc EXCEPT ![c] = "loop"]
    /\ UNCHANGED <<subscribersMu, publishVars, connVars, eventVars>>

(* The select of subscribe: an event, or the context is done; when both are *)
(* ready either is taken.                                                   *)
Receive(c) ==
    /\ pc[c] = "loop"
    /\ evts[c] # <<>>
    /\ writing' = [writing EXCEPT ![c] = <<Head(evts[c])>>]
    /\ evts' = [evts EXCEPT ![c] = Tail(@)]
    /\ pc' = [pc EXCEPT ![c] = "write"]
    /\ UNCHANGED <<subscribers, subscribersMu, publishVars, connVars, delivered, offered>>

(* A mutant: the context that CloseRead returned not used. *)
ContextDone_NoCloseRead(c) ==
    /\ pc[c] = "loop"
    /\ interrupted
    /\ pc' = [pc EXCEPT ![c] = "delete"]
    /\ UNCHANGED <<subscribers, subscribersMu, publishVars, connVars, eventVars>>

ContextDone(c) ==
    /\ pc[c] = "loop"
    /\ c \in cancelled \/ interrupted
    /\ pc' = [pc EXCEPT ![c] = "delete"]
    /\ UNCHANGED <<subscribers, subscribersMu, publishVars, connVars, eventVars>>

(* writeMsgToWebsocket_wTimeout: the event is written, or (five seconds     *)
(* pass, the connection or the context has ended) the connection is closed  *)
(* and subscribe returns the error.                                         *)
Write(c) ==
    /\ pc[c] = "write"
    /\ \/ /\ conn[c] = "open"
          /\ delivered' = [delivered EXCEPT ![c] = @ \o writing[c]]
          /\ pc' = [pc EXCEPT ![c] = "loop"]
          /\ UNCHANGED conn
       \/ /\ conn' = [conn EXCEPT ![c] = "closed"]
          /\ pc' = [pc EXCEPT ![c] = "delete"]
          /\ UNCHANGED delivered
    /\ writing' = [writing EXCEPT ![c] = <<>>]
    /\ UNCHANGED <<subscribers, subscribersMu, publishVars, cancelled, interrupted, told,
                   evts, offered>>

(* A mutant: the mutex not taken. *)
DeleteSubscriber_NoLock(c) ==
    /\ pc[c] = "delete"
    /\ subscribers' = subscribers \ {c}
    /\ pc' = [pc EXCEPT ![c] = "left"]
    /\ UNCHANGED <<subscribersMu, publishVars, connVars, eventVars>>

DeleteSubscriber(c) ==
    /\ pc[c] = "delete"
    /\ subscribersMu = NoOne
    /\ subscribers' = subscribers \ {c}
    /\ pc' = [pc EXCEPT ![c] = "left"]
    /\ UNCHANGED <<subscribersMu, publishVars, connVars, eventVars>>

(* The rest of the handler.  subscribe returned because the connection is   *)
(* closed or the server is interrupted; if it starts the reading of moves   *)
(* and the heartbeats at all, both end at once for the same reason.  The    *)
(* deferred Close comes last.                                               *)
Return(c) ==
    /\ pc[c] = "left"
    /\ pc' = [pc EXCEPT ![c] = "done"]
    /\ conn' = [conn EXCEPT ![c] = "closed"]
    /\ UNCHANGED <<subscribers, subscribersMu, publishVars, cancelled, interrupted, told,
                   eventVars>>

subscribe(c) ==
    AddSubscriber(c) \/ Receive(c) \/ ContextDone(c) \/ Write(c) \/ DeleteSubscriber(c)
        \/ Return(c)

-----------------------------------------------------------------------------
(* What happens to a connection *)

(* The client leaves, or sends a message: CloseRead closes on any message.  *)
Hangup(c) ==
    /\ conn[c] = "open"
    /\ conn' = [conn EXCEPT ![c] = "closed"]
    /\ UNCHANGED <<subscribers, subscribersMu, publishVars, pc, cancelled, interrupted, told,
                   eventVars>>

closeTooSlow(c) ==
    /\ c \in told
    /\ conn[c] = "open"
    /\ conn' = [conn EXCEPT ![c] = "closed"]
    /\ UNCHANGED <<subscribers, subscribersMu, publishVars, pc, cancelled, interrupted, told,
                   eventVars>>

CloseRead(c) ==
    /\ conn[c] = "closed"
    /\ c \notin cancelled
    /\ cancelled' = cancelled \cup {c}
    /\ UNCHANGED <<subscribers, subscribersMu, publishVars, pc, conn, interrupted, told,
                   eventVars>>

(* SIGINT or SIGTERM ends mainCtx. *)
Interrupt ==
    /\ ~interrupted
    /\ interrupted' = TRUE
    /\ UNCHANGED <<subscribers, subscribersMu, publishVars, pc, conn, cancelled, told, eventVars>>

Next ==
    \/ \E e \in Events : publishHandler(e) \/ publish(e)
    \/ Refill
    \/ \E c \in Clients : Accept(c) \/ subscribe(c)
    \/ \E c \in Clients : Hangup(c) \/ closeTooSlow(c) \/ CloseRead(c)
    \/ Interrupt

Spec == Init /\ [][Next]_vars

(* Goroutines are scheduled, the write has its timeout and the limiter its  *)
(* clock.  Nobody need connect, post, hang up or interrupt.                 *)
FairSpec ==
    /\ Spec
    /\ WF_vars(Refill)
    /\ \A e \in Events : WF_vars(publish(e))
    /\ \A c \in Clients :
          WF_vars(subscribe(c)) /\ WF_vars(closeTooSlow(c)) /\ WF_vars(CloseRead(c))

-----------------------------------------------------------------------------
(* Properties *)

TypeOK ==
    /\ subscribers \subseteq Clients
    /\ subscribersMu \in Events \cup {NoOne}
    /\ tokens \in 0..Burst
    /\ epc \in [Events -> {"new", "lock", "wait", "send", "done"}]
    /\ remaining \in [Events -> SUBSET Clients]
    /\ stamp \in [Events -> Nat]
    /\ pc \in [Clients -> {"new", "add", "loop", "write", "delete", "left", "done"}]
    /\ conn \in [Clients -> {"none", "open", "closed"}]
    /\ cancelled \subseteq Clients /\ interrupted \in BOOLEAN /\ told \subseteq Clients
    /\ evts \in [Clients -> Seq(Events)] /\ \A c \in Clients : Len(evts[c]) <= Buffer
    /\ writing \in [Clients -> Seq(Events)]
    /\ delivered \in [Clients -> Seq(Events)]
    /\ offered \in [Clients -> Seq(Events)]

(* The map does not change under the range loop of publish: whom it has yet *)
(* to reach is still subscribed, so no event goes to a channel that no      *)
(* handler will read again (subscribersMu in publish, AddSubscriber and     *)
(* DeleteSubscriber).                                                       *)
MapSteady == \A e \in Events : epc[e] = "send" => remaining[e] \subseteq subscribers

(* Every client gets the events in the one order in which the limiter let   *)
(* them through, and none twice: two publishes never overlap in the map.    *)
InOrder ==
    \A c \in Clients : \A i, j \in DOMAIN delivered[c] :
        i < j => stamp[delivered[c][i]] < stamp[delivered[c][j]]

(* A client that is being served misses nothing in silence: until           *)
(* closeTooSlow is started for it, what publish offered to it is what it    *)
(* was sent, is being sent and is still in its channel.                     *)
GapsOnlyIfTold ==
    \A c \in Clients : pc[c] \in {"loop", "write"} /\ c \notin told =>
        offered[c] = delivered[c] \o writing[c] \o evts[c]

Position(c) ==
    IF delivered[c] = <<>> THEN 0 ELSE stamp[delivered[c][Len(delivered[c])]]

Stream == INSTANCE EventStream WITH
             Readers <- Clients,
             published <- Cardinality({f \in Events : stamp[f] # 0}),
             position <- [c \in Clients |-> Position(c)],
             late <- told

(* All clients follow one stream: from its first event on, a client gets    *)
(* every event that the limiter let through, in turn and with none left     *)
(* out, until closeTooSlow is started for it (publish, subscribe, and the   *)
(* map of subscribers between them).                                        *)
StreamedInTurn == Stream!Spec

(* A client that is behind what publish offered to it catches up, or its    *)
(* connection ends.                                                         *)
CatchesUpOrCloses ==
    \A c \in Clients :
        delivered[c] # offered[c] ~> delivered[c] = offered[c] \/ conn[c] = "closed"

(* The handler of a closed connection ends, and with it the subscription:   *)
(* dead clients do not pile up in the map.                                  *)
ClosedLeaves == \A c \in Clients : conn[c] = "closed" ~> pc[c] = "done"

(* A publish that was called returns, however slow or dead the subscribers  *)
(* are: it does not wait for them, and they need the mutex it holds.        *)
PublishReturns == \A e \in Events : epc[e] = "lock" ~> epc[e] = "done"
=============================================================================
