------------------------------- MODULE Lobby -------------------------------
(***************************************************************************)
(* The pairing of players (structures/lobby/lobby.go).  The matchmaking    *)
(* service names two players; the lobby announces the pairing on their     *)
(* channels, waits five seconds for both to acknowledge on the same        *)
(* channels, and locks the pair into a match or lets it go.  The channels  *)
(* are unbuffered.                                                         *)
(*                                                                         *)
(* External: the matchmaking service, LockPairIntoMatch, which the file    *)
(* calls and does not define, and the players' goroutines at the other end *)
(* of PlayerChans: one receives, others send, and an acknowledgement that  *)
(* nobody takes in time stays on offer.                                    *)
(***************************************************************************)
EXTENDS Naturals, FiniteSets

CONSTANTS
    Players,      \* the usernames that the service may name
    PlayerChans,  \* those that have a channel
    NoName,       \* what a message that is no acknowledgement parses to
    MaxPairings   \* bound on the messages of the service

ASSUME LobbyAssumption ==
    /\ PlayerChans \subseteq Players
    /\ NoName \notin Players
    /\ MaxPairings \in Nat

VARIABLES
    lpc,         \* ListenForMMResponse: "listen", "publish", "await", "returned"
    playerIDs,   \* the pair it deals with
    next,        \* publish: the place in playerIDs it has come to
    acks,        \* await: who has acknowledged
    cancelled,   \* the context is done
    pairings,    \* pairings the service has sent
    reading,     \* players whose goroutine receives from their channel
    offers,      \* offers[p]: acknowledgements p has yet to get rid of
    heard,       \* history: heard[p]: announcements given to p
    played       \* history: played[p]: matches p was locked into

vars == <<lpc, playerIDs, next, acks, cancelled, pairings, reading, offers, heard, played>>
playerVars == <<reading, offers, heard>>

Pair == {playerIDs[1], playerIDs[2]}
Usernames == Players \cup {NoName}

NewLobby ==
    /\ lpc = "listen"
    /\ playerIDs \in Players \X Players
    /\ next = 1 /\ acks = {} /\ cancelled = FALSE /\ pairings = 0
    /\ reading = {}
    /\ offers = [p \in Players |-> 0]
    /\ heard = [p \in Players |-> 0]
    /\ played = [p \in Players |-> 0]

-----------------------------------------------------------------------------
(* ListenForMMResponse *)

(* A mutant: break for return, which leaves only the select. *)
ContextDone_Break ==
    /\ lpc = "listen"
    /\ cancelled
    /\ UNCHANGED vars

ContextDone ==
    /\ lpc = "listen"
    /\ cancelled
    /\ lpc' = "returned"
    /\ UNCHANGED <<playerIDs, next, acks, cancelled, pairings, playerVars, played>>

(* The service may close its channel, at any time. *)
ChannelClosed ==
    /\ lpc = "listen"
    /\ lpc' = "returned"
    /\ UNCHANGED <<playerIDs, next, acks, cancelled, pairings, playerVars, played>>

(* A message of the service: two names, which nothing says are different,   *)
(* or one that does not parse and is skipped.                               *)
ReceivePairing ==
    /\ lpc = "listen"
    /\ pairings < MaxPairings
    /\ pairings' = pairings + 1
    /\ \/ /\ playerIDs' \in Players \X Players
          /\ next' = 1
          /\ lpc' = "publish"
       \/ UNCHANGED <<lpc, playerIDs, next>>
    /\ UNCHANGED <<acks, cancelled, playerVars, played>>

(* PublishPairing: the announcement waits for the player to receive it.     *)
PublishPairing ==
    /\ lpc = "publish" /\ next <= 2
    /\ next' = next + 1
    /\ LET p == playerIDs[next] IN
       IF p \in PlayerChans
       THEN /\ p \in reading
            /\ reading' = reading \ {p}
            /\ heard' = [heard EXCEPT ![p] = @ + 1]
            /\ \/ offers' = [offers EXCEPT ![p] = @ + 1]
               \/ UNCHANGED offers
       ELSE UNCHANGED playerVars
    /\ UNCHANGED <<lpc, playerIDs, acks, cancelled, pairings, played>>

(* awaitAcknowledgments makes its map and its timer. *)
BeginAwait ==
    /\ lpc = "publish" /\ next = 3
    /\ lpc' = "await"
    /\ acks' = {}
    /\ UNCHANGED <<playerIDs, next, cancelled, pairings, playerVars, played>>

(* A mutant: any acknowledgement will do, whoever it names. *)
isValidAck_AnyName(ack, expectedPlayerUsername) == ack \in Players
isValidAck(ack, expectedPlayerUsername) == ack = expectedPlayerUsername

(* p, or somebody else on p's channel, has a message to send. *)
OnOffer(p, ack) == p \in PlayerChans /\ (ack = p => offers[p] > 0)

Sent(p, ack) ==
    offers' = IF ack = p THEN [offers EXCEPT ![p] = @ - 1] ELSE offers

Awaiting == lpc = "await" /\ Cardinality(acks) < 2

ReceiveAck(p, ack) ==
    /\ Awaiting
    /\ p \in Pair
    /\ OnOffer(p, ack)
    /\ Sent(p, ack)
    /\ acks' = IF isValidAck(ack, p) THEN acks \cup {p} ELSE acks
    /\ UNCHANGED <<lpc, playerIDs, next, cancelled, pairings, reading, heard, played>>

(* A mutant: no timer. *)
ReleasePairBackLobby_NoTimeout ==
    /\ Awaiting
    /\ cancelled
    /\ lpc' = "listen"
    /\ UNCHANGED <<playerIDs, next, acks, cancelled, pairings, playerVars, played>>

(* The five seconds are over or the context is done: awaitAcknowledgments   *)
(* returns false, and the release does nothing.                             *)
ReleasePairBackLobby ==
    /\ Awaiting
    /\ lpc' = "listen"
    /\ UNCHANGED <<playerIDs, next, acks, cancelled, pairings, playerVars, played>>

(* A mutant: one acknowledgement is enough. *)
LockPairIntoMatch_One ==
    /\ lpc = "await" /\ Cardinality(acks) >= 1
    /\ played' = [p \in Players |-> IF p \in Pair THEN played[p] + 1 ELSE played[p]]
    /\ lpc' = "listen"
    /\ UNCHANGED <<playerIDs, next, acks, cancelled, pairings, playerVars>>

LockPairIntoMatch ==
    /\ lpc = "await" /\ Cardinality(acks) >= 2
    /\ played' = [p \in Players |-> IF p \in Pair THEN played[p] + 1 ELSE played[p]]
    /\ lpc' = "listen"
    /\ UNCHANGED <<playerIDs, next, acks, cancelled, pairings, playerVars>>

ListenForMMResponse ==
    \/ ContextDone \/ ChannelClosed \/ ReceivePairing \/ PublishPairing \/ BeginAwait
    \/ \E p \in Players, ack \in Usernames : ReceiveAck(p, ack)
    \/ ReleasePairBackLobby \/ LockPairIntoMatch

-----------------------------------------------------------------------------
(* The players, and the context *)

Reads(p) ==
    /\ p \in PlayerChans \ reading
    /\ reading' = reading \cup {p}
    /\ UNCHANGED <<lpc, playerIDs, next, acks, cancelled, pairings, offers, heard, played>>

TurnsAway(p) ==
    /\ p \in reading
    /\ reading' = reading \ {p}
    /\ UNCHANGED <<lpc, playerIDs, next, acks, cancelled, pairings, offers, heard, played>>

(* The channel has one end for all: a player may take its own message.      *)
TakesOwn(p) ==
    /\ p \in reading
    /\ offers[p] > 0
    /\ reading' = reading \ {p}
    /\ offers' = [offers EXCEPT ![p] = @ - 1]
    /\ UNCHANGED <<lpc, playerIDs, next, acks, cancelled, pairings, heard, played>>

Cancel ==
    /\ ~cancelled
    /\ cancelled' = TRUE
    /\ UNCHANGED <<lpc, playerIDs, next, acks, pairings, playerVars, played>>

Next ==
    \/ ListenForMMResponse
    \/ \E p \in Players : Reads(p) \/ TurnsAway(p) \/ TakesOwn(p)
    \/ Cancel

Spec == NewLobby /\ [][Next]_vars

(* The lobby's goroutine is scheduled and its timer fires.  The service and *)
(* the players need do nothing.                                             *)
FairSpec ==
    /\ Spec
    /\ WF_vars(ContextDone) /\ WF_vars(PublishPairing) /\ WF_vars(BeginAwait)
    /\ WF_vars(ReleasePairBackLobby) /\ WF_vars(LockPairIntoMatch)

-----------------------------------------------------------------------------
(* Properties *)

TypeOK ==
    /\ lpc \in {"listen", "publish", "await", "returned"}
    /\ playerIDs \in Players \X Players
    /\ next \in 1..3
    /\ acks \subseteq Players /\ (lpc = "await" => acks \subseteq Pair)
    /\ cancelled \in BOOLEAN /\ pairings \in 0..MaxPairings
    /\ reading \subseteq PlayerChans
    /\ offers \in [Players -> Nat]
    /\ heard \in [Players -> Nat] /\ played \in [Players -> Nat]

Acknowledged(p) == IF lpc = "await" /\ p \in acks THEN 1 ELSE 0

(* An acknowledgement, late or not, is good for one match: what a player    *)
(* was locked into, is about to be and may yet answer for never exceeds the *)
(* announcements it was given.  One that never received any is in no match. *)
AckSpentOnce == \A p \in Players : played[p] + Acknowledged(p) + offers[p] <= heard[p]

(* A pair is locked only when it is two players, whatever the service names *)
(* (the map of acknowledgements is keyed by username).                      *)
TwoPlayersMatch == [][LockPairIntoMatch => playerIDs[1] # playerIDs[2]]_vars

(* Players who say nothing do not hold the lobby: the wait comes to an end. *)
AwaitEnds == lpc = "await" ~> lpc # "await"

(* A lobby whose context is done returns, or a player that does not receive *)
(* holds it in PublishPairing, which looks at no context.                   *)
CancelReturns ==
    cancelled ~> \/ lpc = "returned"
                 \/ lpc = "publish" /\ next <= 2 /\ playerIDs[next] \in PlayerChans \ reading
=============================================================================
