---------------------------- MODULE LobbyProofs ----------------------------
(***************************************************************************)
(* Theorems about the pairing of players, for any players, channels and    *)
(* number of pairings.                                                     *)
(***************************************************************************)
EXTENDS Lobby, FiniteSetTheorems, TLAPS

(* Two acknowledgements in the map are those of two different players.     *)
LEMMA TwoOfPair ==
    ASSUME NEW a, NEW b, NEW S \in SUBSET {a, b}, Cardinality(S) >= 2
    PROVE  a # b /\ a \in S /\ b \in S
  <1> SUFFICES ASSUME \E c : S \subseteq {c} PROVE FALSE
    OBVIOUS
  <1>1. PICK c : S \subseteq {c}
    OBVIOUS
  <1>2. IsFiniteSet({c}) /\ Cardinality({c}) = 1
    BY FS_Singleton
  <1>3. Cardinality(S) \in Nat /\ Cardinality(S) <= 1
    BY <1>1, <1>2, FS_Subset, FS_CardinalityType
  <1> QED BY <1>3

LEMMA NextTypeOK == TypeOK /\ [Next]_vars => TypeOK'
  <1> SUFFICES ASSUME TypeOK, [Next]_vars PROVE TypeOK'
    OBVIOUS
  <1> USE LobbyAssumption DEF TypeOK, playerVars, Pair
  <1>1. CASE ContextDone \/ ChannelClosed
    BY <1>1 DEF ContextDone, ChannelClosed
  <1>2. CASE ReceivePairing
    BY <1>2 DEF ReceivePairing
  <1>3. CASE PublishPairing
    <2>1. playerIDs[next] \in Players
      BY <1>3 DEF PublishPairing
    <2> DEFINE p == playerIDs[next]
    <2>2. \/ UNCHANGED playerVars
          \/ /\ reading' = reading \ {p}
             /\ heard' = [heard EXCEPT ![p] = @ + 1]
             /\ offers' = [offers EXCEPT ![p] = @ + 1] \/ UNCHANGED offers
      BY <1>3 DEF PublishPairing
    <2> HIDE DEF p
    <2>3. heard' \in [Players -> Nat] /\ offers' \in [Players -> Nat] /\ reading' \subseteq PlayerChans
      BY <2>1, <2>2 DEF p
    <2> QED BY <1>3, <2>3 DEF PublishPairing
  <1>4. CASE BeginAwait
    BY <1>4 DEF BeginAwait
  <1>5. ASSUME NEW p \in Players, NEW ack \in Usernames, ReceiveAck(p, ack) PROVE TypeOK'
    <2>1. offers' \in [Players -> Nat]
      BY <1>5 DEF ReceiveAck, OnOffer, Sent
    <2>2. acks' \subseteq Players /\ acks' \subseteq Pair
      BY <1>5 DEF ReceiveAck, Awaiting
    <2> QED BY <1>5, <2>1, <2>2 DEF ReceiveAck
  <1>6. CASE ReleasePairBackLobby
    BY <1>6 DEF ReleasePairBackLobby
  <1>7. CASE LockPairIntoMatch
    BY <1>7 DEF LockPairIntoMatch
  <1>8. ASSUME NEW p \in Players, Reads(p) \/ TurnsAway(p) PROVE TypeOK'
    BY <1>8 DEF Reads, TurnsAway
  <1>9. ASSUME NEW p \in Players, TakesOwn(p) PROVE TypeOK'
    BY <1>9 DEF TakesOwn
  <1>10. CASE Cancel
    BY <1>10 DEF Cancel
  <1>11. CASE UNCHANGED vars
    BY <1>11 DEF vars
  <1> QED BY <1>1, <1>2, <1>3, <1>4, <1>5, <1>6, <1>7, <1>8, <1>9, <1>10, <1>11
          DEF Next, ListenForMMResponse

(* Every reachable state of the lobby has its type; the acknowledgements it *)
(* holds are those of the pair it deals with.                               *)
THEOREM TypeCorrect == Spec => []TypeOK
  <1>1. NewLobby => TypeOK
    <2> SUFFICES ASSUME NewLobby PROVE TypeOK
      OBVIOUS
    <2>1. offers \in [Players -> Nat] /\ heard \in [Players -> Nat] /\ played \in [Players -> Nat]
      BY DEF NewLobby
    <2>2. next \in 1..3 /\ pairings \in 0..MaxPairings /\ reading \subseteq PlayerChans
      BY LobbyAssumption DEF NewLobby
    <2>3. acks \subseteq Players /\ (lpc = "await" => acks \subseteq Pair)
      BY DEF NewLobby
    <2> QED BY <2>1, <2>2, <2>3 DEF NewLobby, TypeOK
  <1> QED BY <1>1, NextTypeOK, PTL DEF Spec

-----------------------------------------------------------------------------
(* An announcement gives rise to one acknowledgement at most, which moves   *)
(* from the offers to the map and from there into a match, or is lost.      *)

LEMMA SpentFrame ==
    ASSUME TypeOK, AckSpentOnce, UNCHANGED <<played, heard, offers>>,
           \A p \in Players : Acknowledged(p)' <= Acknowledged(p)
    PROVE  AckSpentOnce'
  <1>1. \A p \in Players : Acknowledged(p) \in {0, 1} /\ Acknowledged(p)' \in {0, 1}
    BY DEF Acknowledged
  <1> QED BY <1>1 DEF AckSpentOnce, TypeOK

LEMMA NextAckSpent == TypeOK /\ AckSpentOnce /\ [Next]_vars => AckSpentOnce'
  <1> SUFFICES ASSUME TypeOK, AckSpentOnce, [Next]_vars PROVE AckSpentOnce'
    OBVIOUS
  <1> USE DEF playerVars
  <1>0. \A p \in Players : Acknowledged(p) \in {0, 1} /\ Acknowledged(p)' \in {0, 1}
    BY DEF Acknowledged
  <1>1. CASE ContextDone \/ ChannelClosed \/ ReceivePairing \/ BeginAwait \/ ReleasePairBackLobby
    BY <1>1, SpentFrame
       DEF ContextDone, ChannelClosed, ReceivePairing, BeginAwait, ReleasePairBackLobby,
           Acknowledged, Awaiting
  <1>2. CASE PublishPairing
    <2>1. \A q \in Players : Acknowledged(q)' = 0
      BY <1>2 DEF PublishPairing, Acknowledged
    <2>2. CASE playerIDs[next] \in PlayerChans
      <3> DEFINE p == playerIDs[next]
      <3>1. /\ played' = played /\ p \in Players
            /\ heard' = [heard EXCEPT ![p] = @ + 1]
            /\ offers' = [offers EXCEPT ![p] = @ + 1] \/ offers' = offers
        BY <1>2, <2>2, LobbyAssumption DEF PublishPairing
      <3> HIDE DEF p
      <3> QED BY <1>0, <2>1, <3>1 DEF AckSpentOnce, TypeOK
    <2>3. CASE playerIDs[next] \notin PlayerChans
      <3>1. UNCHANGED <<played, heard, offers>>
        BY <1>2, <2>3 DEF PublishPairing
      <3> QED BY <1>0, <2>1, <3>1 DEF AckSpentOnce, TypeOK
    <2> QED BY <2>2, <2>3
  <1>3. ASSUME NEW p \in Players, NEW ack \in Usernames, ReceiveAck(p, ack) PROVE AckSpentOnce'
    <2>1. /\ UNCHANGED <<lpc, played, heard>>
          /\ acks' = IF ack = p THEN acks \cup {p} ELSE acks
          /\ offers' = IF ack = p THEN [offers EXCEPT ![p] = @ - 1] ELSE offers
      BY <1>3 DEF ReceiveAck, Sent, isValidAck
    <2>2. CASE ack = p
      <3>1. \A q \in Players \ {p} : Acknowledged(q)' = Acknowledged(q) /\ offers'[q] = offers[q]
        BY <2>1, <2>2 DEF Acknowledged, TypeOK
      <3>2. offers'[p] = offers[p] - 1
        BY <2>1, <2>2 DEF TypeOK
      <3> QED BY <1>0, <2>1, <3>1, <3>2 DEF AckSpentOnce, TypeOK
    <2>3. CASE ack # p
      <3>1. \A q \in Players : Acknowledged(q)' = Acknowledged(q)
        BY <2>1, <2>3 DEF Acknowledged
      <3> QED BY <2>1, <2>3, <3>1, SpentFrame, <1>0
    <2> QED BY <2>2, <2>3
  <1>4. CASE LockPairIntoMatch
    <2>1. acks = Pair
      <3>1. acks \in SUBSET {playerIDs[1], playerIDs[2]} /\ Cardinality(acks) >= 2
        BY <1>4 DEF LockPairIntoMatch, TypeOK, Pair
      <3>2. playerIDs[1] \in acks /\ playerIDs[2] \in acks
        BY <3>1, TwoOfPair
      <3> QED BY <3>1, <3>2 DEF Pair
    <2>2. /\ lpc = "await" /\ lpc' = "listen" /\ UNCHANGED <<offers, heard>>
          /\ played' = [q \in Players |-> IF q \in Pair THEN played[q] + 1 ELSE played[q]]
      BY <1>4 DEF LockPairIntoMatch
    <2>3. \A q \in Players : played'[q] + Acknowledged(q)' = played[q] + Acknowledged(q)
      BY <2>1, <2>2 DEF Acknowledged, TypeOK
    <2> QED BY <1>0, <2>2, <2>3 DEF AckSpentOnce, TypeOK
  <1>5. ASSUME NEW p \in Players, TakesOwn(p) PROVE AckSpentOnce'
    <2>1. \A q \in Players : Acknowledged(q)' = Acknowledged(q)
      BY <1>5 DEF TakesOwn, Acknowledged
    <2>2. /\ UNCHANGED <<played, heard>> /\ offers[p] > 0
          /\ offers' = [offers EXCEPT ![p] = @ - 1]
      BY <1>5 DEF TakesOwn
    <2>3. \A q \in Players : offers'[q] \in Nat /\ offers'[q] <= offers[q]
      BY <2>2 DEF TypeOK
    <2> QED BY <1>0, <2>1, <2>2, <2>3 DEF AckSpentOnce, TypeOK
  <1>6. ASSUME NEW p \in Players, Reads(p) \/ TurnsAway(p) PROVE AckSpentOnce'
    BY <1>6, <1>0, SpentFrame DEF Reads, TurnsAway, Acknowledged
  <1>7. CASE Cancel
    BY <1>7, <1>0, SpentFrame DEF Cancel, Acknowledged
  <1>8. CASE UNCHANGED vars
    BY <1>8, <1>0, SpentFrame DEF vars, Acknowledged
  <1> QED BY <1>1, <1>2, <1>3, <1>4, <1>5, <1>6, <1>7, <1>8 DEF Next, ListenForMMResponse

(* No acknowledgement, however late, is used for two matches, and a player  *)
(* that was given no announcement is in none (awaitAcknowledgments).        *)
THEOREM AcknowledgementsSpent == Spec => []AckSpentOnce
  <1>1. NewLobby => AckSpentOnce
    BY DEF NewLobby, AckSpentOnce, Acknowledged
  <1> QED BY <1>1, NextAckSpent, TypeCorrect, PTL DEF Spec

(* Only a pair of two players is locked, also when the service names one    *)
(* player twice (the map of acknowledgements is keyed by username).         *)
THEOREM MatchesAreOfTwo == Spec => TwoPlayersMatch
  <1>1. TypeOK /\ [Next]_vars => [LockPairIntoMatch => playerIDs[1] # playerIDs[2]]_vars
    <2> SUFFICES ASSUME TypeOK, LockPairIntoMatch PROVE playerIDs[1] # playerIDs[2]
      OBVIOUS
    <2>1. acks \in SUBSET {playerIDs[1], playerIDs[2]} /\ Cardinality(acks) >= 2
      BY DEF LockPairIntoMatch, TypeOK, Pair
    <2> QED BY <2>1, TwoOfPair
  <1> QED BY <1>1, TypeCorrect, PTL DEF Spec, TwoPlayersMatch
=============================================================================
