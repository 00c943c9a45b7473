--------------------------- MODULE MCGameEventBus ---------------------------
(***************************************************************************)
(* Two events and one message of the referee for ResultsTopic, whose two   *)
(* subscribers may each receive or not: a send can be between the two when *)
(* the bus is shut down.  The run of Shutdown has the message alone.       *)
(***************************************************************************)
EXTENDS GameEventBus

MCPublishers == {"start", "result"}
MCDispatchers == {"word"}
MCReceivers == {"memory", "lobby"}
MCNoPublishers == {}
MCTopicName == [g \in MCPublishers \cup MCDispatchers |-> "ResultsTopic"]
MCMessageTopic == [g \in MCDispatchers |-> "ResultsTopic"]
=============================================================================
