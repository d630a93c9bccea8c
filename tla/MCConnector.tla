---------------------------- MODULE MCConnector ----------------------------
(* Instances of Connector for TLC. *)
EXTENDS Connector, TLC

\* An answer 429 asks for no pause, or for a longer one than the connector makes.
MCRetryAfters == {0, 5}
=============================================================================
