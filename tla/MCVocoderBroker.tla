-------------------------- MODULE MCVocoderBroker --------------------------
(* Two workers, two sockets and two servers.                               *)
EXTENDS VocoderBroker

CONSTANTS t1, t2

MCTargets == <<t1, t2>>
=============================================================================
