---------------------------- MODULE MCBridgeLoop ----------------------------
(* Two networks and the local master; three spoken frames; the deadlines of *)
(* the code in seconds.                                                    *)
EXTENDS BridgeLoop, TLC

CONSTANTS n1, n2

MCLegs == {n1, n2}
MCConfRoute == n1 :> 23530 @@ n2 :> 23530
MCOtherRoute == n1 :> 9 @@ n2 :> 23530
MCRoutes == {MCConfRoute, MCOtherRoute}
MCPayloads == Originals \X Encodings
=============================================================================
