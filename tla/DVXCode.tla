------------------------------- MODULE DVXCode -------------------------------
(***************************************************************************)
(* dvxbridge as a whole.  Its call logic (DStarBridge) is checked with     *)
(* what it sends and takes as it abstracts them; each of the paths on      *)
(* which that rests by itself, since they share no state with it or with   *)
(* each other: frames in the air (AirFrames), the transcoder of a call     *)
(* (Transcoder), the alias sent over DMR (LinkControl), and text and       *)
(* header sent over D-STAR (SlowData).                                     *)
(***************************************************************************)
EXTENDS DStarBridge, AirFrames, Transcoder, LinkControl, SlowData

VARIABLE path   \* the one that is looked at

airVars == <<frame, hit>>
linkVars == <<near, far, noise, quiet>>
slowVars == <<mux, demux, lost, clear>>

dvxVars == <<dstarVars, airVars, xcVars, linkVars, slowVars, path>>

DVXInit ==
  /\ path \in {"calls", "air", "voice", "alias", "slow"}
  /\ DStarInit /\ XcInit /\ LinkInit
  /\ IF path = "air" THEN AirInit ELSE frame = [kind |-> "none"] /\ hit = {}
  /\ SlowInit
  /\ path # "slow" => mux = CHOOSE m \in Starts : TRUE

BridgeNext ==
  /\ path = "calls" /\ DStarNext
  /\ UNCHANGED <<airVars, xcVars, linkVars, slowVars, path>>

BridgeTick ==
  /\ path = "calls" /\ Tick
  /\ UNCHANGED <<airVars, xcVars, linkVars, slowVars, path>>

DVXNext ==
  \/ BridgeNext
  \/ path = "air" /\ AirNext /\ UNCHANGED <<dstarVars, xcVars, linkVars, slowVars, path>>
  \/ path = "voice" /\ XcNext /\ UNCHANGED <<dstarVars, airVars, linkVars, slowVars, path>>
  \/ path = "alias" /\ LinkNext /\ UNCHANGED <<dstarVars, airVars, xcVars, slowVars, path>>
  \/ path = "slow" /\ SlowNext /\ UNCHANGED <<dstarVars, airVars, xcVars, linkVars, path>>

DVXSpec == DVXInit /\ [][DVXNext]_dvxVars /\ WF_dvxVars(BridgeTick)

\* What is shown of a caller comes right, however much was lost: the alias on a
\* radio within a rotation of its words, and the text on a D-STAR set within a
\* superframe and the thirteen blocks.
CallerHeals == AliasHeals /\ TextHeals

\* Each side takes only what the other sent, whatever the noise made of it: the
\* link control of a call and the words of an alias that pass their checksums;
\* and it shows only the first alias as a whole, and the station's header.
AcceptedWasSent ==
  AcceptedLCSent /\ WordsHeardWereSent /\ AliasShownWhole /\ HeaderTrue
=============================================================================
