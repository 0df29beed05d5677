------------------------------ MODULE Dashboard ------------------------------
(***************************************************************************)
(* What the gateway keeps for its dashboard: the list of calls and its     *)
(* file (TrafficHistory), the connections of pages that are told what      *)
(* happens (WSHub), the monitors of quality (MediaQuality), and profiles   *)
(* of callsigns (QRZLookup).  They have a mutex each and share nothing but *)
(* the frames that set them off, so each is looked at by itself.           *)
(***************************************************************************)
EXTENDS TrafficHistory, WSHub, MediaQuality, QRZLookup

VARIABLE view   \* the part that is looked at

dashVars == <<vars, hubVars, qualityVars, qrzVars, view>>

DashInit ==
  /\ view \in {"history", "live", "frames", "vocoder", "host", "lookup"}
  /\ Init /\ HubInit /\ QualityInit /\ QRZInit

HistoryNext ==
  view = "history" /\ Next /\ UNCHANGED <<hubVars, qualityVars, qrzVars, view>>

LiveNext ==
  view = "live" /\ HubNext /\ UNCHANGED <<vars, qualityVars, qrzVars, view>>

QualityNext ==
  /\ \/ view = "frames" /\ DMRNext /\ UNCHANGED <<answers, netVars>>
     \/ view = "vocoder" /\ VocoderNext /\ UNCHANGED <<dmrVars, netVars>>
     \/ view = "host" /\ NetNext /\ UNCHANGED <<dmrVars, answers>>
  /\ UNCHANGED <<vars, hubVars, qrzVars, view>>

LookupNext ==
  view = "lookup" /\ QRZNext /\ UNCHANGED <<vars, hubVars, qualityVars, view>>

DashNext == HistoryNext \/ LiveNext \/ QualityNext \/ LookupNext

\* The parts run side by side, so that what is fair of each is fair of all.
Saves(s) == Snapshot(s) /\ UNCHANGED <<hubVars, qualityVars, qrzVars, view>>
Stores(s) == Write(s) /\ UNCHANGED <<hubVars, qualityVars, qrzVars, view>>
Wakes == Wake /\ UNCHANGED <<hubVars, qualityVars, qrzVars, view>>
Sends(c) == Writer(c) /\ UNCHANGED <<vars, qualityVars, qrzVars, view>>
Leave(c) == ReaderEnds(c) /\ UNCHANGED <<vars, qualityVars, qrzVars, view>>

DashSpec ==
  /\ DashInit /\ [][DashNext]_dashVars
  /\ WF_vars(Wakes)
  /\ \A s \in Savers : SF_vars(Saves(s)) /\ WF_vars(Stores(s))
  /\ \A c \in Sockets : WF_hubVars(Sends(c)) /\ WF_hubVars(Leave(c))
==============================================================================
