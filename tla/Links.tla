-------------------------------- MODULE Links --------------------------------
(***************************************************************************)
(* The logins of the repository's programs: to a DMR master (DMRLogin) and *)
(* to a D-STAR reflector (DExtraLink).  They share nothing, so each is     *)
(* looked at by itself.                                                    *)
(***************************************************************************)
EXTENDS DMRLogin, DExtraLink

VARIABLE protocol   \* the one that is looked at

linksVars == <<loginVars, dxVars, protocol>>

LinksInit ==
  /\ LoginInit /\ DxInit
  /\ protocol = "hbp" \/ (protocol = "dextra" /\ party = "crowd")

HBPNext == protocol = "hbp" /\ LoginNext /\ UNCHANGED <<dxVars, protocol>>
DExtraNext == protocol = "dextra" /\ DxNext /\ UNCHANGED <<loginVars, protocol>>

Over(A) == protocol = "hbp" /\ A /\ UNCHANGED <<dxVars, protocol>>
Across(A) == protocol = "dextra" /\ A /\ UNCHANGED <<loginVars, protocol>>

\* Packets arrive or are lost, time passes, and each program's loop turns.
LinksSpec ==
  /\ LinksInit /\ [][HBPNext \/ DExtraNext]_linksVars
  /\ WF_linksVars(Over(\E p \in net : (Deliver(p) \/ Lose(p))))
  /\ WF_linksVars(Over(StartOver)) /\ WF_linksVars(Over(SendPing))
  /\ WF_linksVars(Over(Tick)) /\ WF_linksVars(Over(Retry))
  /\ WF_linksVars(Over(MasterSilent)) /\ WF_linksVars(Over(Reconnect))
  /\ WF_linksVars(Across(DxDeliver)) /\ WF_linksVars(Across(Turn))
  /\ WF_linksVars(Across(Reopen)) /\ WF_linksVars(Across(DxTick))

\* Every program gets its link, whatever was lost before.
LinksComplete ==
  /\ protocol = "hbp" => LoginCompletes
  /\ protocol = "dextra" => StaysLinked
==============================================================================
