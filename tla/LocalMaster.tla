----------------------------- MODULE LocalMaster -----------------------------
(***************************************************************************)
(* The gateway's own DMR master for hotspots: masterClients in gateway.go. *)
(* One goroutine (runLocalDMRMaster) handles the packets one by one; the   *)
(* status page removes old entries from another.  A packet's handler is an *)
(* action and gives its answer as a parameter, so that a network can be    *)
(* composed with it.                                                       *)
(*                                                                         *)
(* A salt is a fresh value; the key in a RPTK is the salt it was computed  *)
(* from, or WrongKey when the password or the salt was another.  That the  *)
(* secret file can be read is taken for granted.                           *)
(***************************************************************************)
EXTENDS Naturals, FiniteSets

CONSTANTS
  Ids,          \* repeater numbers
  Registered,   \* those whose DMR ID is in the database
  Addresses,
  Salts, WrongKey,
  Capacity,     \* 32 clients
  StaleTicks    \* 90 s

ASSUME MasterAssumption ==
  /\ Registered \subseteq Ids
  /\ IsFiniteSet(Ids)
  /\ Capacity \in Nat \ {0} /\ StaleTicks \in Nat
  /\ WrongKey \notin Salts

VARIABLES
  clients,    \* masterClients: a record per client, age is since LastSeen
  framing     \* the client whose DMRD was let in and not yet noted

masterVars == <<clients, framing>>

Stages == {"WaitingKey", "WaitingConfig", "Running"}
Client == [stage : Stages, addr : Addresses, salt : Salts,
           age : 0 .. StaleTicks + 1]

MasterTypeOK ==
  /\ DOMAIN clients \subseteq Ids
  /\ Cardinality(DOMAIN clients) <= Capacity
  /\ \A id \in DOMAIN clients : clients[id] \in Client
  /\ framing \subseteq Ids

MasterInit == clients = [id \in {} |-> 0] /\ framing = {}

Fresh == \A id \in DOMAIN clients : clients[id].age <= StaleTicks
Live(id) == id \in DOMAIN clients /\ clients[id].age <= StaleTicks
Known(id, addr) == id \in DOMAIN clients /\ clients[id].addr = addr

Only(ids) == [id \in ids |-> clients[id]]
Without(id) == Only(DOMAIN clients \ {id})
LiveOnes == Only({id \in DOMAIN clients : Live(id)})
Set(table, id, client) ==
  [i \in DOMAIN table \cup {id} |-> IF i = id THEN client ELSE table[i]]
Enter(id, stage) ==
  clients' = [clients EXCEPT ![id].stage = stage, ![id].age = 0]

-----------------------------------------------------------------------------
(* handleMasterControl                                                     *)

\* Fault: when the table is full it is emptied.
Pruned_All ==
  IF Cardinality(DOMAIN clients) >= Capacity THEN Only({}) ELSE clients

\* Old entries are looked for only when the table is full.
Pruned == IF Cardinality(DOMAIN clients) >= Capacity THEN LiveOnes ELSE clients

\* Fault: a client that logs in again is asked for a key made from the old salt.
Login_OldSalt(id, addr, salt, reply) ==
  /\ id \in Registered /\ reply = "RPTACK"
  /\ clients' = Set(Pruned, id, [stage |-> "WaitingKey", addr |-> addr, age |-> 0,
                     salt |-> IF id \in DOMAIN clients THEN clients[id].salt
                              ELSE salt])

\* RPTL.  At the limit even a client that is in the table is refused.
Login(id, addr, salt, reply) ==
  \/ /\ id \notin Registered
     /\ reply = "MSTNAK" /\ UNCHANGED clients
  \/ /\ id \in Registered
     /\ IF Cardinality(DOMAIN Pruned) >= Capacity
        THEN clients' = Pruned /\ reply = "MSTNAK"
        ELSE /\ clients' = Set(Pruned, id, [stage |-> "WaitingKey", addr |-> addr,
                                            salt |-> salt, age |-> 0])
             /\ reply = "RPTACK"

\* RPTK.  A wrong key costs the client its entry.
Key(id, addr, key, reply) ==
  \/ /\ ~(Known(id, addr) /\ clients[id].stage = "WaitingKey")
     /\ reply = "MSTNAK" /\ UNCHANGED clients
  \/ /\ Known(id, addr) /\ clients[id].stage = "WaitingKey"
     /\ IF key = clients[id].salt
        THEN Enter(id, "WaitingConfig") /\ reply = "RPTACK"
        ELSE clients' = Without(id) /\ reply = "MSTNAK"

\* RPTC
Config(id, addr, reply) ==
  \/ /\ ~(Known(id, addr) /\ clients[id].stage # "WaitingKey")
     /\ reply = "MSTNAK" /\ UNCHANGED clients
  \/ /\ Known(id, addr) /\ clients[id].stage # "WaitingKey"
     /\ Enter(id, "Running") /\ reply = "RPTACK"

\* RPTO is always acknowledged.
Options(id, addr, reply) ==
  /\ reply = "RPTACK"
  /\ IF Known(id, addr) THEN Enter(id, "Running") ELSE UNCHANGED clients

\* RPTPING
Ping(id, addr, reply) ==
  \/ /\ Known(id, addr) /\ clients[id].stage = "Running"
     /\ Enter(id, "Running") /\ reply = "MSTPONG"
  \/ /\ ~(Known(id, addr) /\ clients[id].stage = "Running")
     /\ reply = "MSTNAK" /\ UNCHANGED clients

\* RPTCL: its first four bytes are RPTC and it is long enough for one, so it
\* is taken for the configuration of a client whose number is "L" and three
\* bytes of the real one.  No such client is in the table.
Close(reply) == reply = "MSTNAK" /\ UNCHANGED clients

-----------------------------------------------------------------------------
(* DMRD: the frame is let in under one lock, LastSeen is set under another,*)
(* and then the frame goes to the bridge.                                  *)

Frame(id, addr) ==
  /\ framing = {}
  /\ Known(id, addr) /\ Live(id) /\ clients[id].stage = "Running"
  /\ framing' = {id}
  /\ UNCHANGED clients

FrameSeen(id) ==
  /\ id \in framing
  /\ framing' = {}
  /\ clients' = IF id \in DOMAIN clients THEN [clients EXCEPT ![id].age = 0]
                ELSE clients

\* handleLocalMasterStatus removes old entries.
Status == clients' = LiveOnes /\ UNCHANGED framing

Age ==
  /\ clients' = [id \in DOMAIN clients |->
                   [clients[id] EXCEPT !.age = IF @ > StaleTicks THEN @ ELSE @ + 1]]
  /\ UNCHANGED framing

\* The goroutine that reads packets is not busy with a frame.
Control == framing = {} /\ UNCHANGED framing

MasterNext ==
  \/ \E id \in Ids, addr \in Addresses, reply \in {"RPTACK", "MSTNAK", "MSTPONG"} :
       Control /\ \/ \E salt \in Salts : Login(id, addr, salt, reply)
                  \/ \E key \in Salts \cup {WrongKey} : Key(id, addr, key, reply)
                  \/ Config(id, addr, reply)
                  \/ Options(id, addr, reply)
                  \/ Ping(id, addr, reply)
                  \/ Close(reply)
  \/ \E id \in Ids, addr \in Addresses : Frame(id, addr)
  \/ \E id \in Ids : FrameSeen(id)
  \/ Status \/ Age

MasterSpec == MasterInit /\ [][MasterNext]_masterVars

-----------------------------------------------------------------------------
\* A linked client that has been heard of lately is never dropped: not by the
\* search for room when a new one logs in, not by the status page, and not by
\* another client's login, key or configuration.
LinkedIsKept ==
  [][\A id \in DOMAIN clients :
       Live(id) /\ clients[id].stage = "Running" => id \in DOMAIN clients']_masterVars
=============================================================================
