-------------------------------- MODULE Jail --------------------------------
(***************************************************************************)
(* What the ban pool promises its callers, the monitors: BanIP puts an     *)
(* address in jail, tells whether it was there already, or fails and       *)
(* changes nothing they can see; a ban ends by itself.  BanPool is the     *)
(* implementation.                                                         *)
(***************************************************************************)
EXTENDS Integers

CONSTANTS IPs, MaxBans      \* MaxBans bounds the bans of one address

ASSUME JailAssumption == MaxBans \in Nat

VARIABLES
    banned,     \* the addresses in jail
    bans,       \* history: how often an address was put there
    notices     \* history: calls of export with ip_ban for it

JailInit == /\ banned = {}
            /\ bans = [ip \in IPs |-> 0]
            /\ notices = [ip \in IPs |-> 0]

(* BanIP; isNew is what its callers derive: no error and not alreadyBanned. *)
BanIP(ip, isNew) ==
    \/ /\ ip \notin banned /\ bans[ip] < MaxBans
       /\ isNew = TRUE
       /\ banned' = banned \cup {ip}
       /\ bans' = [bans EXCEPT ![ip] = @ + 1]
    \/ isNew = FALSE /\ UNCHANGED <<banned, bans>>

(* waitUnban or RestoreBans lifts a ban. *)
Lift == /\ \E ip \in banned : banned' = banned \ {ip}
        /\ UNCHANGED <<bans, notices>>

(* A call of export with the ip_ban event of a new ban.  With the exporter *)
(* disabled export returns at once, and a full queue drops the event:      *)
(* Connector models the queue.                                             *)
ExportBan(ip) == notices' = [notices EXCEPT ![ip] = @ + 1]
=============================================================================
