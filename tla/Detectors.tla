------------------------------ MODULE Detectors ------------------------------
(***************************************************************************)
(* The log monitors and the network monitor of one cycle, side by side:    *)
(* they share the ban pool and the export queue and nothing else.          *)
(***************************************************************************)
EXTENDS LogMonitor, NetworkMonitor

vars == <<live, logVars, netVars, banned, bans, notices>>

Init == JailInit /\ LogInit /\ NetInit /\ live = TRUE

(* The context is cancelled: the sources close their channels and the      *)
(* ring buffer is closed.                                                  *)
Cancel ==
    /\ live
    /\ live' = FALSE
    /\ UNCHANGED <<logVars, netVars, banned, bans, notices>>

NetDone ==
    /\ ~live /\ npc = "read"
    /\ npc' = "done"
    /\ UNCHANGED <<live, logVars, banned, bans, notices, packets, ring, ports, event, loaded,
                   attached, scan, announce, tried>>

Next ==
    \/ LogNext /\ UNCHANGED netVars
    \/ NetLoop /\ UNCHANGED <<logVars, live>>
    \/ NetClear /\ UNCHANGED <<logVars, live>>
    \/ \E ip \in IPs, port \in Ports : live /\ Packet(ip, port) /\ UNCHANGED <<logVars, live>>
    \/ Lift /\ UNCHANGED <<logVars, netVars, live>>
    \/ Cancel
    \/ NetDone

Spec == Init /\ [][Next]_vars

-----------------------------------------------------------------------------
(* The types of the loops' locals and of the maps they keep. *)
TypeOK ==
    /\ banned \subseteq IPs
    /\ \A m \in LogMonitors :
        /\ Len(logChan[m]) <= LogChanSize
        /\ counters[m] \in [IPs -> 0 .. Tries - 1]
        /\ lpc[m] \in {"next", "judge", "report", "store", "done"}
        /\ counter[m] \in 0 .. Tries
    /\ ports \in [IPs -> SUBSET (Ports \ (WhitelistPorts \cup BlacklistPorts))]
    /\ npc \in {"read", "add", "report", "announce", "done"}
    /\ loaded \subseteq Ports

(***************************************************************************)
(* A log monitor takes an address for an offender only after Tries hits of *)
(* that address since the window began, none of them used up by an earlier *)
(* alarm; only the one address whose line the loop was counting when       *)
(* clearMaps ran may bring older hits along.                               *)
(***************************************************************************)
AlarmNeedsTries ==
    \A m \in LogMonitors : lpc[m] = "judge" => counter[m] <= hits[m][lip[m]]

(***************************************************************************)
(* "how many hits within the window get the ip banned": the hits of an     *)
(* offender are all of the window that was running when the last of them   *)
(* was counted.                                                            *)
(***************************************************************************)
AlarmWithinWindow ==
    \A m \in LogMonitors : (lpc[m] = "judge" /\ Offends(m)) => fresh[m][lip[m]] >= Tries

(***************************************************************************)
(* A scan is reported only for PortsCount different ports that one address *)
(* really tried in the window and since its last report.  On a little-     *)
(* endian host it is not the reported address: the reported address and    *)
(* ports are the real ones with their bytes reversed.                      *)
(***************************************************************************)
ScanNeedsPorts ==
    npc = "report" /\ scan =>
        /\ {AsRead(port) : port \in loaded} \subseteq tried[AsRead(event.ip)]
        /\ Cardinality(tried[AsRead(event.ip)]) >= PortsCount

(***************************************************************************)
(* Every new ban is announced by exactly one ip_ban event, also when       *)
(* several monitors go after the same address at once.                     *)
(***************************************************************************)
OneNoticePerBan ==
    \A ip \in IPs :
        bans[ip] = notices[ip]
                   + Cardinality({m \in LogMonitors : isNewBan[m] /\ lip[m] = ip})
                   + Cardinality(announce \cap {ip})

(***************************************************************************)
(* No monitor has an address of ip_whitelist banned, whichever of the two  *)
(* paths to BanIP it takes and whoever sent the packets.                   *)
(***************************************************************************)
WhitelistedNeverBanned == banned \cap WhiteList = {}
=============================================================================
