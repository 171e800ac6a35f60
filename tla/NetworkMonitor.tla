--------------------------- MODULE NetworkMonitor ---------------------------
(***************************************************************************)
(* pkg/ebpfmonitors/network_monitor.go and its XDP program: TCP SYN        *)
(* packets reach the loop of Run through a ring buffer; the loop keeps, in *)
(* a sync.Map, the set of ports each address has tried; clearMap empties   *)
(* the map at the end of every window.  The map holds references: a set    *)
(* that Run has loaded goes on living after it was cleared away.           *)
(*                                                                         *)
(* An address or a port is the sequence of its bytes as they are in the    *)
(* packet, the most significant one first.                                 *)
(***************************************************************************)
EXTENDS Jail, Sequences, SequencesExt, FiniteSets

CONSTANTS
    LittleEndian,   \* the host's byte order
    Ports,
    WhitelistPorts, BlacklistPorts,
    PortsCount,     \* distinct ports that make a scan; 0: never
    NetBlocker,     \* blocker mode
    MaxPackets,     \* bound: SYN packets
    RingSize        \* bound: records in the ring buffer

ASSUME NetworkMonitorAssumption ==
    /\ LittleEndian \in BOOLEAN
    /\ \A ip \in IPs : ip \in Seq(0 .. 255) /\ Reverse(ip) \in IPs
    /\ \A port \in Ports : port \in Seq(0 .. 255) /\ Reverse(port) \in Ports
    /\ WhitelistPorts \subseteq Ports /\ BlacklistPorts \subseteq Ports
    /\ PortsCount \in Nat
    /\ NetBlocker \in BOOLEAN
    /\ MaxPackets \in Nat /\ RingSize \in Nat \ {0}

VARIABLES
    packets,    \* packets that may still arrive
    ring,       \* the ring buffer
    ports,      \* ipPortsMap; an address that is not there has no port
    npc,        \* the loop: read, add, report, announce, done
    event,      \* the record in hand, as parseEvent read it
    loaded,     \* the set that was loaded for it
    attached,   \* that set is still the one in the map
    scan,       \* the report is about a scan, not about a blacklisted port
    announce,   \* a new ban whose ip_ban has not been exported yet
    tried       \* history: ports each address really tried in this window, since its
                \* last scan report

netVars == <<packets, ring, ports, npc, event, loaded, attached, scan, announce, tried>>

NoEvent == [ip |-> "none", port |-> "none"]

(***************************************************************************)
(* The XDP program converts with bpf_ntohl and bpf_ntohs and stores the    *)
(* numbers in the byte order of the host; parseEvent reads the bytes with  *)
(* binary.BigEndian.  On a little-endian host they come out reversed.      *)
(***************************************************************************)
AsRead(bytes) == IF LittleEndian THEN Reverse(bytes) ELSE bytes
parseEvent(record) == [ip |-> AsRead(record.ip), port |-> AsRead(record.port)]

(* The loop holds a record of an address that reads as source's does. *)
InHand(source) == /\ npc = "add" \/ (npc = "report" /\ scan)
                  /\ event.ip = AsRead(source)

(* The maps before the first record; a Run that cannot load the program or *)
(* open the ring buffer returns before this and detects nothing.           *)
NetInit ==
    /\ packets = MaxPackets
    /\ ring = <<>>
    /\ ports = [ip \in IPs |-> {}]
    /\ npc = "read"
    /\ event = NoEvent /\ loaded = {} /\ attached = FALSE /\ scan = FALSE
    /\ announce = {}
    /\ tried = [ip \in IPs |-> {}]

(* xdp_network_monitor: a SYN is recorded, or lost when the buffer is full. *)
Packet(ip, port) ==
    /\ packets > 0
    /\ packets' = packets - 1
    /\ ring' = IF Len(ring) < RingSize THEN Append(ring, [ip |-> ip, port |-> port]) ELSE ring
    /\ UNCHANGED <<ports, npc, event, loaded, attached, scan, announce, tried,
                   banned, bans, notices>>

(* Read: a port that reads as a whitelisted one is skipped, as a blacklisted one *)
(* is reported at once; for another one LoadOrStore finds the address's set.     *)
NetRead ==
    LET packet == Head(ring)
        e == parseEvent(packet)
    IN  /\ npc = "read" /\ ring # <<>>
        /\ ring' = Tail(ring)
        /\ \/ /\ e.port \in WhitelistPorts
              /\ UNCHANGED <<npc, event, loaded, attached, tried>>
           \/ /\ e.port \in BlacklistPorts \ WhitelistPorts
              /\ npc' = "report" /\ event' = e
              /\ UNCHANGED <<loaded, attached, tried>>
           \/ /\ e.port \notin WhitelistPorts \cup BlacklistPorts
              /\ npc' = "add" /\ event' = e
              /\ loaded' = ports[e.ip] /\ attached' = TRUE
              /\ tried' = [tried EXCEPT ![packet.ip] = @ \cup {packet.port}]
        /\ UNCHANGED <<packets, ports, scan, announce, banned, bans, notices>>

(* The loop is ready for the next record. *)
NetNextRecord == /\ npc' = "read" /\ event' = NoEvent
                 /\ loaded' = {} /\ attached' = FALSE /\ scan' = FALSE

(* The port goes into the loaded set, which may have left the map meanwhile: *)
(* then it counts in the window that is over.                                *)
NetAdd ==
    LET set == loaded \cup {event.port}
    IN  /\ npc = "add"
        /\ ports' = IF attached THEN [ports EXCEPT ![event.ip] = set] ELSE ports
        /\ \/ /\ PortsCount > 0 /\ Cardinality(set) >= PortsCount
              /\ npc' = "report" /\ scan' = TRUE /\ loaded' = set
              /\ UNCHANGED <<event, attached, tried>>
           \/ /\ ~(PortsCount > 0 /\ Cardinality(set) >= PortsCount)
              /\ tried' = IF attached THEN tried ELSE [tried EXCEPT ![AsRead(event.ip)] = {}]
              /\ NetNextRecord
        /\ UNCHANGED <<packets, ring, announce, banned, bans, notices>>

(* report: BanIP in blocker mode, quiet about an error or an old ban; *)
(* after a scan the address's set is deleted.                         *)
NetReport ==
    /\ npc = "report"
    /\ \E new \in BOOLEAN :
        /\ IF NetBlocker THEN BanIP(event.ip, new)
           ELSE new = FALSE /\ UNCHANGED <<banned, bans>>
        /\ announce' = IF new THEN {event.ip} ELSE {}
    /\ npc' = "announce"
    /\ UNCHANGED <<packets, ring, ports, event, loaded, attached, scan, tried, notices>>

(* Seeded fault: the ports of a reported scan are kept. *)
NetAnnounceKeepingPorts ==
    /\ npc = "announce"
    /\ IF announce = {} THEN UNCHANGED notices ELSE ExportBan(event.ip)
    /\ announce' = {}
    /\ tried' = IF scan THEN [tried EXCEPT ![AsRead(event.ip)] = {}] ELSE tried
    /\ NetNextRecord
    /\ UNCHANGED <<packets, ring, ports, banned, bans>>

(* logFunction: the alert and ip_ban; then the scan's Delete. *)
NetAnnounce ==
    /\ npc = "announce"
    /\ IF announce = {} THEN UNCHANGED notices ELSE ExportBan(event.ip)
    /\ announce' = {}
    /\ IF scan
       THEN /\ ports' = [ports EXCEPT ![event.ip] = {}]
            /\ tried' = [tried EXCEPT ![AsRead(event.ip)] = {}]
       ELSE UNCHANGED <<ports, tried>>
    /\ NetNextRecord
    /\ UNCHANGED <<packets, ring, banned, bans>>

(* clearMap; its timer and a cancelled context race. *)
NetClear ==
    /\ ports' = [ip \in IPs |-> {}]
    /\ attached' = FALSE
    /\ tried' = [ip \in IPs |-> IF InHand(ip) THEN tried[ip] ELSE {}]
    /\ UNCHANGED <<packets, ring, npc, event, loaded, scan, announce,
                   banned, bans, notices>>

NetLoop == NetRead \/ NetAdd \/ NetReport \/ NetAnnounce
=============================================================================
