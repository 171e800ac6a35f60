--------------------------- MODULE DetectorsProofs ---------------------------
(***************************************************************************)
(* Proofs about Detectors for every set of addresses, ports and monitors   *)
(* and every limit: the counters of the log monitors, the port sets of     *)
(* the network monitor and the bans the two share.                         *)
(***************************************************************************)
EXTENDS Detectors, FiniteSetTheorems, SequenceTheorems, TLAPS

(* The types of everything the loops share or keep. *)
LogTyped ==
    /\ logChan \in [LogMonitors -> Seq(IPs \cup {NoIP})]
    /\ \A m \in LogMonitors : Len(logChan[m]) <= LogChanSize
    /\ counters \in [LogMonitors -> [IPs -> 0 .. Tries - 1]]
    /\ lpc \in [LogMonitors -> {"next", "judge", "report", "store", "done"}]
    /\ lip \in [LogMonitors -> IPs \cup {NoIP}]
    /\ counter \in [LogMonitors -> 0 .. Tries]
    /\ isNewBan \in [LogMonitors -> BOOLEAN]
    /\ hits \in [LogMonitors -> [IPs -> Nat]]

JailTyped ==
    /\ banned \subseteq IPs
    /\ bans \in [IPs -> Nat] /\ notices \in [IPs -> Nat]

Unlisted == Ports \ (WhitelistPorts \cup BlacklistPorts)
Records  == [ip : IPs, port : Ports]

NetTyped ==
    /\ ring \in Seq(Records)
    /\ ports \in [IPs -> SUBSET Unlisted] /\ tried \in [IPs -> SUBSET Ports]
    /\ npc \in {"read", "add", "report", "announce", "done"}
    /\ event \in Records \cup {NoEvent}
    /\ loaded \subseteq Unlisted
    /\ attached \in BOOLEAN /\ scan \in BOOLEAN
    /\ announce \subseteq IPs

(***************************************************************************)
(* Where the loop of a log monitor is, and how its counters compare with   *)
(* the hits that may count: only between an alarm and Store does the *)
(* map still hold the counter that the alarm used up.                      *)
(***************************************************************************)
CountsOf(m) ==
    /\ lpc[m] \in {"judge", "report", "store"} => lip[m] \in IPs
    /\ lpc[m] = "report" => counter[m] = 0
    /\ lpc[m] = "store" => counter[m] <= Tries - 1
    /\ lpc[m] \in {"judge", "store"} => counter[m] <= hits[m][lip[m]]
    /\ isNewBan[m] => lpc[m] = "report"
    /\ \A ip \in IPs :
          \/ counters[m][ip] <= hits[m][ip]
          \/ lpc[m] \in {"report", "store"} /\ ip = lip[m]

LogCounts == \A m \in LogMonitors : CountsOf(m)

(***************************************************************************)
(* The loop of the network monitor: what it has loaded for an address are  *)
(* ports that the address with the reversed bytes really tried, in the map *)
(* or out of it.                                                           *)
(***************************************************************************)
ReallyTried(set, ip) == \A port \in set : AsRead(port) \in tried[AsRead(ip)]

NetCounts ==
    /\ npc \in {"add", "report", "announce"} => event \in Records
    /\ npc = "add" => event.port \in Unlisted /\ ~scan
    /\ (npc = "add" /\ ~attached) => ports[event.ip] = {}
    /\ npc = "read" => ~scan
    /\ npc = "add" => ReallyTried({event.port}, event.ip)
    /\ \A ip \in IPs : ReallyTried(ports[ip], ip) /\ IsFiniteSet(tried[ip])
    /\ npc = "add" \/ (npc = "report" /\ scan) => ReallyTried(loaded, event.ip)
    /\ npc = "report" /\ scan => Cardinality(loaded) >= PortsCount
    /\ announce # {} => npc = "announce" /\ announce = {event.ip}

(* The log monitors that are between a new ban of ip and its ip_ban. *)
Announcing(ip) == {m \in LogMonitors : isNewBan[m] /\ lip[m] = ip}

IInv == LogTyped /\ JailTyped /\ NetTyped /\ LogCounts /\ NetCounts /\ OneNoticePerBan

-----------------------------------------------------------------------------
(* The log monitors. *)

LEMMA LogStepTyped ==
    ASSUME LogTyped, LogCounts, LogNext
    PROVE  LogTyped'
  <1> USE DEF LogTyped
  <1>0. Tries \in Nat \ {0} /\ LogChanSize \in Nat
    BY LogMonitorAssumption
  <1>1. ASSUME NEW m \in LogMonitors, NEW ip \in IPs \cup {NoIP}, SourceLine(m, ip) PROVE LogTyped'
    <2>1. /\ Append(logChan[m], ip) \in Seq(IPs \cup {NoIP})
          /\ Len(Append(logChan[m], ip)) = Len(logChan[m]) + 1 /\ Len(logChan[m]) \in Nat
      BY AppendProperties, LenProperties
    <2>2. /\ logChan' \in [LogMonitors -> Seq(IPs \cup {NoIP})]
          /\ \A x \in LogMonitors : Len(logChan'[x]) <= LogChanSize
      BY <1>0, <1>1, <2>1 DEF SourceLine
    <2> QED
      BY <1>1, <2>2 DEF SourceLine
  <1>2. ASSUME NEW m \in LogMonitors, logChan[m] # <<>>, logChan' = [logChan EXCEPT ![m] = Tail(@)]
        PROVE  /\ logChan' \in [LogMonitors -> Seq(IPs \cup {NoIP})]
               /\ \A x \in LogMonitors : Len(logChan'[x]) <= LogChanSize
               /\ Head(logChan[m]) \in IPs \cup {NoIP}
    <2>1. /\ Tail(logChan[m]) \in Seq(IPs \cup {NoIP}) /\ Len(Tail(logChan[m])) = Len(logChan[m]) - 1
          /\ Head(logChan[m]) \in IPs \cup {NoIP} /\ Len(logChan[m]) \in Nat
      BY <1>2, HeadTailProperties, LenProperties
    <2> QED
      BY <1>0, <1>2, <2>1
  <1>3. ASSUME NEW m \in LogMonitors, LogSkip(m) PROVE LogTyped'
    BY <1>2, <1>3 DEF LogSkip
  <1>4. ASSUME NEW m \in LogMonitors, LogLoad(m) PROVE LogTyped'
    <2> DEFINE ip == Head(logChan[m])
    <2>1. /\ logChan' \in [LogMonitors -> Seq(IPs \cup {NoIP})]
          /\ \A x \in LogMonitors : Len(logChan'[x]) <= LogChanSize
          /\ ip \in IPs
      BY <1>2, <1>4 DEF LogLoad
    <2>2. counters[m][ip] + 1 \in 0 .. Tries
      BY <1>0, <2>1
    <2>3. counter' \in [LogMonitors -> 0 .. Tries]
      BY <1>4, <2>2 DEF LogLoad
    <2>4. hits' \in [LogMonitors -> [IPs -> Nat]]
      BY <1>4, <2>1 DEF LogLoad
    <2>5. lip' \in [LogMonitors -> IPs \cup {NoIP}] /\ UNCHANGED <<counters, isNewBan>>
      BY <1>4, <2>1 DEF LogLoad
    <2>6. lpc' \in [LogMonitors -> {"next", "judge", "report", "store", "done"}]
      BY <1>4 DEF LogLoad
    <2> QED
      BY <2>1, <2>3, <2>4, <2>5, <2>6
  <1>5. ASSUME NEW m \in LogMonitors, LogJudge(m) PROVE LogTyped'
    <2>0. lip[m] \in IPs
      BY <1>5 DEF LogJudge, LogCounts, CountsOf
    <2>1. UNCHANGED <<logChan, counters, lip>>
      BY <1>5 DEF LogJudge
    <2>2. lpc' \in [LogMonitors -> {"next", "judge", "report", "store", "done"}]
      BY <1>5 DEF LogJudge
    <2>3. counter' \in [LogMonitors -> 0 .. Tries]
      <3>1. counter' = counter \/ counter' = [counter EXCEPT ![m] = 0]
        BY <1>5 DEF LogJudge
      <3>2. CASE counter' = [counter EXCEPT ![m] = 0]
        BY <1>0, <3>2
      <3> QED
        BY <3>1, <3>2
    <2>4. isNewBan' \in [LogMonitors -> BOOLEAN]
      BY <1>5 DEF LogJudge
    <2>5. hits' \in [LogMonitors -> [IPs -> Nat]]
      <3>1. hits' = hits \/ hits' = [hits EXCEPT ![m][lip[m]] = 0]
        BY <1>5 DEF LogJudge
      <3>2. CASE hits' = [hits EXCEPT ![m][lip[m]] = 0]
        BY <2>0, <3>2
      <3> QED
        BY <3>1, <3>2
    <2> QED
      BY <2>1, <2>2, <2>3, <2>4, <2>5
  <1>6. ASSUME NEW m \in LogMonitors, LogReport(m) PROVE LogTyped'
    BY <1>6 DEF LogReport
  <1>7. ASSUME NEW m \in LogMonitors, LogStore(m) PROVE LogTyped'
    <2>1. counter[m] \in 0 .. Tries - 1
      BY <1>0, <1>7 DEF LogStore, LogCounts, CountsOf
    <2>2. counters' \in [LogMonitors -> [IPs -> 0 .. Tries - 1]]
      BY <1>7, <2>1 DEF LogStore
    <2>3. counter' \in [LogMonitors -> 0 .. Tries]
      BY <1>0, <1>7 DEF LogStore
    <2> QED
      BY <1>7, <2>2, <2>3 DEF LogStore
  <1>8. ASSUME NEW m \in LogMonitors, LogClear(m) PROVE LogTyped'
    <2>1. Zero \in [IPs -> 0 .. Tries - 1]
      BY <1>0 DEF Zero
    <2>2. hits' \in [LogMonitors -> [IPs -> Nat]]
      BY <1>8 DEF LogClear, NewWindow
    <2>3. counters' \in [LogMonitors -> [IPs -> 0 .. Tries - 1]]
      BY <1>8, <2>1 DEF LogClear
    <2>4. UNCHANGED <<logChan, lpc, lip, counter, isNewBan>>
      BY <1>8 DEF LogClear
    <2> QED
      BY <2>2, <2>3, <2>4
  <1>9. ASSUME NEW m \in LogMonitors, LogDone(m) PROVE LogTyped'
    BY <1>9 DEF LogDone
  <1> QED
    BY <1>1, <1>3, <1>4, <1>5, <1>6, <1>7, <1>8, <1>9 DEF LogNext, LogLoop

LEMMA LogStepCounts ==
    ASSUME LogTyped, LogCounts, LogNext
    PROVE  LogCounts'
  <1> USE DEF LogTyped
  <1>0. Tries \in Nat \ {0}
    BY LogMonitorAssumption
  <1>1. \A x \in LogMonitors : CountsOf(x)
    BY DEF LogCounts
  <1>3. ASSUME NEW m \in LogMonitors, CountsOf(m)',
               \A x \in LogMonitors \ {m} :
                  /\ lpc'[x] = lpc[x] /\ lip'[x] = lip[x] /\ counter'[x] = counter[x]
                  /\ hits'[x] = hits[x] /\ isNewBan'[x] = isNewBan[x]
                  /\ counters'[x] = counters[x]
        PROVE  LogCounts'
    <2> HIDE DEF LogTyped
    <2>1. ASSUME NEW x \in LogMonitors, x # m PROVE CountsOf(x)'
      <3>1. /\ lpc'[x] = lpc[x] /\ lip'[x] = lip[x] /\ counter'[x] = counter[x]
            /\ hits'[x] = hits[x] /\ isNewBan'[x] = isNewBan[x]
            /\ counters'[x] = counters[x]
        BY <1>3, <2>1
      <3>2. CountsOf(x)
        BY <1>1
      <3> QED
        BY <3>1, <3>2 DEF CountsOf
    <2> QED
      BY <1>3, <2>1 DEF LogCounts
  <1>4. ASSUME NEW m \in LogMonitors,
               (\E ip \in IPs \cup {NoIP} : SourceLine(m, ip)) \/ LogSkip(m)
        PROVE  LogCounts'
    <2>1. UNCHANGED <<counters, lpc, lip, counter, isNewBan, hits>>
      BY <1>4 DEF SourceLine, LogSkip
    <2> HIDE DEF LogTyped
    <2> QED
      BY <1>1, <2>1 DEF LogCounts, CountsOf
  <1>5. ASSUME NEW m \in LogMonitors, LogLoad(m) PROVE LogCounts'
    <2> DEFINE ip == Head(logChan[m])
    <2>1. ip \in IPs
      <3>1. logChan[m] # <<>> /\ ip # NoIP
        BY <1>5 DEF LogLoad
      <3>2. ip \in IPs \cup {NoIP}
        BY <3>1, HeadTailProperties
      <3> QED
        BY <3>1, <3>2
    <2>2. /\ lpc[m] = "next" /\ lpc'[m] = "judge" /\ lip'[m] = ip
          /\ counter'[m] = counters[m][ip] + 1
          /\ UNCHANGED <<counters, isNewBan>>
      BY <1>5 DEF LogLoad
    <2>3. hits'[m] = [hits[m] EXCEPT ![ip] = @ + 1]
      BY <1>5 DEF LogLoad
    <2>4. /\ hits'[m][ip] = hits[m][ip] + 1
          /\ \A j \in IPs : j # ip => hits'[m][j] = hits[m][j]
      BY <2>1, <2>3
    <2>7. \A j \in IPs : counters[m][j] \in Nat /\ hits[m][j] \in Nat
      BY <1>0
    <2>8. \A j \in IPs : counters[m][j] <= hits[m][j]
      BY <1>1, <2>2 DEF CountsOf
    <2>9. ~isNewBan[m]
      BY <1>1, <2>2 DEF CountsOf
    <2>5. CountsOf(m)'
      <3> HIDE DEF LogTyped
      <3>1. \A j \in IPs : counters'[m][j] <= hits'[m][j]
        BY <2>1, <2>2, <2>4, <2>7, <2>8
      <3>2. counter'[m] <= hits'[m][ip]
        BY <2>1, <2>2, <2>4, <2>7, <2>8
      <3> HIDE DEF ip
      <3> QED
        BY <2>1, <2>2, <2>9, <3>1, <3>2 DEF CountsOf
    <2>6. \A x \in LogMonitors \ {m} :
                  /\ lpc'[x] = lpc[x] /\ lip'[x] = lip[x] /\ counter'[x] = counter[x]
                  /\ hits'[x] = hits[x]
      BY <1>5 DEF LogLoad
    <2> QED
      BY <1>3, <2>2, <2>5, <2>6
  <1>6. ASSUME NEW m \in LogMonitors, LogJudge(m) PROVE LogCounts'
    <2>1. lip[m] \in IPs /\ lpc[m] = "judge" /\ counter[m] <= hits[m][lip[m]] /\ ~isNewBan[m]
      BY <1>1, <1>6 DEF LogJudge, CountsOf
    <2>2. CASE ~Offends(m)
      <3>1. /\ lpc'[m] = "store" /\ UNCHANGED <<counter, counters, lip, hits, isNewBan>>
            /\ counter[m] <= Tries - 1
        BY <1>0, <1>6, <2>2 DEF LogJudge, Offends
      <3>2. CountsOf(m)'
        BY <1>1, <2>1, <3>1 DEF CountsOf
      <3> QED
        BY <1>3, <1>6, <2>2, <3>1, <3>2 DEF LogJudge
    <2>3. CASE Offends(m)
      <3>1. /\ lpc'[m] = "report" /\ counter'[m] = 0 /\ UNCHANGED <<counters, lip>>
            /\ \A j \in IPs : j # lip[m] => hits'[m][j] = hits[m][j]
        BY <1>6, <2>1, <2>3 DEF LogJudge
      <3>2. CountsOf(m)'
        BY <1>1, <2>1, <3>1 DEF CountsOf
      <3>3. \A x \in LogMonitors \ {m} :
                  /\ lpc'[x] = lpc[x] /\ counter'[x] = counter[x]
                  /\ hits'[x] = hits[x] /\ isNewBan'[x] = isNewBan[x]
        BY <1>6, <2>3 DEF LogJudge
      <3> QED
        BY <1>3, <3>1, <3>2, <3>3
    <2> QED
      BY <2>2, <2>3
  <1>7. ASSUME NEW m \in LogMonitors, LogReport(m) PROVE LogCounts'
    <2>1. /\ lpc[m] = "report" /\ lpc'[m] = "store" /\ isNewBan'[m] = FALSE
          /\ UNCHANGED <<counters, lip, counter, hits>>
      BY <1>7 DEF LogReport
    <2>2. counter[m] = 0 /\ lip[m] \in IPs
      BY <1>1, <2>1 DEF CountsOf
    <2>3. CountsOf(m)'
      BY <1>0, <1>1, <2>1, <2>2 DEF CountsOf
    <2> QED
      BY <1>3, <1>7, <2>1, <2>3 DEF LogReport
  <1>8. ASSUME NEW m \in LogMonitors, LogStore(m) PROVE LogCounts'
    <2>1. /\ lpc[m] = "store" /\ lpc'[m] = "next" /\ UNCHANGED <<isNewBan, hits>>
          /\ counters'[m] = [counters[m] EXCEPT ![lip[m]] = counter[m]]
      BY <1>8 DEF LogStore
    <2>2. counter[m] <= hits[m][lip[m]] /\ lip[m] \in IPs
      BY <1>1, <2>1 DEF CountsOf
    <2>3. CountsOf(m)'
      BY <1>1, <2>1, <2>2 DEF CountsOf
    <2> QED
      BY <1>3, <1>8, <2>1, <2>3 DEF LogStore
  <1>9. ASSUME NEW m \in LogMonitors, LogClear(m) PROVE LogCounts'
    <2>1. /\ \A ip \in IPs : counters'[m][ip] = 0
          /\ UNCHANGED <<lpc, lip, counter, isNewBan>>
      BY <1>9 DEF LogClear, Zero
    <2>2. /\ \A ip \in IPs : hits'[m][ip] = IF ip = lip[m] THEN hits[m][ip] ELSE 0
          /\ \A x \in LogMonitors \ {m} : hits'[x] = hits[x]
      BY <1>9 DEF LogClear, NewWindow
    <2>3. \A ip \in IPs : hits[m][ip] \in Nat
      OBVIOUS
    <2>4. CountsOf(m)'
      <3>1. CountsOf(m)
        BY <1>1
      <3>2. \A ip \in IPs : counters'[m][ip] <= hits'[m][ip]
        <4>1. \A ip \in IPs : hits'[m][ip] \in Nat
          BY <2>2, <2>3
        <4>2. \A n \in Nat : 0 <= n
          OBVIOUS
        <4> HIDE DEF LogTyped
        <4> QED
          BY <2>1, <4>1, <4>2
      <3> HIDE DEF LogTyped
      <3> QED
        BY <2>1, <2>2, <3>1, <3>2 DEF CountsOf
    <2> QED
      BY <1>3, <1>9, <2>1, <2>2, <2>4 DEF LogClear
  <1>10. ASSUME NEW m \in LogMonitors, LogDone(m) PROVE LogCounts'
    <2>1. /\ lpc[m] = "next" /\ lpc'[m] = "done"
          /\ UNCHANGED <<counters, lip, counter, isNewBan, hits>>
      BY <1>10 DEF LogDone
    <2>2. CountsOf(m)'
      BY <1>1, <2>1 DEF CountsOf
    <2> QED
      BY <1>3, <1>10, <2>1, <2>2 DEF LogDone
  <1> QED
    BY <1>4, <1>5, <1>6, <1>7, <1>8, <1>9, <1>10 DEF LogNext, LogLoop

-----------------------------------------------------------------------------
(* The network monitor. *)

LEMMA ReverseTwice ==
    ASSUME NEW bytes \in Seq(0 .. 255)
    PROVE  Reverse(Reverse(bytes)) = bytes
  <1> DEFINE back == Reverse(bytes)
  <1>1. Len(bytes) \in Nat /\ bytes = [i \in 1 .. Len(bytes) |-> bytes[i]]
    OBVIOUS
  <1>2. back = [i \in 1 .. Len(bytes) |-> bytes[(Len(bytes) - i) + 1]]
    BY DEF Reverse
  <1>3. back \in Seq(0 .. 255) /\ Len(back) = Len(bytes)
    <2>1. \A i \in 1 .. Len(bytes) : bytes[i] \in 0 .. 255 /\ (Len(bytes) - i) + 1 \in 1 .. Len(bytes)
      BY <1>1, ElementOfSeq
    <2>2. back \in [1 .. Len(bytes) -> 0 .. 255]
      BY <1>2, <2>1
    <2> HIDE DEF back
    <2>3. back \in Seq(0 .. 255)
      <3>1. \E n \in Nat : back \in [1 .. n -> 0 .. 255]
        BY <1>1, <2>2
      <3>2. back \in UNION {[1 .. n -> 0 .. 255] : n \in Nat}
        BY <3>1, Zenon
      <3> QED
        BY <3>2, SeqDef, Zenon
    <2>4. Len(back) \in Nat /\ DOMAIN back = 1 .. Len(back)
      BY <2>3, LenProperties
    <2>5. 1 .. Len(back) = 1 .. Len(bytes)
      <3>1. DOMAIN back = 1 .. Len(bytes)
        BY <2>2
      <3> QED
        BY <2>4, <3>1, Zenon
    <2>6. \A n, m \in Nat : 1 .. n = 1 .. m => n = m
      <3> SUFFICES ASSUME NEW n \in Nat, NEW m \in Nat, 1 .. n = 1 .. m PROVE n = m
        OBVIOUS
      <3>1. \A k \in Int : k \in 1 .. n <=> k \in 1 .. m
        OBVIOUS
      <3>2. (n > 0 => n \in 1 .. m) /\ (m > 0 => m \in 1 .. n)
        BY <3>1
      <3> QED
        BY <3>2
    <2> QED
      BY <1>1, <2>3, <2>4, <2>5, <2>6
  <1>4. \A i \in 1 .. Len(bytes) : back[(Len(bytes) - i) + 1] = bytes[i]
    BY <1>1, <1>2
  <1>5. Reverse(back) = [i \in 1 .. Len(bytes) |-> back[(Len(bytes) - i) + 1]]
    BY <1>3 DEF Reverse
  <1> QED
    BY <1>1, <1>4, <1>5

(* Reading twice with the wrong byte order gives the number back. *)
LEMMA AsReadTwice ==
    /\ \A ip \in IPs : AsRead(ip) \in IPs /\ AsRead(AsRead(ip)) = ip
    /\ \A port \in Ports : AsRead(port) \in Ports /\ AsRead(AsRead(port)) = port
  BY NetworkMonitorAssumption, ReverseTwice DEF AsRead

LEMMA Parsed ==
    ASSUME NEW r \in Records
    PROVE  /\ parseEvent(r) \in Records
           /\ r.ip \in IPs /\ r.port \in Ports
           /\ parseEvent(r).ip \in IPs /\ parseEvent(r).port \in Ports
           /\ AsRead(parseEvent(r).ip) = r.ip /\ AsRead(parseEvent(r).port) = r.port
  BY AsReadTwice DEF Records, parseEvent

LEMMA NetStepTyped ==
    ASSUME NetTyped, NetCounts, NetLoop \/ NetClear \/ NetDone
    PROVE  NetTyped'
  <1> USE DEF NetTyped
  <1>1. CASE NetRead
    <2> DEFINE packet == Head(ring)
               e == parseEvent(packet)
    <2>1. packet \in Records /\ Tail(ring) \in Seq(Records)
      BY <1>1, HeadTailProperties DEF NetRead
    <2>2. e \in Records /\ e.ip \in IPs /\ e.port \in Ports /\ packet.ip \in IPs /\ packet.port \in Ports
      BY <2>1, Parsed
    <2>3. ports[e.ip] \subseteq Unlisted
      BY <2>2
    <2>4. ring' \in Seq(Records) /\ UNCHANGED <<ports, scan, announce>>
      BY <1>1, <2>1 DEF NetRead
    <2>5. npc' \in {"read", "add", "report", "announce", "done"} /\ event' \in Records \cup {NoEvent}
      BY <1>1, <2>2 DEF NetRead
    <2>6. loaded' \subseteq Unlisted /\ attached' \in BOOLEAN
      BY <1>1, <2>3 DEF NetRead
    <2>7. tried' \in [IPs -> SUBSET Ports]
      <3>1. tried' = tried \/ tried' = [tried EXCEPT ![packet.ip] = @ \cup {packet.port}]
        BY <1>1 DEF NetRead
      <3> HIDE DEF packet
      <3> QED
        BY <2>2, <3>1
    <2> QED
      BY <2>4, <2>5, <2>6, <2>7
  <1>2. CASE NetAdd
    <2>1. event.ip \in IPs /\ event.port \in Unlisted
      BY <1>2 DEF NetAdd, NetCounts, Records
    <2>2. loaded \cup {event.port} \subseteq Unlisted
      BY <2>1
    <2>3. ports' \in [IPs -> SUBSET Unlisted]
      BY <1>2, <2>1, <2>2 DEF NetAdd
    <2>4. tried' \in [IPs -> SUBSET Ports]
      BY <1>2 DEF NetAdd
    <2>5. loaded' \subseteq Unlisted
      BY <1>2, <2>2 DEF NetAdd, NetNextRecord
    <2> QED
      BY <1>2, <2>3, <2>4, <2>5 DEF NetAdd, NetNextRecord
  <1>3. CASE NetReport
    <2>1. event.ip \in IPs
      BY <1>3 DEF NetReport, NetCounts, Records
    <2> QED
      BY <1>3, <2>1 DEF NetReport
  <1>4. CASE NetAnnounce
    <2>1. ports' \in [IPs -> SUBSET Unlisted] /\ tried' \in [IPs -> SUBSET Ports]
      BY <1>4 DEF NetAnnounce
    <2> QED
      BY <1>4, <2>1 DEF NetAnnounce, NetNextRecord
  <1>5. CASE NetClear
    <2>1. tried' \in [IPs -> SUBSET Ports]
      BY <1>5 DEF NetClear
    <2> QED
      BY <1>5, <2>1 DEF NetClear
  <1>6. CASE NetDone
    BY <1>6 DEF NetDone
  <1> QED
    BY <1>1, <1>2, <1>3, <1>4, <1>5, <1>6 DEF NetLoop

LEMMA PacketTyped ==
    ASSUME NetTyped, NetCounts, NEW ip \in IPs, NEW port \in Ports, Packet(ip, port)
    PROVE  NetTyped' /\ NetCounts'
  <1>1. [ip |-> ip, port |-> port] \in Records
    BY DEF Records
  <1>2. Append(ring, [ip |-> ip, port |-> port]) \in Seq(Records)
    BY <1>1, AppendProperties DEF NetTyped
  <1>3. NetTyped'
    BY <1>2 DEF Packet, NetTyped
  <1>4. NetCounts'
    BY DEF Packet, NetCounts, ReallyTried
  <1> QED
    BY <1>3, <1>4

LEMMA NetStepCounts ==
    ASSUME NetTyped, NetCounts, NetLoop \/ NetClear \/ NetDone
    PROVE  NetCounts'
  <1>0. \A ip \in IPs : ReallyTried(ports[ip], ip) /\ IsFiniteSet(tried[ip])
    BY DEF NetCounts
  <1>1. CASE NetRead
    <2> DEFINE packet == Head(ring)
               e == parseEvent(packet)
    <2>1. packet \in Records /\ announce = {} /\ ~scan
      BY <1>1, HeadTailProperties DEF NetRead, NetTyped, NetCounts
    <2>2. /\ e \in Records /\ e.ip \in IPs /\ e.port \in Ports
          /\ packet.ip \in IPs /\ AsRead(e.ip) = packet.ip /\ AsRead(e.port) = packet.port
      BY <2>1, Parsed
    <2>4. UNCHANGED <<ports, scan, announce>>
      BY <1>1 DEF NetRead
    <2>5. \/ npc' = "read" /\ tried' = tried
          \/ npc' = "report" /\ event' = e /\ tried' = tried
          \/ /\ npc' = "add" /\ event' = e /\ loaded' = ports[e.ip] /\ e.port \in Unlisted
             /\ attached'
             /\ tried' = [tried EXCEPT ![packet.ip] = @ \cup {packet.port}]
      BY <1>1, <2>2 DEF NetRead, Unlisted
    <2> HIDE DEF packet, e
    <2>6. CASE tried' = tried /\ npc' \in {"read", "report"}
      BY <1>0, <2>1, <2>2, <2>4, <2>5, <2>6 DEF NetCounts, ReallyTried
    <2>7. CASE npc' = "add"
      <3>1. /\ event' = e /\ loaded' = ports[e.ip] /\ e.port \in Unlisted /\ attached'
            /\ tried' = [tried EXCEPT ![packet.ip] = @ \cup {packet.port}]
        BY <2>5, <2>7
      <3>2. /\ tried'[packet.ip] = tried[packet.ip] \cup {packet.port}
            /\ \A ip \in IPs : ip # packet.ip => tried'[ip] = tried[ip]
        BY <2>2, <3>1 DEF NetTyped
      <3>3. \A ip \in IPs : tried[ip] \subseteq tried'[ip]
        BY <3>2
      <3>4. \A ip \in IPs : IsFiniteSet(tried'[ip])
        <4>1. IsFiniteSet(tried[packet.ip] \cup {packet.port})
          BY <1>0, <2>2, FS_AddElement
        <4> QED
          BY <1>0, <3>2, <4>1
      <3>5. \A ip \in IPs : ReallyTried(ports[ip], ip)'
        BY <1>0, <2>4, <3>3, AsReadTwice DEF ReallyTried
      <3>6. ReallyTried({event.port}, event.ip)'
        BY <2>2, <3>1, <3>2 DEF ReallyTried
      <3>7. ReallyTried(loaded, event.ip)'
        BY <2>2, <2>4, <3>1, <3>5 DEF ReallyTried
      <3> QED
        BY <2>1, <2>2, <2>4, <2>7, <3>1, <3>4, <3>5, <3>6, <3>7 DEF NetCounts
    <2> QED
      BY <2>5, <2>6, <2>7
  <1>2. CASE NetAdd
    <2> DEFINE set == loaded \cup {event.port}
               src == AsRead(event.ip)
    <2>1. /\ event \in Records /\ event.ip \in IPs
          /\ ReallyTried(loaded, event.ip) /\ ReallyTried({event.port}, event.ip)
          /\ announce = {} /\ UNCHANGED announce /\ npc = "add"
      BY <1>2 DEF NetAdd, NetCounts, Records
    <2>2. ReallyTried(set, event.ip)
      BY <2>1 DEF ReallyTried
    <2>3. src \in IPs /\ \A ip \in IPs : ip # event.ip => AsRead(ip) # src
      BY <2>1, AsReadTwice
    <2>4. /\ \A ip \in IPs : ip # event.ip => ports'[ip] = ports[ip]
          /\ ports'[event.ip] = IF attached THEN set ELSE ports[event.ip]
      BY <1>2, <2>1 DEF NetAdd, NetTyped
    <2>5. CASE npc' = "report"
      <3>1. /\ UNCHANGED <<event, tried>> /\ loaded' = set /\ Cardinality(set) >= PortsCount
        BY <1>2, <2>5 DEF NetAdd, NetNextRecord
      <3>2. \A ip \in IPs : ReallyTried(ports[ip], ip)'
        BY <1>0, <2>2, <2>4, <3>1 DEF ReallyTried
      <3>3. ReallyTried(loaded, event.ip)'
        BY <2>2, <3>1 DEF ReallyTried
      <3> QED
        BY <1>0, <2>1, <2>5, <3>1, <3>2, <3>3 DEF NetCounts
    <2>6. CASE npc' # "report"
      <3>1. /\ npc' = "read" /\ ~scan'
            /\ tried' = IF attached THEN tried ELSE [tried EXCEPT ![src] = {}]
        BY <1>2, <2>6 DEF NetAdd, NetNextRecord
      <3>2. CASE attached
        <4>1. \A ip \in IPs : ReallyTried(ports[ip], ip)'
          BY <1>0, <2>2, <2>4, <3>1, <3>2 DEF ReallyTried
        <4> QED
          BY <1>0, <2>1, <3>1, <3>2, <4>1 DEF NetCounts
      <3>3. CASE ~attached
        <4>1. /\ tried'[src] = {}
              /\ \A ip \in IPs : ip # src => tried'[ip] = tried[ip]
          BY <2>3, <3>1, <3>3 DEF NetTyped
        <4>2. ports[event.ip] = {}
          BY <2>1, <3>3 DEF NetCounts
        <4>3. \A ip \in IPs : ReallyTried(ports[ip], ip)'
          BY <1>0, <2>3, <2>4, <3>3, <4>1, <4>2, AsReadTwice DEF ReallyTried
        <4>4. \A ip \in IPs : IsFiniteSet(tried'[ip])
          BY <1>0, <4>1, FS_EmptySet
        <4> QED
          BY <2>1, <3>1, <4>3, <4>4 DEF NetCounts
      <3> QED
        BY <3>2, <3>3
    <2> QED
      BY <2>5, <2>6
  <1>3. CASE NetReport
    <2>1. /\ npc = "report" /\ npc' = "announce" /\ UNCHANGED <<ports, tried, event>>
          /\ announce' = {event.ip} \/ announce' = {}
      BY <1>3 DEF NetReport
    <2> QED
      BY <1>0, <2>1 DEF NetCounts, ReallyTried
  <1>4. CASE NetAnnounce
    <2>1. npc' = "read" /\ announce' = {} /\ ~scan'
      BY <1>4 DEF NetAnnounce, NetNextRecord
    <2>2. \A ip \in IPs : ReallyTried(ports[ip], ip)' /\ IsFiniteSet(tried'[ip])
      <3>1. CASE scan
        <4>1. /\ ports' = [ports EXCEPT ![event.ip] = {}]
              /\ tried' = [tried EXCEPT ![AsRead(event.ip)] = {}]
          BY <1>4, <3>1 DEF NetAnnounce
        <4>2. event.ip \in IPs
          BY <1>4 DEF NetAnnounce, NetCounts, Records
        <4>3. ASSUME NEW ip \in IPs PROVE ReallyTried(ports[ip], ip)'
          <5>1. CASE ip = event.ip
            <6>1. ports'[ip] = {}
              BY <4>1, <5>1 DEF NetTyped
            <6> QED
              BY <6>1 DEF ReallyTried
          <5>2. CASE ip # event.ip
            <6>1. AsRead(ip) # AsRead(event.ip) /\ AsRead(ip) \in IPs
              BY <4>2, <5>2, AsReadTwice
            <6>2. ports'[ip] = ports[ip] /\ tried'[AsRead(ip)] = tried[AsRead(ip)]
              BY <4>1, <5>2, <6>1 DEF NetTyped
            <6> QED
              BY <1>0, <6>2 DEF ReallyTried
          <5> QED
            BY <5>1, <5>2
        <4>4. \A ip \in IPs : tried'[ip] = tried[ip] \/ tried'[ip] = {}
          BY <4>1 DEF NetTyped
        <4> QED
          BY <1>0, <4>3, <4>4, FS_EmptySet
      <3>2. CASE ~scan
        <4>1. UNCHANGED <<ports, tried>>
          BY <1>4, <3>2 DEF NetAnnounce
        <4> QED
          BY <1>0, <4>1 DEF ReallyTried
      <3> QED
        BY <3>1, <3>2
    <2> QED
      BY <2>1, <2>2 DEF NetCounts
  <1>5. CASE NetClear
    <2>1. /\ \A ip \in IPs : ports'[ip] = {}
          /\ \A ip \in IPs : tried'[ip] = IF InHand(ip) THEN tried[ip] ELSE {}
          /\ UNCHANGED <<npc, event, loaded, scan, announce>>
      BY <1>5 DEF NetClear
    <2>2. \A ip \in IPs : ReallyTried(ports[ip], ip)' /\ IsFiniteSet(tried'[ip])
      BY <1>0, <2>1, FS_EmptySet DEF ReallyTried
    <2>3. CASE npc = "add" \/ (npc = "report" /\ scan)
      <3>1. event \in Records /\ event.ip \in IPs
        BY <2>3 DEF NetCounts, Records
      <3>2. AsRead(event.ip) \in IPs /\ AsRead(AsRead(event.ip)) = event.ip
        BY <3>1, AsReadTwice
      <3>3. tried'[AsRead(event.ip)] = tried[AsRead(event.ip)]
        BY <2>1, <2>3, <3>2 DEF InHand
      <3>4. /\ ReallyTried(loaded, event.ip)'
            /\ npc = "add" => ReallyTried({event.port}, event.ip)'
        BY <2>1, <2>3, <3>3 DEF NetCounts, ReallyTried
      <3> QED
        BY <2>1, <2>2, <2>3, <3>1, <3>4 DEF NetCounts
    <2>4. CASE ~(npc = "add" \/ (npc = "report" /\ scan))
      BY <2>1, <2>2, <2>4 DEF NetCounts
    <2> QED
      BY <2>3, <2>4
  <1>6. CASE NetDone
    <2>1. npc = "read" /\ npc' = "done" /\ UNCHANGED <<ports, announce, tried>>
      BY <1>6 DEF NetDone
    <2> QED
      BY <1>0, <2>1 DEF NetCounts, ReallyTried
  <1> QED
    BY <1>1, <1>2, <1>3, <1>4, <1>5, <1>6 DEF NetLoop

-----------------------------------------------------------------------------
(* Bans and their announcements. *)

LEMMA BanIPEffect ==
    ASSUME JailTyped, NEW ip \in IPs, NEW new \in BOOLEAN, BanIP(ip, new)
    PROVE  /\ banned' \subseteq IPs /\ bans' \in [IPs -> Nat]
           /\ \A j \in IPs : bans'[j] = bans[j] + (IF new /\ j = ip THEN 1 ELSE 0)
  BY DEF JailTyped, BanIP

LEMMA ExportEffect ==
    ASSUME JailTyped, NEW ip \in IPs, ExportBan(ip)
    PROVE  /\ notices' \in [IPs -> Nat]
           /\ \A j \in IPs : notices'[j] = notices[j] + (IF j = ip THEN 1 ELSE 0)
  BY DEF JailTyped, ExportBan

LEMMA AnnouncingFinite ==
    ASSUME NEW ip
    PROVE  IsFiniteSet(Announcing(ip)) /\ Cardinality(Announcing(ip)) \in Nat
  <1>1. IsFiniteSet(LogMonitors) /\ Announcing(ip) \in SUBSET LogMonitors
    BY LogMonitorAssumption DEF Announcing
  <1> QED
    BY <1>1, FS_Subset, FS_CardinalityType

(* The ban of an address that nobody announces yet, and its announcement. *)
LEMMA LogNotice ==
    ASSUME LogTyped, LogCounts, JailTyped, OneNoticePerBan, LogNext, UNCHANGED announce
    PROVE  JailTyped' /\ OneNoticePerBan'
  <1> DEFINE due(ip) == Cardinality(announce \cap {ip})
  <1>0. \A ip \in IPs : bans[ip] = notices[ip] + Cardinality(Announcing(ip)) + due(ip)
    BY DEF OneNoticePerBan, Announcing
  <1>1. ASSUME \A ip \in IPs : bans'[ip] = notices'[ip] + Cardinality(Announcing(ip)') + due(ip)
        PROVE  OneNoticePerBan'
    BY <1>1 DEF OneNoticePerBan, Announcing
  <1> HIDE DEF due
  <1>2. \A ip \in IPs : due(ip) \in Nat
    BY FS_Singleton, FS_EmptySet DEF due
  <1>3. ASSUME NEW m \in LogMonitors, UNCHANGED <<isNewBan, banned, bans, notices>>,
               ~isNewBan[m], \A x \in LogMonitors : x # m => lip'[x] = lip[x]
        PROVE  JailTyped' /\ OneNoticePerBan'
    <2>1. \A ip \in IPs : Announcing(ip)' = Announcing(ip)
      BY <1>3 DEF Announcing
    <2> QED
      BY <1>0, <1>1, <1>3, <2>1 DEF JailTyped
  <1>4. ASSUME NEW m \in LogMonitors, LogLoad(m) \/ LogStore(m) PROVE JailTyped' /\ OneNoticePerBan'
    <2>1. ~isNewBan[m]
      BY <1>4 DEF LogLoad, LogStore, LogCounts, CountsOf
    <2>2. UNCHANGED <<isNewBan, banned, bans, notices>> /\ \A x \in LogMonitors : x # m => lip'[x] = lip[x]
      BY <1>4 DEF LogLoad, LogStore, LogTyped
    <2> QED
      BY <1>3, <2>1, <2>2
  <1>5. ASSUME UNCHANGED <<lip, isNewBan, banned, bans, notices>> PROVE JailTyped' /\ OneNoticePerBan'
    <2>1. \A ip \in IPs : Announcing(ip)' = Announcing(ip)
      BY <1>5 DEF Announcing
    <2> QED
      BY <1>0, <1>1, <1>5, <2>1 DEF JailTyped
  <1>6. ASSUME NEW m \in LogMonitors,
               \/ LogSkip(m) \/ LogClear(m) \/ LogDone(m)
               \/ \E ip \in IPs \cup {NoIP} : SourceLine(m, ip)
        PROVE  JailTyped' /\ OneNoticePerBan'
    BY <1>5, <1>6 DEF LogSkip, LogClear, LogDone, SourceLine
  <1>7. ASSUME NEW m \in LogMonitors, LogJudge(m) PROVE JailTyped' /\ OneNoticePerBan'
    <2>1. ~isNewBan[m] /\ lip[m] \in IPs /\ UNCHANGED <<lip, notices>>
      BY <1>7 DEF LogJudge, LogCounts, CountsOf
    <2>2. CASE ~Offends(m)
      BY <1>5, <1>7, <2>2 DEF LogJudge
    <2>3. CASE Offends(m)
      <3>1. PICK new \in BOOLEAN :
              /\ IF m \in Blockers THEN BanIP(lip[m], new)
                 ELSE new = FALSE /\ UNCHANGED <<banned, bans>>
              /\ isNewBan' = [isNewBan EXCEPT ![m] = new]
        BY <1>7, <2>3 DEF LogJudge
      <3>2. /\ banned' \subseteq IPs /\ bans' \in [IPs -> Nat]
            /\ \A j \in IPs : bans'[j] = bans[j] + (IF new /\ j = lip[m] THEN 1 ELSE 0)
        <4>1. CASE m \in Blockers
          BY <2>1, <3>1, <4>1, BanIPEffect
        <4>2. CASE m \notin Blockers
          BY <3>1, <4>2 DEF JailTyped
        <4> QED
          BY <4>1, <4>2
      <3>3. ASSUME NEW ip \in IPs
            PROVE  Cardinality(Announcing(ip)') =
                     Cardinality(Announcing(ip)) + (IF new /\ ip = lip[m] THEN 1 ELSE 0)
        <4>1. CASE new /\ ip = lip[m]
          <5>1. m \notin Announcing(ip) /\ Announcing(ip)' = Announcing(ip) \cup {m}
            BY <2>1, <3>1, <4>1 DEF Announcing, LogTyped
          <5> QED
            BY <4>1, <5>1, AnnouncingFinite, FS_AddElement
        <4>2. CASE ~(new /\ ip = lip[m])
          <5>1. Announcing(ip)' = Announcing(ip)
            BY <2>1, <3>1, <4>2 DEF Announcing, LogTyped
          <5> QED
            BY <4>2, <5>1, AnnouncingFinite
        <4> QED
          BY <4>1, <4>2
      <3>4. OneNoticePerBan'
        <4>1. ASSUME NEW ip \in IPs
              PROVE  bans'[ip] = notices'[ip] + Cardinality(Announcing(ip)') + due(ip)
          <5>1. /\ bans[ip] \in Nat /\ notices[ip] \in Nat /\ due(ip) \in Nat
                /\ Cardinality(Announcing(ip)) \in Nat
            BY <1>2, AnnouncingFinite DEF JailTyped
          <5> QED
            BY <1>0, <2>1, <3>2, <3>3, <5>1
        <4> QED
          BY <1>1, <4>1
      <3> QED
        BY <2>1, <3>2, <3>4 DEF JailTyped
    <2> QED
      BY <2>2, <2>3
  <1>8. ASSUME NEW m \in LogMonitors, LogReport(m) PROVE JailTyped' /\ OneNoticePerBan'
    <2>1. /\ lip[m] \in IPs /\ UNCHANGED <<lip, banned, bans>>
          /\ isNewBan' = [isNewBan EXCEPT ![m] = FALSE]
      BY <1>8 DEF LogReport, LogCounts, CountsOf
    <2>2. CASE ~isNewBan[m]
      <3>1. UNCHANGED <<isNewBan, notices>>
        BY <1>8, <2>1, <2>2 DEF LogReport, LogTyped
      <3> QED
        BY <1>5, <2>1, <3>1
    <2>3. CASE isNewBan[m]
      <3>1. /\ notices' \in [IPs -> Nat]
            /\ \A j \in IPs : notices'[j] = notices[j] + (IF j = lip[m] THEN 1 ELSE 0)
        BY <1>8, <2>1, <2>3, ExportEffect DEF LogReport
      <3>2. ASSUME NEW ip \in IPs
            PROVE  Cardinality(Announcing(ip)') =
                     Cardinality(Announcing(ip)) - (IF ip = lip[m] THEN 1 ELSE 0)
        <4>1. CASE ip = lip[m]
          <5>1. m \in Announcing(ip) /\ Announcing(ip)' = Announcing(ip) \ {m}
            BY <2>1, <2>3, <4>1 DEF Announcing, LogTyped
          <5> QED
            BY <4>1, <5>1, AnnouncingFinite, FS_RemoveElement
        <4>2. CASE ip # lip[m]
          <5>1. Announcing(ip)' = Announcing(ip)
            BY <2>1, <4>2 DEF Announcing, LogTyped
          <5> QED
            BY <4>2, <5>1, AnnouncingFinite
        <4> QED
          BY <4>1, <4>2
      <3>3. OneNoticePerBan'
        <4>1. ASSUME NEW ip \in IPs
              PROVE  bans'[ip] = notices'[ip] + Cardinality(Announcing(ip)') + due(ip)
          <5>1. /\ bans[ip] \in Nat /\ notices[ip] \in Nat /\ due(ip) \in Nat
                /\ Cardinality(Announcing(ip)) \in Nat
            BY <1>2, AnnouncingFinite DEF JailTyped
          <5> QED
            BY <1>0, <2>1, <3>1, <3>2, <5>1
        <4> QED
          BY <1>1, <4>1
      <3> QED
        BY <2>1, <3>1, <3>3 DEF JailTyped
    <2> QED
      BY <2>2, <2>3
  <1> QED
    BY <1>4, <1>6, <1>7, <1>8 DEF LogNext, LogLoop

LEMMA NetNotice ==
    ASSUME NetTyped, NetCounts, JailTyped, OneNoticePerBan, NetLoop, UNCHANGED <<lip, isNewBan>>
    PROVE  JailTyped' /\ OneNoticePerBan'
  <1> DEFINE log(ip) == Cardinality(Announcing(ip))
  <1>0. \A ip \in IPs : bans[ip] = notices[ip] + log(ip) + Cardinality(announce \cap {ip})
    BY DEF OneNoticePerBan, Announcing
  <1>1. ASSUME \A ip \in IPs : bans'[ip] = notices'[ip] + log(ip) + Cardinality(announce' \cap {ip})
        PROVE  OneNoticePerBan'
    BY <1>1 DEF OneNoticePerBan, Announcing
  <1>2. \A ip \in IPs : log(ip) \in Nat /\ bans[ip] \in Nat /\ notices[ip] \in Nat
    BY AnnouncingFinite DEF JailTyped
  <1> HIDE DEF log
  <1>3. ASSUME NEW ip, NEW j
        PROVE  /\ Cardinality({} \cap {j}) = 0
               /\ Cardinality({ip} \cap {j}) = IF ip = j THEN 1 ELSE 0
    <2>1. {} \cap {j} = {} /\ Cardinality({}) = 0
      BY FS_EmptySet
    <2>2. {ip} \cap {j} = IF ip = j THEN {ip} ELSE {}
      OBVIOUS
    <2>3. Cardinality({ip}) = 1
      BY FS_Singleton
    <2> QED
      BY <2>1, <2>2, <2>3
  <1>4. CASE NetRead \/ NetAdd
    <2>1. UNCHANGED <<announce, banned, bans, notices>>
      BY <1>4 DEF NetRead, NetAdd
    <2> QED
      BY <1>0, <1>1, <2>1 DEF JailTyped
  <1>5. CASE NetReport
    <2>1. event.ip \in IPs /\ announce = {} /\ UNCHANGED notices
      BY <1>5 DEF NetReport, NetCounts, Records
    <2>2. PICK new \in BOOLEAN :
            /\ IF NetBlocker THEN BanIP(event.ip, new) ELSE new = FALSE /\ UNCHANGED <<banned, bans>>
            /\ announce' = IF new THEN {event.ip} ELSE {}
      BY <1>5 DEF NetReport
    <2>3. /\ banned' \subseteq IPs /\ bans' \in [IPs -> Nat]
          /\ \A j \in IPs : bans'[j] = bans[j] + (IF new /\ j = event.ip THEN 1 ELSE 0)
      <3>1. CASE NetBlocker
        BY <2>1, <2>2, <3>1, BanIPEffect
      <3>2. CASE ~NetBlocker
        BY <2>2, <3>2 DEF JailTyped
      <3> QED
        BY <3>1, <3>2
    <2>4. OneNoticePerBan'
      <3>1. ASSUME NEW ip \in IPs
            PROVE  bans'[ip] = notices'[ip] + log(ip) + Cardinality(announce' \cap {ip})
        <4>1. bans[ip] = notices[ip] + log(ip)
          BY <1>0, <1>2, <1>3, <2>1
        <4>2. Cardinality(announce' \cap {ip}) = IF new /\ ip = event.ip THEN 1 ELSE 0
          BY <1>3, <2>2
        <4> QED
          BY <1>2, <2>1, <2>3, <4>1, <4>2
      <3> QED
        BY <1>1, <3>1
    <2> QED
      BY <2>1, <2>3, <2>4 DEF JailTyped
  <1>6. CASE NetAnnounce
    <2>1. event.ip \in IPs /\ announce' = {} /\ UNCHANGED <<banned, bans>>
      BY <1>6 DEF NetAnnounce, NetCounts, Records
    <2>2. CASE announce = {}
      <3>1. UNCHANGED <<announce, notices>>
        BY <1>6, <2>1, <2>2 DEF NetAnnounce
      <3> QED
        BY <1>0, <1>1, <2>1, <3>1 DEF JailTyped
    <2>3. CASE announce # {}
      <3>1. announce = {event.ip} /\ ExportBan(event.ip)
        BY <1>6, <2>3 DEF NetAnnounce, NetCounts
      <3>2. /\ notices' \in [IPs -> Nat]
            /\ \A j \in IPs : notices'[j] = notices[j] + (IF j = event.ip THEN 1 ELSE 0)
        BY <2>1, <3>1, ExportEffect
      <3>3. OneNoticePerBan'
        <4>1. ASSUME NEW ip \in IPs
              PROVE  bans'[ip] = notices'[ip] + log(ip) + Cardinality(announce' \cap {ip})
          <5>1. Cardinality(announce \cap {ip}) = IF event.ip = ip THEN 1 ELSE 0
            BY <1>3, <3>1
          <5>2. Cardinality(announce' \cap {ip}) = 0
            BY <1>3, <2>1
          <5> QED
            BY <1>0, <1>2, <2>1, <3>2, <5>1, <5>2
        <4> QED
          BY <1>1, <4>1
      <3> QED
        BY <2>1, <3>2, <3>3 DEF JailTyped
    <2> QED
      BY <2>2, <2>3
  <1> QED
    BY <1>4, <1>5, <1>6 DEF NetLoop

-----------------------------------------------------------------------------
(* The invariant, and what follows from it. *)

LEMMA InitIInv == Init => IInv
  <1> SUFFICES ASSUME Init PROVE IInv
    OBVIOUS
  <1> USE DEF Init, LogInit, NetInit, JailInit
  <1>0. Tries \in Nat \ {0} /\ LogChanSize \in Nat
    BY LogMonitorAssumption
  <1>1. LogTyped
    <2>1. <<>> \in Seq(IPs \cup {NoIP}) /\ Len(<<>>) = 0
      BY EmptySeq
    <2>2. logChan \in [LogMonitors -> Seq(IPs \cup {NoIP})]
          /\ \A m \in LogMonitors : Len(logChan[m]) <= LogChanSize
      BY <1>0, <2>1
    <2>3. counters \in [LogMonitors -> [IPs -> 0 .. Tries - 1]]
          /\ hits \in [LogMonitors -> [IPs -> Nat]]
      BY <1>0 DEF Zero
    <2>4. counter \in [LogMonitors -> 0 .. Tries]
      BY <1>0
    <2>5. lpc \in [LogMonitors -> {"next", "judge", "report", "store", "done"}]
          /\ lip \in [LogMonitors -> IPs \cup {NoIP}] /\ isNewBan \in [LogMonitors -> BOOLEAN]
      OBVIOUS
    <2> HIDE DEF Init, LogInit, NetInit, JailInit
    <2> QED
      BY <2>2, <2>3, <2>4, <2>5 DEF LogTyped
  <1>2. JailTyped
    BY DEF JailTyped
  <1>3. NetTyped
    BY EmptySeq DEF NetTyped
  <1>4. LogCounts
    BY DEF LogCounts, CountsOf, Zero
  <1>5. NetCounts
    BY FS_EmptySet DEF NetCounts, ReallyTried
  <1>6. OneNoticePerBan
    <2>1. \A ip \in IPs : {m \in LogMonitors : isNewBan[m] /\ lip[m] = ip} = {}
      OBVIOUS
    <2>2. \A ip \in IPs : announce \cap {ip} = {}
      OBVIOUS
    <2>3. \A ip \in IPs : bans[ip] = 0 /\ notices[ip] = 0
      OBVIOUS
    <2>4. Cardinality({}) = 0
      BY FS_EmptySet
    <2> HIDE DEF Init, LogInit, NetInit, JailInit
    <2>5. SUFFICES ASSUME NEW ip \in IPs
                   PROVE  bans[ip] = notices[ip]
                            + Cardinality({m \in LogMonitors : isNewBan[m] /\ lip[m] = ip})
                            + Cardinality(announce \cap {ip})
      BY DEF OneNoticePerBan
    <2>6. /\ Cardinality({m \in LogMonitors : isNewBan[m] /\ lip[m] = ip}) = 0
          /\ Cardinality(announce \cap {ip}) = 0
      BY <2>1, <2>2, <2>4
    <2> QED
      BY <2>3, <2>6
  <1> QED
    BY <1>1, <1>2, <1>3, <1>4, <1>5, <1>6 DEF IInv

LEMMA NextIInv == IInv /\ [Next]_vars => IInv'
  <1> SUFFICES ASSUME IInv, [Next]_vars PROVE IInv'
    OBVIOUS
  <1> USE DEF IInv
  <1>1. ASSUME UNCHANGED logVars PROVE LogTyped' /\ LogCounts'
    BY <1>1 DEF logVars, LogTyped, LogCounts, CountsOf
  <1>2. ASSUME UNCHANGED netVars PROVE NetTyped' /\ NetCounts'
    BY <1>2 DEF netVars, NetTyped, NetCounts, ReallyTried
  <1>3. ASSUME UNCHANGED <<lip, isNewBan, announce, bans, notices>>, banned' \subseteq banned
        PROVE  JailTyped' /\ OneNoticePerBan'
    BY <1>3 DEF JailTyped, OneNoticePerBan
  <1>4. CASE LogNext /\ UNCHANGED netVars
    <2>1. UNCHANGED announce
      BY <1>4 DEF netVars
    <2> QED
      BY <1>2, <1>4, <2>1, LogStepTyped, LogStepCounts, LogNotice
  <1>5. CASE NetLoop /\ UNCHANGED <<logVars, live>>
    <2>1. UNCHANGED <<lip, isNewBan>>
      BY <1>5 DEF logVars
    <2> QED
      BY <1>1, <1>5, <2>1, NetStepTyped, NetStepCounts, NetNotice
  <1>6. CASE NetClear /\ UNCHANGED <<logVars, live>>
    <2>1. UNCHANGED <<lip, isNewBan, announce, bans, notices, banned>>
      BY <1>6 DEF logVars, NetClear
    <2> QED
      BY <1>1, <1>3, <1>6, <2>1, NetStepTyped, NetStepCounts
  <1>7. ASSUME NEW ip \in IPs, NEW port \in Ports, Packet(ip, port), UNCHANGED <<logVars, live>>
        PROVE  IInv'
    <2>1. UNCHANGED <<lip, isNewBan, announce, bans, notices, banned>>
      BY <1>7 DEF logVars, Packet
    <2> QED
      BY <1>1, <1>3, <1>7, <2>1, PacketTyped
  <1>8. CASE Lift /\ UNCHANGED <<logVars, netVars, live>>
    <2>1. UNCHANGED <<lip, isNewBan, announce, bans, notices>> /\ banned' \subseteq banned
      BY <1>8 DEF logVars, netVars, Lift
    <2> QED
      BY <1>1, <1>2, <1>3, <1>8, <2>1
  <1>9. CASE Cancel \/ UNCHANGED vars
    <2>1. UNCHANGED <<logVars, netVars, banned, bans, notices>>
      BY <1>9 DEF Cancel, vars
    <2>2. UNCHANGED <<lip, isNewBan, announce, bans, notices>> /\ banned' \subseteq banned
      BY <2>1 DEF logVars, netVars
    <2> QED
      BY <1>1, <1>2, <1>3, <2>1, <2>2
  <1>10. CASE NetDone
    <2>1. UNCHANGED <<logVars, lip, isNewBan, announce, bans, notices, banned>>
      BY <1>10 DEF logVars, NetDone
    <2> QED
      BY <1>1, <1>3, <1>10, <2>1, NetStepTyped, NetStepCounts
  <1> QED
    BY <1>4, <1>5, <1>6, <1>7, <1>8, <1>9, <1>10 DEF Next

LEMMA SpecIInv == Spec => []IInv
  BY InitIInv, NextIInv, PTL DEF Spec

(* The monitors' maps and locals have their types: no channel overruns its *)
(* capacity, no counter that is kept reaches the limit, and no port of a   *)
(* list ever enters a port set.                                            *)
THEOREM DetectorsTyped == Spec => []TypeOK
  <1>1. IInv => TypeOK
    BY DEF IInv, LogTyped, JailTyped, NetTyped, TypeOK, Unlisted
  <1> QED
    BY <1>1, SpecIInv, PTL

(* A log monitor takes an address for an offender only after as many hits  *)
(* of that address as the limit asks for, none of which an earlier alarm   *)
(* used up and none from before the window, except for the one address     *)
(* that clearMaps met between LoadOrStore and Store.                       *)
THEOREM AlarmsAreEarned == Spec => []AlarmNeedsTries
  <1>1. IInv => AlarmNeedsTries
    BY DEF IInv, LogCounts, CountsOf, AlarmNeedsTries
  <1> QED
    BY <1>1, SpecIInv, PTL

(* The network monitor reports a scan only when one address really tried   *)
(* enough different ports in the window: on a little-endian host the one   *)
(* whose bytes in reverse order are the reported address, also when the    *)
(* set it works on has been cleared out of the map.                        *)
THEOREM ScansAreEarned == Spec => []ScanNeedsPorts
  <1>1. IInv => ScanNeedsPorts
    <2> SUFFICES ASSUME IInv, npc = "report", scan
                 PROVE  /\ {AsRead(port) : port \in loaded} \subseteq tried[AsRead(event.ip)]
                        /\ Cardinality(tried[AsRead(event.ip)]) >= PortsCount
      BY DEF ScanNeedsPorts
    <2> DEFINE real == tried[AsRead(event.ip)]
    <2>1. event.ip \in IPs /\ ReallyTried(loaded, event.ip) /\ Cardinality(loaded) >= PortsCount
      BY DEF IInv, NetCounts, Records
    <2>2. IsFiniteSet(real)
      BY <2>1, AsReadTwice DEF IInv, NetCounts
    <2>3. {AsRead(port) : port \in loaded} \subseteq real
      BY <2>1 DEF ReallyTried
    <2>4. IsFiniteSet(loaded) /\ Cardinality(loaded) <= Cardinality(real)
      <3> DEFINE f == [port \in loaded |-> AsRead(port)]
      <3>1. f \in [loaded -> real]
        BY <2>3
      <3>2. \A p, q \in loaded : f[p] = f[q] => p = q
        <4>1. loaded \subseteq Ports
          BY DEF IInv, NetTyped, Unlisted
        <4> QED
          BY <4>1, AsReadTwice
      <3> HIDE DEF f, real
      <3>3. f \in Injection(loaded, real)
        BY <3>1, <3>2 DEF Injection, IsInjective
      <3> QED
        BY <2>2, <3>3, FS_Injection
    <2>5. Cardinality(real) \in Nat /\ Cardinality(loaded) \in Nat
      BY <2>2, <2>4, FS_CardinalityType
    <2> HIDE DEF real
    <2>6. Cardinality(real) >= PortsCount
      BY <2>1, <2>4, <2>5, NetworkMonitorAssumption
    <2> QED
      BY <2>3, <2>6 DEF real
  <1> QED
    BY <1>1, SpecIInv, PTL

(* However many monitors go after an address at once, every ban of it is   *)
(* announced by exactly one ip_ban event: at any time the bans are the     *)
(* events exported and those that some monitor is about to export.         *)
THEOREM BansAreAnnouncedOnce == Spec => []OneNoticePerBan
  <1>1. IInv => OneNoticePerBan
    BY DEF IInv
  <1> QED
    BY <1>1, SpecIInv, PTL

-----------------------------------------------------------------------------
(* What a log monitor goes after is not on the whitelist. *)
SparedInv ==
    /\ WhitelistedNeverBanned
    /\ \A m \in LogMonitors : lpc[m] = "judge" => lip[m] \notin WhiteList

(* The log monitors by themselves never have an address of ip_whitelist    *)
(* banned: while the network monitor is not in blocker mode, no cycle of   *)
(* detectors bans one.  (With it the property fails: the network monitor   *)
(* does not look at ip_whitelist.)                                         *)
THEOREM LogMonitorsSpareWhitelist ==
    ASSUME ~NetBlocker
    PROVE  Spec => []WhitelistedNeverBanned
  <1>1. Init => SparedInv
    BY DEF Init, JailInit, LogInit, SparedInv, WhitelistedNeverBanned
  <1>2. LogTyped /\ SparedInv /\ [Next]_vars => SparedInv'
    <2> SUFFICES ASSUME LogTyped, SparedInv, [Next]_vars PROVE SparedInv'
      OBVIOUS
    <2> USE DEF SparedInv, WhitelistedNeverBanned
    <2>1. ASSUME UNCHANGED <<lpc, lip>>, banned' \subseteq banned PROVE SparedInv'
      BY <2>1
    <2>2. CASE \/ NetLoop /\ UNCHANGED <<logVars, live>>
               \/ NetClear /\ UNCHANGED <<logVars, live>>
               \/ Lift /\ UNCHANGED <<logVars, netVars, live>>
               \/ \E ip \in IPs, port \in Ports : Packet(ip, port) /\ UNCHANGED <<logVars, live>>
      BY <2>1, <2>2
         DEF NetLoop, NetRead, NetAdd, NetReport, NetAnnounce, NetClear, Lift, Packet, logVars
    <2>3. CASE Cancel \/ NetDone \/ UNCHANGED vars
      BY <2>1, <2>3 DEF Cancel, NetDone, vars, logVars
    <2>4. ASSUME NEW m \in LogMonitors, LogLoad(m) PROVE SparedInv'
      BY <2>4 DEF LogLoad, LogTyped
    <2>5. ASSUME NEW m \in LogMonitors, LogJudge(m) PROVE SparedInv'
      <3>1. lip[m] \notin WhiteList /\ UNCHANGED lip
        BY <2>5 DEF LogJudge
      <3>2. banned' \subseteq banned \cup {lip[m]}
        BY <2>5 DEF LogJudge, BanIP
      <3>3. \A x \in LogMonitors : lpc'[x] = "judge" => lpc[x] = "judge"
        BY <2>5 DEF LogJudge, LogTyped
      <3> QED
        BY <3>1, <3>2, <3>3
    <2>6. ASSUME NEW m \in LogMonitors,
                 \/ LogSkip(m) \/ LogReport(m) \/ LogStore(m) \/ LogDone(m) \/ LogClear(m)
                 \/ \E ip \in IPs \cup {NoIP} : SourceLine(m, ip)
          PROVE  SparedInv'
      <3>1. UNCHANGED banned
        BY <2>6 DEF LogSkip, LogReport, LogStore, LogDone, LogClear, SourceLine
      <3>2. \A x \in LogMonitors : lpc'[x] = "judge" => lpc[x] = "judge" /\ lip'[x] = lip[x]
        BY <2>6 DEF LogSkip, LogReport, LogStore, LogDone, LogClear, SourceLine, LogTyped
      <3> QED
        BY <3>1, <3>2
    <2> QED
      BY <2>2, <2>3, <2>4, <2>5, <2>6 DEF Next, LogNext, LogLoop
  <1>3. IInv => LogTyped
    BY DEF IInv
  <1>4. SparedInv => WhitelistedNeverBanned
    BY DEF SparedInv
  <1> QED
    BY <1>1, <1>2, <1>3, <1>4, SpecIInv, PTL DEF Spec

=============================================================================
