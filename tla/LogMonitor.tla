----------------------------- MODULE LogMonitor -----------------------------
(***************************************************************************)
(* RunBaseMonitor of pkg/monitor/monitor.go: the ssh, web and database     *)
(* monitors.  A source goroutine, the subject of LogSource, reads log      *)
(* lines into a channel, the monitor's loop counts the hits of each        *)
(* address in a sync.Map, and clearMaps empties that map at the end of     *)
(* every window.                                                           *)
(***************************************************************************)
EXTENDS Jail, Sequences, FiniteSets

CONSTANTS
    LogMonitors,    \* the enabled monitors
    Blockers,       \* those in blocker mode
    Tries,          \* hits that make an offender
    WhiteList,      \* cfg.IPWhiteList
    NoIP,           \* a line the pattern does not match
    MaxLines,       \* bound: lines one source reads
    LogChanSize     \* capacity of outputChan (1000)

ASSUME LogMonitorAssumption ==
    /\ IsFiniteSet(LogMonitors) /\ Blockers \subseteq LogMonitors
    /\ Tries \in Nat \ {0}
    /\ WhiteList \subseteq IPs
    /\ NoIP \notin IPs
    /\ MaxLines \in Nat /\ LogChanSize \in Nat \ {0}

VARIABLES
    live,       \* the cycle's context is not cancelled
    lines,      \* lines each source may still read
    logChan,    \* outputChan of each monitor
    counters,   \* ipAttemptsMap; an address that is not there counts 0
    lpc,        \* the loop: next, judge, report, store, done
    lip, counter, isNewBan,    \* its locals
    hits,       \* history: hits since the last alarm and the start of the window; the
                \* address in the loop's hand at that moment keeps its older ones
    fresh       \* history: the same without the exception, unless the hit in hand
                \* has made the address an offender already

logVars == <<lines, logChan, counters, lpc, lip, counter, isNewBan, hits, fresh>>

Zero == [ip \in IPs |-> 0]

LogInit ==
    /\ lines = [m \in LogMonitors |-> MaxLines]
    /\ logChan = [m \in LogMonitors |-> <<>>]
    /\ counters = [m \in LogMonitors |-> Zero]
    /\ lpc = [m \in LogMonitors |-> "next"]
    /\ lip = [m \in LogMonitors |-> NoIP]
    /\ counter = [m \in LogMonitors |-> 0]
    /\ isNewBan = [m \in LogMonitors |-> FALSE]
    /\ hits = [m \in LogMonitors |-> Zero]
    /\ fresh = [m \in LogMonitors |-> Zero]

(* The source passes a line on; it waits while the channel is full. *)
SourceLine(m, ip) ==
    /\ live /\ lines[m] > 0 /\ Len(logChan[m]) < LogChanSize
    /\ lines' = [lines EXCEPT ![m] = @ - 1]
    /\ logChan' = [logChan EXCEPT ![m] = Append(@, ip)]
    /\ UNCHANGED <<counters, lpc, lip, counter, isNewBan, hits, fresh,
                   live, banned, bans, notices>>

(* No address, or one on the whitelist: the line is skipped. *)
LogSkip(m) ==
    /\ lpc[m] = "next" /\ logChan[m] # <<>>
    /\ Head(logChan[m]) \in WhiteList \cup {NoIP}
    /\ logChan' = [logChan EXCEPT ![m] = Tail(@)]
    /\ UNCHANGED <<lines, counters, lpc, lip, counter, isNewBan, hits, fresh,
                   live, banned, bans, notices>>

(* LoadOrStore and counter += 1; the map is not locked until Store. *)
LogLoad(m) ==
    LET ip == Head(logChan[m])
    IN  /\ lpc[m] = "next" /\ logChan[m] # <<>>
        /\ ip \notin WhiteList \cup {NoIP}
        /\ logChan' = [logChan EXCEPT ![m] = Tail(@)]
        /\ lip' = [lip EXCEPT ![m] = ip]
        /\ counter' = [counter EXCEPT ![m] = counters[m][ip] + 1]
        /\ lpc' = [lpc EXCEPT ![m] = "judge"]
        /\ hits' = [hits EXCEPT ![m][ip] = @ + 1]
        /\ fresh' = [fresh EXCEPT ![m][ip] = @ + 1]
        /\ UNCHANGED <<lines, counters, isNewBan, live, banned, bans, notices>>

Offends(m) == counter[m] >= Tries

(* Seeded fault: the counter is not reset by an alarm. *)
LogJudgeWithoutReset(m) ==
    /\ lpc[m] = "judge"
    /\ IF Offends(m)
       THEN /\ hits' = [hits EXCEPT ![m][lip[m]] = 0]
            /\ fresh' = [fresh EXCEPT ![m][lip[m]] = 0]
            /\ lpc' = [lpc EXCEPT ![m] = "report"]
       ELSE lpc' = [lpc EXCEPT ![m] = "store"] /\ UNCHANGED <<hits, fresh>>
    /\ UNCHANGED <<lines, logChan, counters, lip, counter, isNewBan, live, banned, bans, notices>>

(* Below the limit, or BanIP for an offender of a blocker. *)
LogJudge(m) ==
    /\ lpc[m] = "judge"
    /\ \/ /\ ~Offends(m)
          /\ lpc' = [lpc EXCEPT ![m] = "store"]
          /\ UNCHANGED <<counter, isNewBan, hits, fresh, banned, bans>>
       \/ /\ Offends(m)
          /\ \E new \in BOOLEAN :
                /\ IF m \in Blockers THEN BanIP(lip[m], new)
                   ELSE new = FALSE /\ UNCHANGED <<banned, bans>>
                /\ isNewBan' = [isNewBan EXCEPT ![m] = new]
          /\ counter' = [counter EXCEPT ![m] = 0]
          /\ hits' = [hits EXCEPT ![m][lip[m]] = 0]
          /\ fresh' = [fresh EXCEPT ![m][lip[m]] = 0]
          /\ lpc' = [lpc EXCEPT ![m] = "report"]
    /\ UNCHANGED <<lines, logChan, counters, lip, live, notices>>

(* Seeded fault: a blocker exports ip_ban for every offender. *)
LogReportAlways(m) ==
    /\ lpc[m] = "report"
    /\ IF m \in Blockers THEN ExportBan(lip[m]) ELSE UNCHANGED notices
    /\ isNewBan' = [isNewBan EXCEPT ![m] = FALSE]
    /\ lpc' = [lpc EXCEPT ![m] = "store"]
    /\ UNCHANGED <<lines, logChan, counters, lip, counter, hits, fresh,
                   live, banned, bans>>

(* The monitor's alert and, for a new ban, ip_ban. *)
LogReport(m) ==
    /\ lpc[m] = "report"
    /\ IF isNewBan[m] THEN ExportBan(lip[m]) ELSE UNCHANGED notices
    /\ isNewBan' = [isNewBan EXCEPT ![m] = FALSE]
    /\ lpc' = [lpc EXCEPT ![m] = "store"]
    /\ UNCHANGED <<lines, logChan, counters, lip, counter, hits, fresh,
                   live, banned, bans>>

LogStore(m) ==
    /\ lpc[m] = "store"
    /\ counters' = [counters EXCEPT ![m][lip[m]] = counter[m]]
    /\ lpc' = [lpc EXCEPT ![m] = "next"]
    /\ lip' = [lip EXCEPT ![m] = NoIP]
    /\ counter' = [counter EXCEPT ![m] = 0]
    /\ UNCHANGED <<lines, logChan, isNewBan, hits, fresh, live, banned, bans, notices>>

(* A window begins. *)
NewWindow(m) ==
    /\ hits' = [hits EXCEPT ![m] = [ip \in IPs |-> IF ip = lip[m] THEN @[ip] ELSE 0]]
    /\ fresh' = [fresh EXCEPT ![m] = [ip \in IPs |->
                    IF ip = lip[m] /\ lpc[m] = "judge" /\ Offends(m) THEN @[ip] ELSE 0]]

(* Seeded fault: the counters outlive the window. *)
LogClearForgotten(m) ==
    /\ NewWindow(m)
    /\ UNCHANGED <<lines, logChan, counters, lpc, lip, counter, isNewBan,
                   live, banned, bans, notices>>

(* clearMaps, when the window is over; its timer and a cancelled context race. *)
LogClear(m) ==
    /\ counters' = [counters EXCEPT ![m] = Zero]
    /\ NewWindow(m)
    /\ UNCHANGED <<lines, logChan, lpc, lip, counter, isNewBan, live, banned, bans, notices>>

(* The source has closed the channel and the loop has emptied it. *)
LogDone(m) ==
    /\ ~live /\ lpc[m] = "next" /\ logChan[m] = <<>>
    /\ lpc' = [lpc EXCEPT ![m] = "done"]
    /\ UNCHANGED <<lines, logChan, counters, lip, counter, isNewBan, hits, fresh,
                   live, banned, bans, notices>>

LogLoop(m) == LogSkip(m) \/ LogLoad(m) \/ LogJudge(m) \/ LogReport(m) \/ LogStore(m) \/ LogDone(m)

LogNext == \E m \in LogMonitors :
    LogLoop(m) \/ LogClear(m) \/ \E ip \in IPs \cup {NoIP} : SourceLine(m, ip)
=============================================================================
