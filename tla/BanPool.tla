------------------------------- MODULE BanPool -------------------------------
(***************************************************************************)
(* pkg/banpool/service.go and repository.go: the bans the agent holds.     *)
(*                                                                         *)
(* A ban is a row of the SQLite table (it survives a crash), a rule in     *)
(* every firewall chain (it survives a crash of the agent and is lost by a *)
(* reboot), and a goroutine waitUnban that lifts it (lost by both).  One   *)
(* mutex serialises the operations; the variables of section "the holder   *)
(* of the mutex" are the program counter and locals of the operation that  *)
(* holds it.  Each step makes at most one durable change, so that a crash  *)
(* can fall between any two, and time may pass between any two.            *)
(*                                                                         *)
(* A cycle is one run of monitorHub.runCycle with its context: it begins   *)
(* with RestoreBans, and its monitors call BanIP until they are drained.   *)
(***************************************************************************)
EXTENDS Firewall

CONSTANTS
    BanSeconds,       \* the ban_seconds of the monitors' configurations
    Half,             \* time.Duration is an int64: durations are in -Half .. Half-1
    ShiftAt, ShiftBy, \* instant and size of a fall-back of the local UTC offset
    MaxUnbanRetries,  \* maxUnbanRetries (5)
    RetryInterval,    \* unbanRetryInterval
    AllowUnbanIP,     \* whether UnbanIP is called (the daemon never does)
    MaxTime,          \* bound: the last instant of the model
    LastBan,          \* bound: no ban is asked for after this instant
    MaxId,            \* bound: rows ever added
    MaxCycles,        \* bound: cycles and process starts
    NoBan, NoIP, NoWaiter

ASSUME BanPoolAssumption ==
    /\ BanSeconds \subseteq Nat
    /\ Half \in Nat \ {0}
    /\ ShiftAt \in Nat /\ ShiftBy \in Nat
    /\ MaxUnbanRetries \in Nat /\ RetryInterval \in Nat \ {0}
    /\ AllowUnbanIP \in BOOLEAN
    /\ MaxTime \in Nat /\ LastBan \in Nat
    /\ MaxId \in Nat /\ MaxCycles \in Nat
    /\ NoIP \notin IPs
    /\ NoBan \notin [id : Nat, until : Int]
    /\ NoWaiter \notin [ip : IPs, id : Nat, wake : Int, retries : Nat, cyc : Nat,
                        pc : {"sleep", "poll", "check"}]

VARIABLES
    now,        \* time.Now()
    db,         \* the table bans: the row of an address, or NoBan
    nextId,     \* AUTOINCREMENT
    waiters,    \* the running waitUnban goroutines
    cyc,        \* the number of the current cycle, over all processes
    live,       \* the current cycle's context is not cancelled
    phase,      \* "restore": RestoreBans of this cycle has not returned; "run"
    promised,   \* history: until when the accepted requests want ip banned
    \* the holder of the mutex
    mpc, by, cur, until, asked, todo, me

holder == <<mpc, by, cur, until, asked, todo, me>>
vars == <<rules, budget, now, db, nextId, waiters, cyc, live, phase, promised, holder>>

(***************************************************************************)
(* Time.  BanIP multiplies ban_seconds as an int64 of nanoseconds, which   *)
(* wraps around.  go-sqlite3 stores a time.Time as text in local time and  *)
(* SQLite compares texts, so the queries compare local times.              *)
(***************************************************************************)
Duration(s) == ((s + Half) % (2 * Half)) - Half
Local(t) == IF t >= ShiftAt THEN t - ShiftBy ELSE t

Latest(t, u) == IF t > u THEN t ELSE u

(* Bound: the clock stops at MaxTime, and a retry due later is due then. *)
Capped(t) == IF t > MaxTime THEN MaxTime ELSE t

(* GetExpired and GetBanned, each with its own time.Now(). *)
GetExpired == {ip \in IPs : db[ip] # NoBan /\ Local(db[ip].until) <= Local(now)}
GetBanned == {ip \in IPs : db[ip] # NoBan /\ Local(db[ip].until) > Local(now)}

(* The repository's writes. *)
Add(ip, u) == /\ nextId <= MaxId
              /\ db' = [db EXCEPT ![ip] = [id |-> nextId, until |-> u]]
              /\ nextId' = nextId + 1
Update(ip, u) == /\ db' = [db EXCEPT ![ip] = [@ EXCEPT !.until = u]]
                 /\ UNCHANGED nextId
Delete(ip) == /\ db' = [db EXCEPT ![ip] = NoBan]
              /\ UNCHANGED nextId

(* go waitUnban(ctx, ban): waitForContext polls ctx when the delay is over. *)
NewWaiter(ip) ==
    [ip |-> ip, id |-> db[ip].id, wake |-> db[ip].until, retries |-> 0,
     cyc |-> cyc, pc |-> IF db[ip].until > now THEN "sleep" ELSE "poll"]

CtxLive(w) == w.cyc = cyc /\ live

(* The mutex is released; its holder's locals are gone. *)
Unlock == /\ mpc' = "idle" /\ by' = "nobody" /\ cur' = NoIP
          /\ until' = 0 /\ asked' = 0 /\ todo' = {} /\ me' = NoWaiter

-----------------------------------------------------------------------------
Init ==
    /\ rules = [ip \in IPs |-> NoRules]
    /\ budget = MaxFaults
    /\ now = 0
    /\ db = [ip \in IPs |-> NoBan]
    /\ nextId = 1
    /\ waiters = {}
    /\ cyc = 1
    /\ live = TRUE
    /\ phase = "restore"
    /\ promised = [ip \in IPs |-> 0]
    /\ mpc = "idle" /\ by = "nobody" /\ cur = NoIP
    /\ until = 0 /\ asked = 0 /\ todo = {} /\ me = NoWaiter

Tick ==
    /\ now < MaxTime
    /\ now' = now + 1
    /\ UNCHANGED <<rules, budget, db, nextId, waiters, cyc, live, phase, promised, holder>>

-----------------------------------------------------------------------------
(* BanIP.  A failing Get or Add returns before anything has changed. *)

BanIP(ip, s) ==
    /\ mpc = "idle" /\ phase = "run" /\ now <= LastBan
    /\ by' = "ban" /\ cur' = ip
    /\ until' = now + Duration(s) /\ asked' = now + s
    /\ IF db[ip] = NoBan
       THEN /\ Add(ip, now + Duration(s))
            /\ promised' = [promised EXCEPT ![ip] = now + s]
            /\ mpc' = "ban"
       ELSE /\ mpc' = "reban"
            /\ UNCHANGED <<db, nextId, promised>>
    /\ UNCHANGED <<rules, budget, now, waiters, cyc, live, phase, todo, me>>

(* A new row: the rule, then the goroutine; without a rule, no row. *)
BanFirewall ==
    /\ mpc = "ban"
    /\ \/ /\ Ban(cur, TRUE)
          /\ waiters' = waiters \cup {NewWaiter(cur)}
          /\ Unlock
       \/ /\ Ban(cur, FALSE)
          /\ mpc' = "undo"
          /\ UNCHANGED <<waiters, by, cur, until, asked, todo, me>>
    /\ UNCHANGED <<now, db, nextId, cyc, live, phase, promised>>

(* Seeded fault: the row of a ban that failed is left behind. *)
BanUndoForgotten ==
    /\ mpc = "undo"
    /\ NoFault /\ Unlock
    /\ UNCHANGED <<rules, now, db, nextId, waiters, cyc, live, phase, promised>>

BanUndo ==
    /\ mpc = "undo"
    /\ \/ NoFault /\ Delete(cur)
       \/ Fault("db") /\ UNCHANGED <<db, nextId>>
    /\ Unlock
    /\ UNCHANGED <<rules, now, waiters, cyc, live, phase, promised>>

(* A row exists: the rule is put back if it is missing, no goroutine is started. *)
RebanFirewall ==
    /\ mpc = "reban"
    /\ \/ /\ Ban(cur, TRUE)
          /\ mpc' = "extend"
          /\ UNCHANGED <<by, cur, until, asked, todo, me>>
       \/ Ban(cur, FALSE) /\ Unlock
    /\ UNCHANGED <<now, db, nextId, waiters, cyc, live, phase, promised>>

(* Seeded fault: an extended ban gets a second goroutine. *)
ExtendBanWithWaiter ==
    /\ mpc = "extend"
    /\ NoFault
    /\ IF until > db[cur].until THEN Update(cur, until) ELSE UNCHANGED <<db, nextId>>
    /\ promised' = [promised EXCEPT ![cur] = Latest(@, asked)]
    /\ waiters' = waiters \cup {NewWaiter(cur)}
    /\ Unlock
    /\ UNCHANGED <<rules, now, cyc, live, phase>>

(* Seeded fault: a later request may end the ban earlier. *)
ExtendBanAlways ==
    /\ mpc = "extend"
    /\ NoFault /\ Update(cur, until)
    /\ promised' = [promised EXCEPT ![cur] = Latest(@, asked)]
    /\ Unlock
    /\ UNCHANGED <<rules, now, waiters, cyc, live, phase>>

(* extendBan *)
ExtendBan ==
    /\ mpc = "extend"
    /\ \/ /\ NoFault
          /\ IF until > db[cur].until THEN Update(cur, until) ELSE UNCHANGED <<db, nextId>>
          /\ promised' = [promised EXCEPT ![cur] = Latest(@, asked)]
       \/ /\ until > db[cur].until
          /\ Fault("db")
          /\ UNCHANGED <<db, nextId, promised>>
    /\ Unlock
    /\ UNCHANGED <<rules, now, waiters, cyc, live, phase>>

-----------------------------------------------------------------------------
(* unban: the rule first, then the row; the row stays when the rule does. *)

(* Seeded fault: the goroutine does not try again. *)
UnbanReturnsWithoutRetry(ok) ==
    \/ by = "waiter" /\ waiters' = waiters \ {me} /\ Unlock
    \/ by = "manual" /\ Unlock /\ UNCHANGED waiters
    \/ /\ by = "restore"
       /\ mpc' = "expire" /\ cur' = NoIP
       /\ UNCHANGED <<waiters, by, until, asked, todo, me>>

(* How unban returns to its caller. *)
UnbanReturns(ok) ==
    \/ /\ by = "waiter"
       /\ waiters' = (waiters \ {me}) \cup
            (IF ok \/ me.retries = MaxUnbanRetries THEN {}
             ELSE {[me EXCEPT !.retries = @ + 1, !.wake = Capped(now + RetryInterval), !.pc = "sleep"]})
       /\ Unlock
    \/ /\ by = "manual"
       /\ Unlock
       /\ UNCHANGED waiters
    \/ /\ by = "restore"
       /\ mpc' = "expire"
       /\ cur' = NoIP
       /\ UNCHANGED <<waiters, by, until, asked, todo, me>>

(* Seeded fault: the row is deleted although a rule could not be. *)
UnbanFirewallIgnoringErrors ==
    /\ mpc = "unban"
    /\ Unban(cur, TRUE) \/ Unban(cur, FALSE)
    /\ mpc' = "unban_row"
    /\ UNCHANGED <<waiters, by, cur, until, asked, todo, me>>
    /\ UNCHANGED <<now, db, nextId, cyc, live, phase, promised>>

UnbanFirewall ==
    /\ mpc = "unban"
    /\ \/ /\ Unban(cur, TRUE)
          /\ mpc' = "unban_row"
          /\ UNCHANGED <<waiters, by, cur, until, asked, todo, me>>
       \/ Unban(cur, FALSE) /\ UnbanReturns(FALSE)
       \/ Fault("db") /\ UNCHANGED rules /\ UnbanReturns(FALSE)
    /\ UNCHANGED <<now, db, nextId, cyc, live, phase, promised>>

UnbanRow ==
    /\ mpc = "unban_row"
    /\ \/ NoFault /\ Delete(cur) /\ UnbanReturns(TRUE)
       \/ Fault("db") /\ UNCHANGED <<db, nextId>> /\ UnbanReturns(FALSE)
    /\ UNCHANGED <<rules, now, cyc, live, phase, promised>>

(* UnbanIP; without a row it does nothing. *)
UnbanIP(ip) ==
    /\ AllowUnbanIP
    /\ mpc = "idle" /\ phase = "run" /\ db[ip] # NoBan
    /\ mpc' = "unban" /\ by' = "manual" /\ cur' = ip
    /\ UNCHANGED <<rules, budget, now, db, nextId, waiters, cyc, live, phase, promised,
                   until, asked, todo, me>>

-----------------------------------------------------------------------------
(* waitUnban *)

(* waitForContext returns true; a timer and a cancelled context race. *)
WaiterWakes(w) ==
    /\ w.pc \in {"sleep", "poll"} /\ now >= w.wake
    /\ w.pc = "poll" => CtxLive(w)
    /\ waiters' = (waiters \ {w}) \cup {[w EXCEPT !.pc = "check"]}
    /\ UNCHANGED <<rules, budget, now, db, nextId, cyc, live, phase, promised, holder>>

WaiterCancelled(w) ==
    /\ w.pc \in {"sleep", "poll"} /\ ~CtxLive(w)
    /\ waiters' = waiters \ {w}
    /\ UNCHANGED <<rules, budget, now, db, nextId, cyc, live, phase, promised, holder>>

(* The row this goroutine was started for is gone, replaced or unreadable. *)
WaiterGivesUp(w) ==
    /\ \/ NoFault /\ db[w.ip] = NoBan
       \/ NoFault /\ db[w.ip] # NoBan /\ db[w.ip].id # w.id
       \/ Fault("db")
    /\ waiters' = waiters \ {w}
    /\ UNCHANGED holder

(* Seeded fault: waking up for a ban that was extended counts as a retry, past the limit. *)
WaiterSleepsAgainCounted(w) ==
    /\ NoFault
    /\ db[w.ip] # NoBan /\ db[w.ip].id = w.id /\ db[w.ip].until > now
    /\ waiters' = (waiters \ {w}) \cup
         {[w EXCEPT !.pc = "sleep", !.wake = db[w.ip].until, !.retries = @ + 1]}
    /\ UNCHANGED holder

(* The ban was extended meanwhile. *)
WaiterSleepsAgain(w) ==
    /\ NoFault
    /\ db[w.ip] # NoBan /\ db[w.ip].id = w.id /\ db[w.ip].until > now
    /\ waiters' = (waiters \ {w}) \cup {[w EXCEPT !.pc = "sleep", !.wake = db[w.ip].until]}
    /\ UNCHANGED holder

(* Seeded fault: the goroutine does not read again how long the ban lasts. *)
WaiterUnbansStale(w) ==
    /\ NoFault
    /\ db[w.ip] # NoBan /\ db[w.ip].id = w.id
    /\ mpc' = "unban" /\ by' = "waiter" /\ cur' = w.ip /\ me' = w
    /\ UNCHANGED <<waiters, until, asked, todo>>

WaiterUnbans(w) ==
    /\ NoFault
    /\ db[w.ip] # NoBan /\ db[w.ip].id = w.id /\ db[w.ip].until <= now
    /\ mpc' = "unban" /\ by' = "waiter" /\ cur' = w.ip /\ me' = w
    /\ UNCHANGED <<waiters, until, asked, todo>>

WaiterChecks(w) ==
    /\ w.pc = "check" /\ mpc = "idle"
    /\ WaiterGivesUp(w) \/ WaiterSleepsAgain(w) \/ WaiterUnbans(w)
    /\ UNCHANGED <<rules, now, db, nextId, cyc, live, phase, promised>>

-----------------------------------------------------------------------------
(* RestoreBans, at the start of a cycle. *)

RestoreExpired ==
    /\ phase = "restore" /\ mpc = "idle"
    /\ \/ /\ NoFault
          /\ mpc' = "expire" /\ by' = "restore" /\ todo' = GetExpired
          /\ UNCHANGED <<phase, cur, until, asked, me>>
       \/ Fault("db") /\ phase' = "run" /\ UNCHANGED holder
    /\ UNCHANGED <<rules, now, db, nextId, waiters, cyc, live, promised>>

RestoreUnbans(ip) ==
    /\ mpc = "expire" /\ ip \in todo
    /\ mpc' = "unban" /\ cur' = ip /\ todo' = todo \ {ip}
    /\ UNCHANGED <<rules, budget, now, db, nextId, waiters, cyc, live, phase, promised,
                   by, until, asked, me>>

RestoreBanned ==
    /\ mpc = "expire" /\ todo = {}
    /\ \/ /\ NoFault
          /\ mpc' = "reapply" /\ todo' = GetBanned
          /\ UNCHANGED <<phase, by, cur, until, asked, me>>
       \/ Fault("db") /\ phase' = "run" /\ Unlock
    /\ UNCHANGED <<rules, now, db, nextId, waiters, cyc, live, promised>>

RestoreReapplies(ip) ==
    /\ mpc = "reapply" /\ ip \in todo
    /\ todo' = todo \ {ip}
    /\ \/ /\ Ban(ip, TRUE)
          /\ waiters' = waiters \cup {NewWaiter(ip)}
          /\ UNCHANGED <<mpc, cur>>
       \/ /\ Ban(ip, FALSE)
          /\ mpc' = "reapply_undo" /\ cur' = ip
          /\ UNCHANGED waiters
    /\ UNCHANGED <<now, db, nextId, cyc, live, phase, promised, by, until, asked, me>>

RestoreDeletes ==
    /\ mpc = "reapply_undo"
    /\ \/ NoFault /\ Delete(cur)
       \/ Fault("db") /\ UNCHANGED <<db, nextId>>
    /\ mpc' = "reapply" /\ cur' = NoIP
    /\ UNCHANGED <<rules, now, waiters, cyc, live, phase, promised, by, until, asked, todo, me>>

RestoreReturns ==
    /\ mpc = "reapply" /\ todo = {}
    /\ phase' = "run" /\ Unlock
    /\ UNCHANGED <<rules, budget, now, db, nextId, waiters, cyc, live, promised>>

-----------------------------------------------------------------------------
(* The cycles of monitorHub and the process around them. *)

(* A monitor or the connector cancels the cycle's context. *)
CancelCycle ==
    /\ phase = "run" /\ live /\ cyc < MaxCycles
    /\ live' = FALSE
    /\ UNCHANGED <<rules, budget, now, db, nextId, waiters, cyc, phase, promised, holder>>

(* The monitors are drained (no BanIP is running) and the next cycle begins; *)
(* the goroutines of the old cycle are not waited for.                      *)
NextCycle ==
    /\ phase = "run" /\ ~live /\ by # "ban"
    /\ cyc' = cyc + 1 /\ live' = TRUE /\ phase' = "restore"
    /\ UNCHANGED <<rules, budget, now, db, nextId, waiters, promised, holder>>

(* The process dies at any point and is started again; a reboot loses the rules. *)
Crash(reboot) ==
    /\ cyc < MaxCycles
    /\ cyc' = cyc + 1 /\ live' = TRUE /\ phase' = "restore"
    /\ waiters' = {} /\ Unlock
    /\ rules' = IF reboot THEN [ip \in IPs |-> NoRules] ELSE rules
    /\ UNCHANGED <<budget, now, db, nextId, promised>>

-----------------------------------------------------------------------------
HolderStep == BanFirewall \/ BanUndo \/ RebanFirewall \/ ExtendBan
              \/ UnbanFirewall \/ UnbanRow

Restore == \/ RestoreExpired \/ RestoreBanned \/ RestoreDeletes \/ RestoreReturns
           \/ \E ip \in IPs : RestoreUnbans(ip) \/ RestoreReapplies(ip)

Waiter == \E w \in waiters : WaiterWakes(w) \/ WaiterCancelled(w) \/ WaiterChecks(w)

Next ==
    \/ Tick
    \/ \E ip \in IPs, s \in BanSeconds : BanIP(ip, s)
    \/ \E ip \in IPs : UnbanIP(ip)
    \/ HolderStep
    \/ Restore
    \/ Waiter
    \/ CancelCycle
    \/ NextCycle
    \/ \E reboot \in BOOLEAN : Crash(reboot)

Spec == Init /\ [][Next]_vars

(***************************************************************************)
(* The Go scheduler runs every goroutine that can run, a timer fires, a    *)
(* mutex that is free is handed to those who queue for it (sync.Mutex is   *)
(* starvation free), and RunMonitoring goes on to the next cycle.          *)
(***************************************************************************)
Fairness ==
    /\ WF_vars(Tick)
    /\ WF_vars(HolderStep)
    /\ WF_vars(Restore)
    /\ WF_vars(NextCycle)
    /\ \A ip \in IPs : SF_vars(\E w \in waiters : w.ip = ip /\ WaiterChecks(w))
    /\ \A ip \in IPs : WF_vars(\E w \in waiters : w.ip = ip /\ (WaiterWakes(w) \/ WaiterCancelled(w)))

FairSpec == Spec /\ Fairness

-----------------------------------------------------------------------------
Waiters == [ip : IPs, id : Nat, wake : Int, retries : 0 .. MaxUnbanRetries, cyc : Nat,
            pc : {"sleep", "poll", "check"}]

HolderOK ==
    /\ mpc \in {"idle", "ban", "undo", "reban", "extend", "unban", "unban_row",
                "expire", "reapply", "reapply_undo"}
    /\ by \in {"nobody", "ban", "waiter", "manual", "restore"}
    /\ cur \in IPs \cup {NoIP}
    /\ until \in Int /\ asked \in Int
    /\ todo \subseteq IPs
    /\ me \in Waiters \cup {NoWaiter}

(* The type of every variable: rows, rules, goroutines and the mutex holder's locals. *)
TypeOK ==
    /\ rules \in [IPs -> [Chains -> Nat]]
    /\ budget \in Nat
    /\ now \in Nat
    /\ db \in [IPs -> [id : Nat, until : Int] \cup {NoBan}]
    /\ nextId \in Nat
    /\ waiters \subseteq Waiters
    /\ cyc \in Nat
    /\ live \in BOOLEAN
    /\ phase \in {"restore", "run"}
    /\ promised \in [IPs -> Int]
    /\ HolderOK

Blocked(ip) == \E c \in Chains : rules[ip][c] > 0

(***************************************************************************)
(* Every rule in the firewall is backed by a row, at every point where the *)
(* agent may die: BanIP adds the row before the rule, unban removes the    *)
(* rule before the row.  A rule without a row would never be removed.      *)
(***************************************************************************)
RuleHasRow == \A ip \in IPs : Blocked(ip) => db[ip] # NoBan

(***************************************************************************)
(* Once RestoreBans has returned, a row that has not expired is enforced   *)
(* in at least one chain, whoever inserted, extended or restored it.       *)
(***************************************************************************)
ActiveRowEnforced ==
    (mpc = "idle" /\ phase = "run") =>
        \A ip \in IPs : (db[ip] # NoBan /\ db[ip].until > now) => Blocked(ip)

(***************************************************************************)
(* No goroutine and no restart lifts a ban before the time that the        *)
(* accepted BanIP calls asked for (the latest of them, for a ban that was  *)
(* extended); a reboot and UnbanIP are the exceptions.                     *)
(***************************************************************************)
NoEarlyLift ==
    [][\A ip \in IPs :
        (Blocked(ip) /\ ~Blocked(ip)' /\ cyc' = cyc /\ by # "manual")
            => now >= promised[ip]]_vars

(***************************************************************************)
(* A row is watched by at most one goroutine of a cycle: BanIP starts one  *)
(* for a row it adds, never for one it extends, and RestoreBans does not   *)
(* meet rows that this cycle's goroutines watch.                           *)
(***************************************************************************)
OneWaiterPerRow ==
    \A v, w \in waiters : (v.id = w.id /\ v.cyc = w.cyc) => v = w

(* A banned address does not stay banned for ever, restarts included: *)
(* ban_seconds is how long it stays banned.                           *)
BanIsLifted == \A ip \in IPs : Blocked(ip) ~> ~Blocked(ip)

-----------------------------------------------------------------------------
(***************************************************************************)
(* The abstract view: a row without a rule is a ban asked for, a row with  *)
(* a rule a ban in force; a rule without a row is left only by a check     *)
(* that failed and was taken for the answer "no rule".                     *)
(***************************************************************************)
StatusOf(ip) ==
    IF db[ip] = NoBan
    THEN IF Blocked(ip) THEN "stray" ELSE "free"
    ELSE IF Blocked(ip) THEN "held" ELSE "asked"

(* A goroutine of this cycle was started for the row. *)
Watched(ip) ==
    /\ db[ip] # NoBan
    /\ \E w \in waiters : w.ip = ip /\ w.id = db[ip].id /\ w.cyc = cyc

(***************************************************************************)
(* A ban that a goroutine of the current cycle watches is lifted, although *)
(* deleting a rule fails (as often as it is tried again), the ban is       *)
(* extended and other goroutines wake, unless the cycle ends first.  A     *)
(* rule outlives its row only where a failing check was taken for the      *)
(* answer "no rule".                                                       *)
(***************************************************************************)
WatchedBanIsLifted ==
    \A ip \in IPs \ RefusedIPs :
        (Blocked(ip) /\ Watched(ip)) ~>
            (StatusOf(ip) \in {"free", "stray"} \/ ~live \/ phase = "restore")

Abstract == INSTANCE Sentences WITH
    Terms  <- BanSeconds,
    AllowStray <- "check" \in Faults,
    status <- [ip \in IPs |-> StatusOf(ip)],
    due    <- promised,
    pardon <- IF by = "manual" THEN {cur} ELSE {},
    cycle  <- cyc

(***************************************************************************)
(* The pool implements Sentences: with its crashes, reboots, failing       *)
(* commands, extensions and goroutines of earlier cycles, every address is *)
(* held, extended and released as the abstract pool would.                 *)
(***************************************************************************)
ImplementsSentences == Abstract!Spec
=============================================================================
