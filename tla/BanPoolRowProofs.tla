-------------------------- MODULE BanPoolRowProofs --------------------------
(***************************************************************************)
(* Proofs about what stands behind a row of the table bans: the goroutine  *)
(* that watches it and the rule that enforces it.                          *)
(***************************************************************************)
EXTENDS BanPoolProofs

(***************************************************************************)
(* One goroutine per row and cycle.  The identity of a row is never used   *)
(* again, no row has been given to a goroutine while BanIP is between its  *)
(* insert and its rule, and until RestoreBans has returned the goroutines  *)
(* of the cycle watch only rows it has done with.                          *)
(***************************************************************************)
Fresh(ip) == \A w \in waiters : w.id # db[ip].id

Unwatched(ip) == \A w \in waiters : w.cyc = cyc => w.id # db[ip].id

IdsInv ==
    /\ \A w \in waiters : w.id < nextId /\ w.cyc <= cyc
    /\ \A ip \in IPs : db[ip] # NoBan => db[ip].id < nextId
    /\ \A i, j \in IPs : (db[i] # NoBan /\ db[j] # NoBan /\ db[i].id = db[j].id) => i = j

(* Which operations can hold the mutex before and after RestoreBans returned. *)
PhaseInv ==
    /\ by = "restore" => phase = "restore"
    /\ by = "ban" => phase = "run"

WatchInv ==
    /\ mpc = "ban" => Fresh(cur)
    /\ (phase = "restore" /\ mpc \notin {"reapply", "reapply_undo"}) =>
            \A w \in waiters : w.cyc < cyc
    /\ mpc \in {"reapply", "reapply_undo"} => \A ip \in todo : Unwatched(ip)

WaiterInv == OneWaiterPerRow /\ IdsInv /\ PhaseInv /\ WatchInv

(* Every goroutine after the step continues one from before it. *)
Continues == \A v \in waiters' : \E w \in waiters : v.id = w.id /\ v.cyc = w.cyc

(* A goroutine that changes its own state, or ends, stays the only one of its row. *)
LEMMA OwnState ==
    ASSUME OneWaiterPerRow, NEW w \in waiters, NEW v, v.id = w.id, v.cyc = w.cyc,
           waiters' \subseteq (waiters \ {w}) \cup {v}
    PROVE  OneWaiterPerRow' /\ Continues
  BY DEF OneWaiterPerRow, Continues

(* A step that starts no goroutine, adds no row and stays in its cycle. *)
LEMMA WatchFrame ==
    ASSUME IInv, IInv', WaiterInv, PhaseInv', OneWaiterPerRow', Continues,
           nextId' = nextId, cyc' = cyc,
           \A ip \in IPs : db'[ip] # NoBan => db[ip] # NoBan /\ db'[ip].id = db[ip].id,
           mpc' = "ban" => mpc = "ban" /\ cur' = cur,
           (phase' = "restore" /\ mpc' \notin {"reapply", "reapply_undo"}) =>
                \A w \in waiters : w.cyc < cyc,
           mpc' \in {"reapply", "reapply_undo"} =>
                \/ mpc \in {"reapply", "reapply_undo"} /\ todo' \subseteq todo
                \/ \A w \in waiters : w.cyc < cyc
    PROVE  WaiterInv'
  <1>1. IdsInv'
    <2>1. \A w \in waiters' : w.id < nextId' /\ w.cyc <= cyc'
      BY DEF WaiterInv, IdsInv, Continues
    <2> QED
      BY <2>1 DEF WaiterInv, IdsInv
  <1>2. ASSUME mpc' = "ban" PROVE Fresh(cur)'
    <2>1. cur' \in IPs /\ db'[cur'] # NoBan
      BY <1>2 DEF IInv, HolderInv
    <2>2. db'[cur'].id = db[cur].id /\ Fresh(cur)
      BY <1>2, <2>1 DEF WaiterInv, WatchInv
    <2> QED
      BY <2>2 DEF Fresh, Continues
  <1>3. ASSUME phase' = "restore" /\ mpc' \notin {"reapply", "reapply_undo"}
        PROVE  \A w \in waiters' : w.cyc < cyc'
    BY <1>3 DEF Continues
  <1>4. ASSUME mpc' \in {"reapply", "reapply_undo"}, NEW ip \in todo'
        PROVE  Unwatched(ip)'
    <2>1. ip \in IPs /\ db'[ip] # NoBan
      BY <1>4 DEF IInv, HolderInv, TypeOK, HolderOK
    <2>2. db'[ip].id = db[ip].id
      BY <2>1
    <2>3. CASE mpc \in {"reapply", "reapply_undo"} /\ todo' \subseteq todo
      BY <1>4, <2>2, <2>3 DEF WaiterInv, WatchInv, Unwatched, Continues
    <2>4. CASE \A w \in waiters : w.cyc < cyc
      <3>1. \A w \in waiters : w.cyc # cyc
        BY <2>4 DEF IInv, TypeOK
      <3> QED
        BY <3>1 DEF Unwatched, Continues
    <2> QED
      BY <1>4, <2>3, <2>4
  <1> QED
    BY <1>1, <1>2, <1>3, <1>4 DEF WaiterInv, WatchInv

(* The goroutine that BanIP or RestoreBans starts is the only one of its row. *)
LEMMA NewWatch ==
    ASSUME IInv, IInv', WaiterInv, NEW ip \in IPs, db[ip] # NoBan, Unwatched(ip),
           waiters' = waiters \cup {NewWaiter(ip)}, UNCHANGED <<db, nextId, cyc>>
    PROVE  OneWaiterPerRow' /\ IdsInv'
  <1>1. NewWaiter(ip).id = db[ip].id /\ NewWaiter(ip).cyc = cyc
    BY DEF NewWaiter
  <1>2. OneWaiterPerRow'
    BY <1>1 DEF WaiterInv, OneWaiterPerRow, Unwatched
  <1>3. cyc <= cyc
    BY DEF IInv, TypeOK
  <1>4. IdsInv'
    BY <1>1, <1>3 DEF WaiterInv, IdsInv
  <1> QED
    BY <1>2, <1>4

(* BanIP and the steps of the operation it starts. *)
LEMMA BanStepWatch ==
    ASSUME IInv, IInv', WaiterInv,
           \/ \E ip \in IPs, s \in BanSeconds : BanIP(ip, s)
           \/ BanFirewall \/ BanUndo \/ RebanFirewall \/ ExtendBan
    PROVE  WaiterInv'
  <1> TypeOK /\ HolderInv /\ OneWaiterPerRow /\ IdsInv /\ PhaseInv /\ WatchInv
    BY DEF IInv, WaiterInv
  <1>1. ASSUME NEW ip \in IPs, NEW s \in BanSeconds, BanIP(ip, s) PROVE WaiterInv'
    <2>1. phase' = "run" /\ by' = "ban" /\ mpc' \in {"ban", "reban"} /\ cur' = ip
          /\ UNCHANGED <<waiters, cyc>>
      BY <1>1 DEF BanIP
    <2>2. CASE db[ip] = NoBan
      <3>1. nextId \in Nat /\ nextId' = nextId + 1 /\ db'[ip].id = nextId
        BY <1>1, <2>2 DEF BanIP, Add, TypeOK
      <3>2. \A j \in IPs \ {ip} : db'[j] = db[j]
        BY <1>1, <2>2 DEF BanIP, Add, TypeOK
      <3>3. \A j \in IPs : db[j] # NoBan => db[j].id \in Nat
        BY DEF TypeOK
      <3>4. \A w \in waiters : w.id \in Nat
        BY DEF TypeOK, Waiters
      <3>5. IdsInv'
        BY <2>1, <2>2, <3>1, <3>2, <3>3, <3>4 DEF IdsInv
      <3>6. Fresh(ip)'
        BY <2>1, <3>1, <3>4 DEF IdsInv, Fresh
      <3> QED
        BY <2>1, <3>5, <3>6 DEF WaiterInv, OneWaiterPerRow, PhaseInv, WatchInv
    <2>3. CASE db[ip] # NoBan
      BY <1>1, <2>1, <2>3 DEF BanIP, WaiterInv, OneWaiterPerRow, IdsInv, PhaseInv, WatchInv
    <2> QED
      BY <2>2, <2>3
  <1>2. CASE BanFirewall
    <2>1. cur \in IPs /\ db[cur] # NoBan /\ by = "ban" /\ phase = "run" /\ Unwatched(cur)
      BY <1>2 DEF BanFirewall, HolderInv, PhaseInv, WatchInv, Fresh, Unwatched
    <2>2. CASE waiters' = waiters \cup {NewWaiter(cur)} /\ Unlock
      <3>1. OneWaiterPerRow' /\ IdsInv'
        BY <1>2, <2>1, <2>2, NewWatch DEF BanFirewall
      <3> QED
        BY <1>2, <2>1, <2>2, <3>1 DEF BanFirewall, Unlock, WaiterInv, PhaseInv, WatchInv
    <2>3. CASE mpc' = "undo" /\ UNCHANGED <<waiters, by, cur, until, asked, todo, me>>
      BY <1>2, <2>1, <2>3
         DEF BanFirewall, WaiterInv, OneWaiterPerRow, IdsInv, PhaseInv, WatchInv
    <2> QED
      BY <1>2, <2>2, <2>3 DEF BanFirewall
  <1>3. CASE BanUndo \/ RebanFirewall \/ ExtendBan
    <2>1. by = "ban" /\ phase = "run" /\ cur \in IPs /\ db[cur] # NoBan
      BY <1>3 DEF BanUndo, RebanFirewall, ExtendBan, HolderInv, PhaseInv
    <2>2. phase' = "run" /\ mpc' \in {"idle", "extend"} /\ UNCHANGED <<waiters, cyc, nextId>>
          /\ by' \in {"ban", "nobody"}
      BY <1>3, <2>1 DEF BanUndo, RebanFirewall, ExtendBan, Unlock, Delete, Update
    <2>3. \A ip \in IPs : db'[ip] # NoBan => db[ip] # NoBan /\ db'[ip].id = db[ip].id
      <3>1. \/ db' = db
            \/ db' = [db EXCEPT ![cur] = NoBan]
            \/ db' = [db EXCEPT ![cur] = [db[cur] EXCEPT !.until = until]]
        BY <1>3 DEF BanUndo, RebanFirewall, ExtendBan, Delete, Update
      <3>2. db[cur] \in [id : Nat, until : Int] /\ until \in Int
        BY <2>1 DEF TypeOK, HolderOK
      <3>3. [db[cur] EXCEPT !.until = until].id = db[cur].id
        BY <3>2
      <3> QED
        BY <2>1, <3>1, <3>3 DEF TypeOK
    <2>4. OneWaiterPerRow' /\ Continues /\ PhaseInv'
      BY <2>2 DEF OneWaiterPerRow, Continues, PhaseInv
    <2> QED
      BY <2>2, <2>3, <2>4, WatchFrame
  <1> QED
    BY <1>1, <1>2, <1>3

(* unban, whoever called it, and UnbanIP. *)
LEMMA UnbanStepWatch ==
    ASSUME IInv, IInv', WaiterInv,
           (\E ip \in IPs : UnbanIP(ip)) \/ UnbanFirewall \/ UnbanRow
    PROVE  WaiterInv'
  <1> TypeOK /\ HolderInv /\ OneWaiterPerRow /\ IdsInv /\ PhaseInv /\ WatchInv
    BY DEF IInv, WaiterInv
  <1>1. UNCHANGED <<nextId, cyc, phase>> /\ mpc' \in {"idle", "expire", "unban", "unban_row"}
        /\ by' \in {"nobody", "manual", by}
    BY DEF UnbanIP, UnbanFirewall, UnbanRow, Delete, UnbanReturns, Unlock
  <1>2. mpc \in {"idle", "unban", "unban_row"}
    BY DEF UnbanIP, UnbanFirewall, UnbanRow
  <1>3. \A ip \in IPs : db'[ip] # NoBan => db[ip] # NoBan /\ db'[ip].id = db[ip].id
    <2>1. db' = db \/ (cur \in IPs /\ db' = [db EXCEPT ![cur] = NoBan])
      BY DEF UnbanIP, UnbanFirewall, UnbanRow, Delete, HolderInv
    <2> QED
      BY <2>1 DEF TypeOK
  <1>4. OneWaiterPerRow' /\ Continues
    <2>1. CASE waiters' = waiters
      BY <2>1 DEF OneWaiterPerRow, Continues
    <2>2. CASE waiters' # waiters
      <3>1. PICK ok \in BOOLEAN : UnbanReturns(ok)
        BY <2>2 DEF UnbanIP, UnbanFirewall, UnbanRow
      <3>2. by = "waiter"
        BY <2>2, <3>1 DEF UnbanReturns
      <3>3. me \in waiters /\ me \in Waiters
        BY <3>2 DEF HolderInv, TypeOK
      <3> DEFINE again == [me EXCEPT !.retries = @ + 1, !.wake = Capped(now + RetryInterval),
                                     !.pc = "sleep"]
      <3>4. again.id = me.id /\ again.cyc = me.cyc
        BY <3>3 DEF Waiters
      <3>5. waiters' \subseteq (waiters \ {me}) \cup {again}
        BY <3>1, <3>2 DEF UnbanReturns
      <3> HIDE DEF again
      <3> QED
        BY <3>3, <3>4, <3>5, OwnState
    <2> QED
      BY <2>1, <2>2
  <1>5. PhaseInv'
    BY <1>1 DEF PhaseInv
  <1> QED
    BY <1>1, <1>2, <1>3, <1>4, <1>5, WatchFrame DEF WatchInv

(* The goroutines waitUnban. *)
LEMMA WaiterStepWatch ==
    ASSUME IInv, IInv', WaiterInv, Waiter
    PROVE  WaiterInv'
  <1> TypeOK /\ HolderInv /\ OneWaiterPerRow /\ IdsInv /\ PhaseInv /\ WatchInv
    BY DEF IInv, WaiterInv
  <1>1. PICK w \in waiters : WaiterWakes(w) \/ WaiterCancelled(w) \/ WaiterChecks(w)
    BY DEF Waiter
  <1>2. UNCHANGED <<db, nextId, cyc, phase>>
    BY <1>1 DEF WaiterWakes, WaiterCancelled, WaiterChecks
  <1>3. \/ UNCHANGED <<mpc, by, cur, todo>>
        \/ mpc = "idle" /\ mpc' = "unban" /\ by' = "waiter"
    BY <1>1 DEF WaiterWakes, WaiterCancelled, WaiterChecks, WaiterGivesUp, WaiterSleepsAgain,
                WaiterUnbans, holder
  <1>4. OneWaiterPerRow' /\ Continues
    <2>1. w \in Waiters
      BY DEF TypeOK
    <2>2. \A v \in {[w EXCEPT !.pc = "check"], [w EXCEPT !.pc = "sleep", !.wake = db[w.ip].until], w} :
            v.id = w.id /\ v.cyc = w.cyc
      BY <2>1 DEF Waiters
    <2>3. \E v \in {[w EXCEPT !.pc = "check"], [w EXCEPT !.pc = "sleep", !.wake = db[w.ip].until], w} :
            waiters' \subseteq (waiters \ {w}) \cup {v}
      BY <1>1 DEF WaiterWakes, WaiterCancelled, WaiterChecks, WaiterGivesUp, WaiterSleepsAgain,
                  WaiterUnbans
    <2> QED
      BY <2>2, <2>3, OwnState
  <1>5. PhaseInv'
    BY <1>2, <1>3 DEF PhaseInv
  <1> QED
    BY <1>2, <1>3, <1>4, <1>5, WatchFrame DEF WatchInv

(* RestoreBans. *)
LEMMA RestoreStepWatch ==
    ASSUME IInv, IInv', WaiterInv, Restore
    PROVE  WaiterInv'
  <1> TypeOK /\ HolderInv /\ OneWaiterPerRow /\ IdsInv /\ PhaseInv /\ WatchInv
    BY DEF IInv, WaiterInv
  <1>1. CASE RestoreExpired \/ RestoreBanned \/ RestoreDeletes \/ RestoreReturns
             \/ \E ip \in IPs : RestoreUnbans(ip)
    <2>1. UNCHANGED <<waiters, cyc, nextId>>
      BY <1>1 DEF RestoreExpired, RestoreBanned, RestoreDeletes, RestoreReturns, RestoreUnbans,
                  Delete
    <2>2. OneWaiterPerRow' /\ Continues
      BY <2>1 DEF OneWaiterPerRow, Continues
    <2>3. \A ip \in IPs : db'[ip] # NoBan => db[ip] # NoBan /\ db'[ip].id = db[ip].id
      <3>1. db' = db \/ (cur \in IPs /\ db' = [db EXCEPT ![cur] = NoBan])
        BY <1>1 DEF RestoreExpired, RestoreBanned, RestoreDeletes, RestoreReturns, RestoreUnbans,
                    Delete, HolderInv
      <3> QED
        BY <3>1 DEF TypeOK
    <2>4. PhaseInv' /\ mpc' # "ban"
      BY <1>1 DEF RestoreExpired, RestoreBanned, RestoreDeletes, RestoreReturns, RestoreUnbans,
                  Unlock, HolderInv, PhaseInv, holder
    <2>5. CASE RestoreDeletes
      BY <2>1, <2>2, <2>3, <2>4, <2>5, WatchFrame DEF RestoreDeletes
    <2>6. CASE RestoreReturns
      BY <2>1, <2>2, <2>3, <2>4, <2>6, WatchFrame DEF RestoreReturns, Unlock
    <2>7. CASE RestoreExpired \/ RestoreBanned \/ \E ip \in IPs : RestoreUnbans(ip)
      <3>1. phase = "restore" /\ mpc \notin {"reapply", "reapply_undo"}
        BY <2>7 DEF RestoreExpired, RestoreBanned, RestoreUnbans, HolderInv, PhaseInv
      <3>2. \A w \in waiters : w.cyc < cyc
        BY <3>1 DEF WatchInv
      <3> QED
        BY <2>1, <2>2, <2>3, <2>4, <3>2, WatchFrame
    <2> QED
      BY <1>1, <2>5, <2>6, <2>7
  <1>2. ASSUME NEW ip \in IPs, RestoreReapplies(ip) PROVE WaiterInv'
    <2>1. db[ip] # NoBan /\ by = "restore" /\ Unwatched(ip) /\ ip \in todo /\ mpc = "reapply"
          /\ phase = "restore"
      BY <1>2 DEF RestoreReapplies, HolderInv, WatchInv, PhaseInv
    <2>2. UNCHANGED <<db, nextId, cyc, phase, by>> /\ todo' = todo \ {ip}
          /\ mpc' \in {"reapply", "reapply_undo"}
      BY <1>2 DEF RestoreReapplies
    <2>3. CASE waiters' = waiters
      <3>1. OneWaiterPerRow' /\ Continues /\ PhaseInv'
        BY <2>2, <2>3 DEF OneWaiterPerRow, Continues, PhaseInv
      <3> QED
        BY <2>1, <2>2, <3>1, WatchFrame
    <2>4. CASE waiters' = waiters \cup {NewWaiter(ip)}
      <3>1. OneWaiterPerRow' /\ IdsInv'
        BY <2>1, <2>2, <2>4, NewWatch
      <3>2. \A j \in todo' : j \in IPs /\ j # ip /\ db[j] # NoBan
        BY <2>1, <2>2 DEF HolderInv, TypeOK, HolderOK
      <3>3. \A j \in todo' : db[j].id # db[ip].id
        BY <2>1, <3>2 DEF IdsInv
      <3>4. \A j \in todo' : Unwatched(j)'
        <4>1. NewWaiter(ip).id = db[ip].id
          BY DEF NewWaiter
        <4> QED
          BY <2>1, <2>2, <2>4, <3>2, <3>3, <4>1 DEF WatchInv, Unwatched
      <3> QED
        BY <2>2, <3>1, <3>4 DEF WaiterInv, WatchInv, PhaseInv
    <2> QED
      BY <1>2, <2>3, <2>4 DEF RestoreReapplies
  <1> QED
    BY <1>1, <1>2 DEF Restore

(* The clock, the cycles and the process. *)
LEMMA CycleStepWatch ==
    ASSUME IInv, IInv', WaiterInv,
           \/ Tick \/ CancelCycle \/ NextCycle
           \/ \E reboot \in BOOLEAN : Crash(reboot)
           \/ UNCHANGED vars
    PROVE  WaiterInv'
  <1> TypeOK /\ HolderInv /\ OneWaiterPerRow /\ IdsInv /\ PhaseInv /\ WatchInv
    BY DEF IInv, WaiterInv
  <1>1. CASE Tick \/ CancelCycle \/ UNCHANGED vars
    BY <1>1 DEF Tick, CancelCycle, vars, holder, WaiterInv, OneWaiterPerRow, IdsInv, PhaseInv,
                WatchInv, Fresh, Unwatched
  <1>2. CASE NextCycle
    <2>1. UNCHANGED <<waiters, db, nextId, mpc, by, cur, todo>> /\ cyc' = cyc + 1
      BY <1>2 DEF NextCycle, holder
    <2>2. phase' = "restore" /\ by # "ban" /\ by # "restore"
      BY <1>2 DEF NextCycle, PhaseInv
    <2>3. mpc \notin {"ban", "reapply", "reapply_undo"}
      BY <2>2 DEF HolderInv
    <2>4. \A w \in waiters : w.cyc \in Nat /\ cyc \in Nat
      BY DEF TypeOK, Waiters
    <2>5. \A w \in waiters : w.cyc < cyc' /\ w.cyc <= cyc'
      BY <2>1, <2>4 DEF IdsInv
    <2> QED
      BY <2>1, <2>2, <2>3, <2>5 DEF WaiterInv, OneWaiterPerRow, IdsInv, PhaseInv, WatchInv
  <1>3. CASE \E reboot \in BOOLEAN : Crash(reboot)
    BY <1>3 DEF Crash, Unlock, WaiterInv, OneWaiterPerRow, IdsInv, PhaseInv, WatchInv
  <1> QED
    BY <1>1, <1>2, <1>3

LEMMA InitWaiterInv == Init => WaiterInv
  BY DEF Init, WaiterInv, OneWaiterPerRow, IdsInv, PhaseInv, WatchInv

LEMMA SpecWaiterInv == Spec => []WaiterInv
  <1>1. IInv /\ IInv' /\ WaiterInv /\ [Next]_vars => WaiterInv'
    <2> SUFFICES ASSUME IInv, IInv', WaiterInv, [Next]_vars PROVE WaiterInv'
      OBVIOUS
    <2> QED
      BY BanStepWatch, UnbanStepWatch, WaiterStepWatch, RestoreStepWatch, CycleStepWatch
         DEF Next, HolderStep
  <1> QED
    BY <1>1, InitWaiterInv, SpecIInv, PTL DEF Spec

(* A row is watched by at most one goroutine of a cycle, whatever fails,     *)
(* crashes or is extended: BanIP starts none for a row it finds, and         *)
(* RestoreBans runs before any goroutine of its cycle.                       *)
THEOREM RowsHaveOneWaiter == Spec => []OneWaiterPerRow
  <1>1. WaiterInv => OneWaiterPerRow
    BY DEF WaiterInv
  <1> QED
    BY <1>1, SpecWaiterInv, PTL

-----------------------------------------------------------------------------
(***************************************************************************)
(* A row that has not expired is enforced.  Between the steps of an        *)
(* operation the row it works on may lack its rule, and so may the rows    *)
(* RestoreBans has yet to come to; a row is extended only while its rule   *)
(* is there.                                                               *)
(***************************************************************************)
Pending ==
    (IF mpc \in {"ban", "undo", "reapply_undo", "unban_row"} THEN {cur} ELSE {})
    \cup (IF mpc \in {"reapply", "reapply_undo"} THEN todo ELSE {})

Running == phase = "run" \/ mpc \in {"reapply", "reapply_undo"}

(* The row of ip, if there is one, has expired or is enforced. *)
Enforced(ip) == (db[ip] # NoBan /\ db[ip].until > now) => Blocked(ip)

EnforcedInv ==
    /\ mpc = "extend" => Blocked(cur)
    /\ Running => \A ip \in IPs \ Pending : Enforced(ip)

(* A rule that is there is still there, a row is neither new nor longer. *)
LEMMA EnforcedFrame ==
    ASSUME IInv, NEW ip \in IPs, Enforced(ip), now' \in {now, now + 1},
           db'[ip] = db[ip], Blocked(ip) => Blocked(ip)'
    PROVE  Enforced(ip)'
  <1>1. now \in Nat /\ now' \in Nat /\ (db[ip] # NoBan => db[ip].until \in Int)
    BY DEF IInv, TypeOK
  <1> QED
    BY <1>1 DEF Enforced

(* Ban takes no rule away, and when it succeeds there is one. *)
LEMMA BanBlocks ==
    ASSUME IInv, NEW ip \in IPs, NEW ok \in BOOLEAN, Ban(ip, ok)
    PROVE  /\ \A j \in IPs : Blocked(j) => Blocked(j)'
           /\ (ok /\ Chains # {}) => Blocked(ip)'
  <1> TypeOK /\ rules \in [IPs -> [Chains -> Nat]]
    BY DEF IInv, TypeOK
  <1>1. \A j \in IPs : Blocked(j) => Blocked(j)'
    BY BanEffect DEF Blocked
  <1>2. ASSUME ok, Chains # {} PROVE Blocked(ip)'
    <2>1. ip \notin RefusedIPs
      BY <1>2 DEF Ban
    <2>2. PICK seen \in SUBSET Chains, failed \in SUBSET Chains :
            /\ HasRule(ip, seen)
            /\ failed \cap seen = {}
            /\ ok = BanSucceeds(failed)
            /\ rules' = [rules EXCEPT ![ip] = [c \in Chains |->
                            IF c \in seen \cup failed THEN @[c] ELSE Inserted(@[c])]]
      BY <2>1 DEF Ban
    <2>3. PICK c \in Chains : c \notin failed
      BY <1>2, <2>2 DEF BanSucceeds
    <2>4. rules[ip][c] \in Nat
      OBVIOUS
    <2>5. CASE c \in seen
      <3>1. rules[ip][c] > 0
        BY <2>2, <2>5 DEF HasRule
      <3> QED
        BY <3>1, BanEffect DEF Blocked
    <2>6. CASE c \notin seen
      <3>1. rules'[ip][c] = Inserted(rules[ip][c])
        BY <2>2, <2>3, <2>6
      <3> QED
        BY <2>4, <3>1 DEF Blocked, Inserted
    <2> QED
      BY <2>5, <2>6
  <1> QED
    BY <1>1, <1>2

(* Unban touches one address, adds no rule, and when it fails leaves one. *)
LEMMA UnbanBlocks ==
    ASSUME IInv, NEW ip \in IPs, NEW ok \in BOOLEAN, Unban(ip, ok)
    PROVE  /\ \A j \in IPs : Blocked(j)' => Blocked(j)
           /\ \A j \in IPs : (j # ip \/ ~ok) => (Blocked(j) => Blocked(j)')
  <1> TypeOK /\ rules \in [IPs -> [Chains -> Nat]]
    BY DEF IInv, TypeOK
  <1>1. \A j \in IPs : j # ip => rules'[j] = rules[j]
    BY UnbanEffect
  <1>2. CASE ip \in InvalidIPs
    BY <1>2 DEF Unban, Blocked
  <1>3. CASE ip \notin InvalidIPs
    <2>1. PICK seen \in SUBSET Chains, failed \in SUBSET Chains, left \in [Chains -> 0 .. MaxCopies] :
            /\ HasRule(ip, seen)
            /\ failed \subseteq seen
            /\ ok = (failed = {})
            /\ \A c \in Chains :
                 left[c] \in IF c \in failed THEN Leftover(rules[ip][c])
                             ELSE IF c \in seen THEN {Deleted(rules[ip][c])}
                             ELSE {rules[ip][c]}
            /\ rules' = [rules EXCEPT ![ip] = left]
      BY <1>3 DEF Unban
    <2>2. \A c \in seen : rules[ip][c] > 0
      BY <2>1 DEF HasRule
    <2>3. rules'[ip] = left
      BY <2>1
    <2>4. \A c \in Chains : left[c] > 0 => rules[ip][c] > 0
      BY <2>1, <2>2
    <2>5. \A c \in failed : left[c] > 0
      <3> SUFFICES ASSUME NEW c \in failed PROVE left[c] > 0
        OBVIOUS
      <3>1. rules[ip][c] \in Nat /\ rules[ip][c] > 0 /\ left[c] \in Leftover(rules[ip][c])
        BY <2>1, <2>2
      <3> QED
        BY <3>1 DEF Leftover
    <2>6. ~ok => Blocked(ip)'
      BY <2>1, <2>3, <2>5 DEF Blocked
    <2>7. Blocked(ip)' => Blocked(ip)
      BY <2>3, <2>4 DEF Blocked
    <2> QED
      BY <1>1, <2>6, <2>7 DEF Blocked
  <1> QED
    BY <1>2, <1>3

(* BanIP and the steps of the operation it starts. *)
LEMMA BanStepEnforced ==
    ASSUME "db" \notin Faults, Chains # {}, IInv, IInv', PhaseInv, EnforcedInv,
           \/ \E ip \in IPs, s \in BanSeconds : BanIP(ip, s)
           \/ BanFirewall \/ BanUndo \/ RebanFirewall \/ ExtendBan
    PROVE  EnforcedInv'
  <1> TypeOK /\ HolderInv /\ now' = now
    BY DEF IInv, BanIP, BanFirewall, BanUndo, RebanFirewall, ExtendBan
  <1>0. phase = "run" /\ Running
    BY DEF BanIP, BanFirewall, BanUndo, RebanFirewall, ExtendBan, HolderInv, PhaseInv, Running
  <1>1. ASSUME NEW ip \in IPs, NEW s \in BanSeconds, BanIP(ip, s) PROVE EnforcedInv'
    <2>1. rules' = rules /\ mpc = "idle" /\ cur' = ip /\ mpc' \in {"ban", "reban"}
      BY <1>1 DEF BanIP
    <2>2. \A j \in IPs : Enforced(j)
      BY <1>0, <2>1 DEF EnforcedInv, Pending
    <2>3. CASE mpc' = "ban"
      <3>1. \A j \in IPs \ {ip} : db'[j] = db[j]
        BY <1>1, <2>3 DEF BanIP, Add, TypeOK
      <3>2. \A j \in IPs \ {ip} : Enforced(j)'
        BY <2>1, <2>2, <3>1, EnforcedFrame DEF Blocked
      <3> QED
        BY <2>1, <2>3, <3>2 DEF EnforcedInv, Pending
    <2>4. CASE mpc' = "reban"
      <3>1. db' = db
        BY <1>1, <2>4 DEF BanIP
      <3> QED
        BY <2>1, <2>2, <2>4, <3>1, EnforcedFrame DEF EnforcedInv, Blocked
    <2> QED
      BY <2>1, <2>3, <2>4
  <1>2. CASE BanFirewall
    <2>1. cur \in IPs /\ mpc = "ban" /\ db' = db
      BY <1>2 DEF BanFirewall, HolderInv
    <2>2. \A j \in IPs \ {cur} : Enforced(j)
      BY <1>0, <2>1 DEF EnforcedInv, Pending
    <2>3. PICK ok \in BOOLEAN : Ban(cur, ok) /\ (ok => mpc' = "idle")
                                /\ (~ok => mpc' = "undo" /\ cur' = cur)
      BY <1>2 DEF BanFirewall, Unlock
    <2>4. \A j \in IPs \ {cur} : Enforced(j)'
      BY <2>1, <2>2, <2>3, BanBlocks, EnforcedFrame
    <2>5. \A j \in {cur} : ok => Enforced(j)'
      BY <2>1, <2>3, BanBlocks DEF Enforced
    <2> QED
      BY <2>3, <2>4, <2>5 DEF EnforcedInv, Pending
  <1>3. CASE BanUndo
    <2>1. cur \in IPs /\ mpc = "undo" /\ rules' = rules /\ mpc' = "idle"
      BY <1>3 DEF BanUndo, HolderInv, Unlock
    <2>2. \A j \in IPs \ {cur} : Enforced(j)
      BY <1>0, <2>1 DEF EnforcedInv, Pending
    <2>3. db' = [db EXCEPT ![cur] = NoBan]
      BY <1>3 DEF BanUndo, Delete, Fault
    <2>4. db'[cur] = NoBan /\ \A j \in IPs \ {cur} : db'[j] = db[j]
      BY <2>1, <2>3 DEF TypeOK
    <2>5. \A j \in IPs : Enforced(j)'
      BY <2>1, <2>2, <2>4, EnforcedFrame DEF Blocked, Enforced
    <2> QED
      BY <2>1, <2>5 DEF EnforcedInv
  <1>4. CASE RebanFirewall
    <2>1. cur \in IPs /\ mpc = "reban" /\ db' = db
      BY <1>4 DEF RebanFirewall, HolderInv
    <2>2. \A j \in IPs : Enforced(j)
      BY <1>0, <2>1 DEF EnforcedInv, Pending
    <2>3. PICK ok \in BOOLEAN : Ban(cur, ok) /\ (ok => mpc' = "extend" /\ cur' = cur)
                                /\ (~ok => mpc' = "idle")
      BY <1>4 DEF RebanFirewall, Unlock
    <2>4. \A j \in IPs : Enforced(j)'
      BY <2>1, <2>2, <2>3, BanBlocks, EnforcedFrame
    <2>5. ok => Blocked(cur)'
      BY <2>1, <2>3, BanBlocks
    <2> QED
      BY <2>3, <2>4, <2>5 DEF EnforcedInv, Blocked
  <1>5. CASE ExtendBan
    <2>1. cur \in IPs /\ mpc = "extend" /\ rules' = rules /\ mpc' = "idle"
      BY <1>5 DEF ExtendBan, HolderInv, Unlock
    <2>2. \A j \in IPs : Enforced(j)
      BY <1>0, <2>1 DEF EnforcedInv, Pending
    <2>3. \A j \in IPs \ {cur} : db'[j] = db[j]
      BY <1>5, <2>1 DEF ExtendBan, Update, TypeOK
    <2>4. \A j \in {cur} : Enforced(j)'
      BY <2>1 DEF EnforcedInv, Blocked, Enforced
    <2>5. \A j \in IPs : Enforced(j)'
      BY <2>1, <2>2, <2>3, <2>4, EnforcedFrame DEF Blocked
    <2> QED
      BY <2>1, <2>5 DEF EnforcedInv
  <1> QED
    BY <1>1, <1>2, <1>3, <1>4, <1>5

(* unban, whoever called it, and UnbanIP. *)
LEMMA UnbanStepEnforced ==
    ASSUME "db" \notin Faults, IInv, IInv', PhaseInv, EnforcedInv,
           (\E ip \in IPs : UnbanIP(ip)) \/ UnbanFirewall \/ UnbanRow
    PROVE  EnforcedInv'
  <1> TypeOK /\ HolderInv /\ now' = now /\ phase' = phase
    BY DEF IInv, UnbanIP, UnbanFirewall, UnbanRow
  <1>1. mpc' \in {"idle", "expire", "unban", "unban_row"} /\ mpc \in {"idle", "unban", "unban_row"}
    BY DEF UnbanIP, UnbanFirewall, UnbanRow, UnbanReturns, Unlock
  <1>2. Running' => Running
    BY <1>1 DEF Running
  <1>3. ASSUME NEW ip \in IPs, UnbanIP(ip) PROVE EnforcedInv'
    <2>1. UNCHANGED <<rules, db>> /\ mpc = "idle" /\ mpc' = "unban"
      BY <1>3 DEF UnbanIP
    <2> QED
      BY <1>2, <2>1, EnforcedFrame DEF EnforcedInv, Pending, Blocked
  <1>4. CASE UnbanFirewall
    <2>1. cur \in IPs /\ db' = db /\ mpc = "unban"
      BY <1>4 DEF UnbanFirewall, HolderInv
    <2>2. PICK ok \in BOOLEAN : Unban(cur, ok) /\ (ok => mpc' = "unban_row" /\ cur' = cur)
                                /\ (~ok => mpc' \in {"idle", "expire"})
      BY <1>4 DEF UnbanFirewall, UnbanReturns, Unlock, Fault
    <2>3. Running => \A j \in IPs : Enforced(j)
      BY <2>1 DEF EnforcedInv, Pending
    <2>4. Running' => \A j \in IPs : (j # cur \/ ~ok) => Enforced(j)'
      BY <1>2, <2>1, <2>2, <2>3, UnbanBlocks, EnforcedFrame
    <2> QED
      BY <2>2, <2>4 DEF EnforcedInv, Pending
  <1>5. CASE UnbanRow
    <2>1. cur \in IPs /\ rules' = rules /\ mpc = "unban_row" /\ mpc' \in {"idle", "expire"}
      BY <1>5 DEF UnbanRow, UnbanReturns, Unlock, HolderInv
    <2>2. db' = [db EXCEPT ![cur] = NoBan]
      BY <1>5 DEF UnbanRow, Delete, Fault
    <2>3. db'[cur] = NoBan /\ \A j \in IPs \ {cur} : db'[j] = db[j]
      BY <2>1, <2>2 DEF TypeOK
    <2>4. Running => \A j \in IPs \ {cur} : Enforced(j)
      BY <2>1 DEF EnforcedInv, Pending
    <2>5. Running' => \A j \in IPs : Enforced(j)'
      BY <1>2, <2>1, <2>3, <2>4, EnforcedFrame DEF Blocked, Enforced
    <2> QED
      BY <2>1, <2>5 DEF EnforcedInv
  <1> QED
    BY <1>3, <1>4, <1>5

(* Without a change of the local time's offset GetBanned finds every active row. *)
LEMMA BannedAreFound ==
    ASSUME ShiftBy = 0, TypeOK, NEW ip \in IPs \ GetBanned
    PROVE  Enforced(ip)
  <1>1. db[ip] # NoBan => db[ip].until \in Int /\ now \in Int
    BY DEF TypeOK
  <1> QED
    BY <1>1, BanPoolAssumption DEF GetBanned, Local, Enforced

(* RestoreBans. *)
LEMMA RestoreStepEnforced ==
    ASSUME ShiftBy = 0, "db" \notin Faults, Chains # {}, IInv, IInv', PhaseInv, EnforcedInv,
           Restore
    PROVE  EnforcedInv'
  <1> TypeOK /\ HolderInv /\ now' = now
    BY DEF IInv, Restore, RestoreExpired, RestoreUnbans, RestoreBanned, RestoreReapplies,
           RestoreDeletes, RestoreReturns
  <1>1. CASE RestoreExpired \/ \E ip \in IPs : RestoreUnbans(ip)
    <2>1. phase' = "restore" /\ mpc' \in {"expire", "unban"}
      BY <1>1 DEF RestoreExpired, RestoreUnbans, Fault, HolderInv, PhaseInv
    <2> QED
      BY <2>1 DEF EnforcedInv, Running
  <1>2. CASE RestoreBanned
    <2>1. mpc' = "reapply" /\ todo' = GetBanned /\ UNCHANGED <<rules, db>>
      BY <1>2 DEF RestoreBanned, Fault
    <2>2. \A ip \in IPs \ todo' : Enforced(ip)
      BY <2>1, BannedAreFound
    <2>3. \A ip \in IPs \ todo' : Enforced(ip)'
      BY <2>1, <2>2, EnforcedFrame DEF Blocked
    <2> QED
      BY <2>1, <2>3 DEF EnforcedInv, Pending
  <1>3. CASE RestoreDeletes
    <2>1. cur \in IPs /\ mpc = "reapply_undo" /\ mpc' = "reapply" /\ UNCHANGED <<rules, todo>>
      BY <1>3 DEF RestoreDeletes, HolderInv
    <2>2. db' = [db EXCEPT ![cur] = NoBan]
      BY <1>3 DEF RestoreDeletes, Delete, Fault
    <2>3. db'[cur] = NoBan /\ \A j \in IPs \ {cur} : db'[j] = db[j]
      BY <2>1, <2>2 DEF TypeOK
    <2>4. \A j \in IPs \ (todo \cup {cur}) : Enforced(j)
      BY <2>1 DEF EnforcedInv, Pending, Running
    <2>5. \A j \in IPs \ todo : Enforced(j)'
      BY <2>1, <2>3, <2>4, EnforcedFrame DEF Blocked, Enforced
    <2> QED
      BY <2>1, <2>5 DEF EnforcedInv, Pending
  <1>4. CASE RestoreReturns
    <2>1. mpc = "reapply" /\ todo = {} /\ mpc' = "idle" /\ UNCHANGED <<rules, db>>
      BY <1>4 DEF RestoreReturns, Unlock
    <2>2. \A j \in IPs : Enforced(j)
      BY <2>1 DEF EnforcedInv, Pending, Running
    <2> QED
      BY <2>1, <2>2, EnforcedFrame DEF EnforcedInv, Blocked
  <1>5. ASSUME NEW ip \in IPs, RestoreReapplies(ip) PROVE EnforcedInv'
    <2>1. mpc = "reapply" /\ ip \in todo /\ todo' = todo \ {ip} /\ db' = db
      BY <1>5 DEF RestoreReapplies
    <2>2. PICK ok \in BOOLEAN : Ban(ip, ok) /\ (ok => mpc' = "reapply")
                                /\ (~ok => mpc' = "reapply_undo" /\ cur' = ip)
      BY <1>5, <2>1 DEF RestoreReapplies
    <2>3. \A j \in IPs \ todo : Enforced(j)
      BY <2>1 DEF EnforcedInv, Pending, Running
    <2>4. \A j \in IPs \ todo : Enforced(j)'
      BY <2>1, <2>2, <2>3, BanBlocks, EnforcedFrame
    <2>5. ok => Enforced(ip)'
      BY <2>2, BanBlocks DEF Enforced
    <2> QED
      BY <2>1, <2>2, <2>4, <2>5 DEF EnforcedInv, Pending
  <1> QED
    BY <1>1, <1>2, <1>3, <1>4, <1>5 DEF Restore

(* The goroutines, the clock, the cycles and the process. *)
LEMMA OtherStepEnforced ==
    ASSUME IInv, IInv', PhaseInv, EnforcedInv,
           \/ Waiter \/ Tick \/ CancelCycle \/ NextCycle
           \/ \E reboot \in BOOLEAN : Crash(reboot)
           \/ UNCHANGED vars
    PROVE  EnforcedInv'
  <1> TypeOK /\ HolderInv
    BY DEF IInv
  <1>1. CASE Waiter \/ Tick \/ CancelCycle \/ UNCHANGED vars
    <2>1. UNCHANGED <<rules, db, phase>> /\ now' \in {now, now + 1}
      BY <1>1 DEF Waiter, WaiterWakes, WaiterCancelled, WaiterChecks, Tick, CancelCycle, vars
    <2>2. \/ UNCHANGED <<mpc, cur, todo>>
          \/ mpc = "idle" /\ mpc' = "unban"
      BY <1>1 DEF Waiter, WaiterWakes, WaiterCancelled, WaiterChecks, WaiterGivesUp,
                  WaiterSleepsAgain, WaiterUnbans, Tick, CancelCycle, vars, holder
    <2>3. (Running' => Running) /\ Pending' = Pending
      BY <2>1, <2>2 DEF Running, Pending
    <2>4. mpc' = "extend" => Blocked(cur)'
      BY <2>1, <2>2 DEF EnforcedInv, Blocked
    <2>5. ASSUME Running', NEW ip \in IPs \ Pending' PROVE Enforced(ip)'
      <3>1. Enforced(ip)
        BY <2>3, <2>5 DEF EnforcedInv
      <3> QED
        BY <2>1, <3>1, EnforcedFrame DEF Blocked
    <2> QED
      BY <2>4, <2>5 DEF EnforcedInv
  <1>2. CASE NextCycle
    <2>1. phase' = "restore" /\ mpc' = mpc /\ by \notin {"ban", "restore"}
      BY <1>2 DEF NextCycle, holder, PhaseInv
    <2>2. mpc \notin {"extend", "reapply", "reapply_undo"}
      BY <2>1 DEF HolderInv
    <2> QED
      BY <2>1, <2>2 DEF EnforcedInv, Running
  <1>3. CASE \E reboot \in BOOLEAN : Crash(reboot)
    <2>1. phase' = "restore" /\ mpc' = "idle"
      BY <1>3 DEF Crash, Unlock
    <2> QED
      BY <2>1 DEF EnforcedInv, Running
  <1> QED
    BY <1>1, <1>2, <1>3

LEMMA InitEnforcedInv == Init => EnforcedInv
  BY DEF Init, EnforcedInv, Running

(* Once RestoreBans has returned, no ban that has not expired is without a     *)
(* rule, whoever inserted, extended, restored or failed to lift it: with a     *)
(* chain to put the rule in, a database that answers and a constant offset of  *)
(* the local time.  Failing firewall commands, crashes and reboots are allowed.*)
THEOREM ActiveRowsAreEnforced ==
    ASSUME ShiftBy = 0, "db" \notin Faults, Chains # {}
    PROVE  Spec => []ActiveRowEnforced
  <1>1. IInv /\ IInv' /\ WaiterInv /\ EnforcedInv /\ [Next]_vars => EnforcedInv'
    <2> SUFFICES ASSUME IInv, IInv', WaiterInv, EnforcedInv, [Next]_vars PROVE EnforcedInv'
      OBVIOUS
    <2>1. PhaseInv
      BY DEF WaiterInv
    <2> QED
      BY <2>1, BanStepEnforced, UnbanStepEnforced, RestoreStepEnforced, OtherStepEnforced
         DEF Next, HolderStep
  <1>2. EnforcedInv => ActiveRowEnforced
    BY DEF EnforcedInv, ActiveRowEnforced, Running, Pending, Enforced
  <1> QED
    BY <1>1, <1>2, InitEnforcedInv, SpecIInv, SpecWaiterInv, PTL DEF Spec
=============================================================================
