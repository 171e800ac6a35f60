---------------------------- MODULE BanPoolProofs ----------------------------
(***************************************************************************)
(* Proofs about BanPool for every set of addresses, chains, durations and  *)
(* bounds.                                                                 *)
(***************************************************************************)
EXTENDS BanPool, TLAPS

(***************************************************************************)
(* What holds of the operation that has the mutex: who it is at each       *)
(* program counter, that the row it works on exists and that nothing but   *)
(* its own steps removes it.                                               *)
(***************************************************************************)
HolderInv ==
    /\ mpc = "idle" <=> by = "nobody"
    /\ mpc \in {"ban", "undo", "reban", "extend"} => by = "ban"
    /\ mpc \in {"unban", "unban_row"} => by \in {"waiter", "manual", "restore"}
    /\ mpc \in {"expire", "reapply", "reapply_undo"} => by = "restore"
    /\ mpc \notin {"idle", "expire", "reapply"} => cur \in IPs /\ db[cur] # NoBan
    /\ mpc \in {"idle", "expire", "reapply"} => cur = NoIP
    /\ by = "waiter" => me \in waiters /\ me.pc = "check"
    /\ by = "restore" => cur \notin todo /\ \A ip \in todo : db[ip] # NoBan

IInv == TypeOK /\ HolderInv

(* The budget of failures stays a number. *)
LEMMA BudgetNat ==
    ASSUME TypeOK, NoFault \/ Fault("db")
    PROVE  budget' \in Nat
  <1>1. budget \in Nat
    BY DEF TypeOK
  <1> QED
    BY <1>1 DEF NoFault, Fault

(* What every call of Ban preserves. *)
LEMMA BanEffect ==
    ASSUME TypeOK, NEW ip \in IPs, NEW ok \in BOOLEAN, Ban(ip, ok)
    PROVE  /\ rules' \in [IPs -> [Chains -> Nat]]
           /\ budget' \in Nat
           /\ \A j \in IPs : j # ip => rules'[j] = rules[j]
           /\ \A c \in Chains : rules[ip][c] > 0 => rules'[ip][c] > 0
  <1>1. rules \in [IPs -> [Chains -> Nat]] /\ budget \in Nat
    BY DEF TypeOK
  <1>2. CASE ip \in RefusedIPs
    BY <1>1, <1>2 DEF Ban, NoFault
  <1>3. CASE ip \notin RefusedIPs
    <2>1. PICK seen \in SUBSET Chains, failed \in SUBSET Chains :
            /\ Failures(ip, seen, failed, "insert")
            /\ rules' = [rules EXCEPT ![ip] = [c \in Chains |->
                            IF c \in seen \cup failed THEN @[c] ELSE Inserted(@[c])]]
      BY <1>3 DEF Ban
    <2>2. budget' \in Nat
      BY <1>1, <2>1 DEF Failures, NoFault
    <2>3. rules[ip] \in [Chains -> Nat]
      BY <1>1
    <2>4. \A n \in Nat : Inserted(n) \in Nat /\ Inserted(n) > 0
      BY DEF Inserted
    <2>5. [c \in Chains |-> IF c \in seen \cup failed THEN rules[ip][c] ELSE Inserted(rules[ip][c])]
            \in [Chains -> Nat]
      BY <2>3, <2>4
    <2> QED
      BY <1>1, <2>1, <2>2, <2>3, <2>4, <2>5
  <1> QED
    BY <1>2, <1>3

(* What every call of Unban preserves. *)
LEMMA UnbanEffect ==
    ASSUME TypeOK, NEW ip \in IPs, NEW ok \in BOOLEAN, Unban(ip, ok)
    PROVE  /\ rules' \in [IPs -> [Chains -> Nat]]
           /\ budget' \in Nat
           /\ \A j \in IPs : j # ip => rules'[j] = rules[j]
  <1>1. rules \in [IPs -> [Chains -> Nat]] /\ budget \in Nat
    BY DEF TypeOK
  <1>2. CASE ip \in InvalidIPs
    BY <1>1, <1>2 DEF Unban, NoFault
  <1>3. CASE ip \notin InvalidIPs
    <2>1. PICK seen \in SUBSET Chains, failed \in SUBSET Chains, left \in [Chains -> 0 .. MaxCopies] :
            /\ Failures(ip, seen, failed, "delete")
            /\ rules' = [rules EXCEPT ![ip] = left]
      BY <1>3 DEF Unban
    <2>2. budget' \in Nat
      BY <1>1, <2>1 DEF Failures, NoFault
    <2>3. left \in [Chains -> Nat]
      BY FirewallAssumption
    <2> QED
      BY <1>1, <2>1, <2>2, <2>3
  <1> QED
    BY <1>2, <1>3

(***************************************************************************)
(* Steps that leave the holder alone, or that start or end an operation,   *)
(* one lemma per group of actions of BanPool.                              *)
(***************************************************************************)
LEMMA InitIInv == Init => IInv
  <1> SUFFICES ASSUME Init PROVE IInv
    OBVIOUS
  <1> USE FirewallAssumption, BanPoolAssumption DEF Init
  <1>1. TypeOK
    BY DEF TypeOK, HolderOK, NoRules
  <1>2. HolderInv
    BY DEF HolderInv
  <1> QED
    BY <1>1, <1>2 DEF IInv

(* The variables of the mutex's holder after Unlock. *)
LEMMA UnlockHolder ==
    ASSUME Unlock
    PROVE  /\ HolderOK'
           /\ mpc' = "idle" /\ by' = "nobody" /\ cur' = NoIP /\ todo' = {}
  BY DEF Unlock, HolderOK

LEMMA DurationInt == \A s \in BanSeconds : Duration(s) \in Int
  BY BanPoolAssumption DEF Duration

LEMMA NewWaiterType ==
    ASSUME TypeOK, NEW ip \in IPs, db[ip] # NoBan
    PROVE  NewWaiter(ip) \in Waiters
  <1>1. db[ip] \in [id : Nat, until : Int]
    BY DEF TypeOK
  <1>2. 0 \in 0 .. MaxUnbanRetries
    BY BanPoolAssumption
  <1> QED
    BY <1>1, <1>2 DEF NewWaiter, Waiters, TypeOK

(* BanIP and the steps of the operation it starts. *)
LEMMA BanStepIInv ==
    ASSUME IInv,
           \/ \E ip \in IPs, s \in BanSeconds : BanIP(ip, s)
           \/ BanFirewall \/ BanUndo \/ RebanFirewall \/ ExtendBan
    PROVE  IInv'
  <1> USE DEF IInv
  <1>1. ASSUME NEW ip \in IPs, NEW s \in BanSeconds, BanIP(ip, s) PROVE IInv'
    <2>1. Duration(s) \in Int /\ s \in Nat
      BY DurationInt, BanPoolAssumption
    <2>2. now + Duration(s) \in Int /\ now + s \in Int
      BY <2>1 DEF TypeOK
    <2>3. TypeOK'
      BY <1>1, <2>2 DEF BanIP, Add, TypeOK, HolderOK
    <2>4. HolderInv'
      BY <1>1, <2>2, BanPoolAssumption DEF BanIP, Add, TypeOK, HolderInv
    <2> QED
      BY <2>3, <2>4
  <1>2. CASE BanFirewall
    <2>1. cur \in IPs /\ db[cur] # NoBan
      BY <1>2 DEF BanFirewall, HolderInv
    <2>2. CASE Ban(cur, TRUE) /\ waiters' = waiters \cup {NewWaiter(cur)} /\ Unlock
      <3>1. TypeOK'
        BY <1>2, <2>1, <2>2, BanEffect, UnlockHolder, NewWaiterType DEF BanFirewall, TypeOK
      <3>2. HolderInv'
        BY <2>2, UnlockHolder DEF HolderInv
      <3> QED
        BY <3>1, <3>2
    <2>3. CASE Ban(cur, FALSE) /\ mpc' = "undo" /\ UNCHANGED <<waiters, by, cur, until, asked, todo, me>>
      <3>1. TypeOK'
        BY <1>2, <2>1, <2>3, BanEffect DEF BanFirewall, TypeOK, HolderOK
      <3>2. HolderInv'
        BY <1>2, <2>1, <2>3 DEF BanFirewall, HolderInv
      <3> QED
        BY <3>1, <3>2
    <2> QED
      BY <1>2, <2>2, <2>3 DEF BanFirewall
  <1>3. CASE BanUndo
    <2>1. cur \in IPs
      BY <1>3 DEF BanUndo, HolderInv
    <2>2. TypeOK'
      BY <1>3, <2>1, UnlockHolder DEF BanUndo, NoFault, Fault, Delete, TypeOK
    <2>3. HolderInv'
      BY <1>3, UnlockHolder DEF BanUndo, HolderInv
    <2> QED
      BY <2>2, <2>3
  <1>4. CASE RebanFirewall
    <2>1. cur \in IPs /\ db[cur] # NoBan
      BY <1>4 DEF RebanFirewall, HolderInv
    <2>2. CASE Ban(cur, TRUE) /\ mpc' = "extend" /\ UNCHANGED <<by, cur, until, asked, todo, me>>
      <3>1. TypeOK'
        BY <1>4, <2>1, <2>2, BanEffect DEF RebanFirewall, TypeOK, HolderOK
      <3>2. HolderInv'
        BY <1>4, <2>1, <2>2 DEF RebanFirewall, HolderInv
      <3> QED
        BY <3>1, <3>2
    <2>3. CASE Ban(cur, FALSE) /\ Unlock
      <3>1. TypeOK'
        BY <1>4, <2>1, <2>3, BanEffect, UnlockHolder DEF RebanFirewall, TypeOK
      <3>2. HolderInv'
        BY <2>3, UnlockHolder DEF HolderInv
      <3> QED
        BY <3>1, <3>2
    <2> QED
      BY <1>4, <2>2, <2>3 DEF RebanFirewall
  <1>5. CASE ExtendBan
    <2>1. cur \in IPs /\ db[cur] \in [id : Nat, until : Int]
      BY <1>5 DEF ExtendBan, HolderInv, TypeOK
    <2>2. [db[cur] EXCEPT !.until = until] \in [id : Nat, until : Int]
      BY <2>1 DEF TypeOK, HolderOK
    <2>3. Latest(promised[cur], asked) \in Int
      BY <2>1 DEF Latest, TypeOK, HolderOK
    <2>4. TypeOK'
      BY <1>5, <2>1, <2>2, <2>3, UnlockHolder
         DEF ExtendBan, NoFault, Fault, Update, TypeOK
    <2>5. HolderInv'
      BY <1>5, UnlockHolder DEF ExtendBan, HolderInv
    <2> QED
      BY <2>4, <2>5
  <1> QED
    BY <1>1, <1>2, <1>3, <1>4, <1>5

(* How unban returns, whoever called it: the row it was called for may be gone. *)
LEMMA UnbanReturnsIInv ==
    ASSUME IInv, NEW ok \in BOOLEAN, UnbanReturns(ok),
           mpc \in {"unban", "unban_row"},
           db' \in [IPs -> [id : Nat, until : Int] \cup {NoBan}],
           \A ip \in IPs \ {cur} : db'[ip] = db[ip]
    PROVE  waiters' \subseteq Waiters /\ HolderOK' /\ HolderInv'
  <1> USE DEF IInv
  <1>1. CASE by = "waiter"
    <2>1. me \in Waiters /\ now \in Nat
      BY <1>1 DEF HolderInv, TypeOK
    <2>2. Capped(now + RetryInterval) \in Int
      BY <2>1, BanPoolAssumption DEF Capped
    <2>3. me.retries # MaxUnbanRetries => me.retries + 1 \in 0 .. MaxUnbanRetries
      BY <2>1, BanPoolAssumption DEF Waiters
    <2>4. me.retries # MaxUnbanRetries =>
            [me EXCEPT !.retries = @ + 1, !.wake = Capped(now + RetryInterval), !.pc = "sleep"]
                \in Waiters
      BY <2>1, <2>2, <2>3 DEF Waiters
    <2>5. waiters' \subseteq Waiters
      BY <1>1, <2>4 DEF UnbanReturns, TypeOK
    <2> QED
      BY <1>1, <2>5, UnlockHolder DEF UnbanReturns, HolderInv
  <1>2. CASE by = "manual"
    BY <1>2, UnlockHolder DEF UnbanReturns, HolderInv, TypeOK
  <1>3. CASE by = "restore"
    <2>1. cur \notin todo /\ todo \subseteq IPs /\ \A ip \in todo : db[ip] # NoBan
      BY <1>3 DEF HolderInv, TypeOK, HolderOK
    <2>2. \A ip \in todo : db'[ip] # NoBan
      BY <2>1
    <2>3. NoIP \notin todo
      BY <2>1, BanPoolAssumption
    <2>4. mpc' = "expire" /\ cur' = NoIP /\ UNCHANGED <<waiters, by, until, asked, todo, me>>
      BY <1>3 DEF UnbanReturns
    <2> QED
      BY <1>3, <2>2, <2>3, <2>4 DEF HolderInv, HolderOK, TypeOK
  <1> QED
    BY <1>1, <1>2, <1>3 DEF HolderInv

(* unban, and UnbanIP that starts it. *)
LEMMA UnbanStepIInv ==
    ASSUME IInv, UnbanFirewall \/ UnbanRow \/ \E ip \in IPs : UnbanIP(ip)
    PROVE  IInv'
  <1> USE DEF IInv
  <1>1. CASE UnbanFirewall
    <2>1. cur \in IPs /\ db[cur] # NoBan /\ by \in {"waiter", "manual", "restore"}
      BY <1>1 DEF UnbanFirewall, HolderInv
    <2>2. CASE Unban(cur, TRUE) /\ mpc' = "unban_row"
               /\ UNCHANGED <<waiters, by, cur, until, asked, todo, me>>
      <3>1. TypeOK'
        BY <1>1, <2>1, <2>2, UnbanEffect DEF UnbanFirewall, TypeOK, HolderOK
      <3>2. HolderInv'
        BY <1>1, <2>1, <2>2 DEF UnbanFirewall, HolderInv
      <3> QED
        BY <3>1, <3>2
    <2>3. CASE \/ Unban(cur, FALSE) /\ UnbanReturns(FALSE)
               \/ Fault("db") /\ UNCHANGED rules /\ UnbanReturns(FALSE)
      <3>1. db' = db /\ mpc = "unban"
        BY <1>1 DEF UnbanFirewall
      <3>2. waiters' \subseteq Waiters /\ HolderOK' /\ HolderInv'
        BY <2>3, <3>1, UnbanReturnsIInv DEF TypeOK
      <3>3. rules' \in [IPs -> [Chains -> Nat]] /\ budget' \in Nat
        <4>1. CASE Unban(cur, FALSE)
          BY <2>1, <4>1, UnbanEffect
        <4>2. CASE Fault("db") /\ UNCHANGED rules
          BY <4>2, BudgetNat DEF TypeOK
        <4> QED
          BY <2>3, <4>1, <4>2
      <3> QED
        BY <1>1, <3>2, <3>3 DEF UnbanFirewall, TypeOK
    <2> QED
      BY <1>1, <2>2, <2>3 DEF UnbanFirewall
  <1>2. CASE UnbanRow
    <2>1. cur \in IPs
      BY <1>2 DEF UnbanRow, HolderInv
    <2>2. /\ db' \in [IPs -> [id : Nat, until : Int] \cup {NoBan}]
          /\ \A ip \in IPs \ {cur} : db'[ip] = db[ip]
          /\ nextId' \in Nat
      BY <1>2, <2>1 DEF UnbanRow, Delete, TypeOK
    <2>4. budget' \in Nat
      BY <1>2, BudgetNat DEF UnbanRow
    <2>3. waiters' \subseteq Waiters /\ HolderOK' /\ HolderInv'
      BY <1>2, <2>2, UnbanReturnsIInv DEF UnbanRow
    <2> QED
      BY <1>2, <2>2, <2>3, <2>4 DEF UnbanRow, TypeOK
  <1>3. ASSUME NEW ip \in IPs, UnbanIP(ip) PROVE IInv'
    BY <1>3 DEF UnbanIP, TypeOK, HolderOK, HolderInv
  <1> QED
    BY <1>1, <1>2, <1>3

(* The goroutines waitUnban. *)
LEMMA WaiterStepIInv ==
    ASSUME IInv, Waiter
    PROVE  IInv'
  <1> USE DEF IInv
  <1>1. PICK w \in waiters : WaiterWakes(w) \/ WaiterCancelled(w) \/ WaiterChecks(w)
    BY DEF Waiter
  <1>2. w \in Waiters
    BY DEF TypeOK
  <1>3. CASE WaiterWakes(w)
    <2>1. [w EXCEPT !.pc = "check"] \in Waiters
      BY <1>2 DEF Waiters
    <2>2. by = "waiter" => me # w
      BY <1>3 DEF WaiterWakes, HolderInv
    <2>3. TypeOK'
      BY <1>3, <2>1 DEF WaiterWakes, holder, TypeOK, HolderOK
    <2>4. HolderInv'
      BY <1>3, <2>2 DEF WaiterWakes, holder, HolderInv
    <2> QED
      BY <2>3, <2>4
  <1>4. CASE WaiterCancelled(w)
    <2>1. by = "waiter" => me # w
      BY <1>4 DEF WaiterCancelled, HolderInv
    <2>2. TypeOK'
      BY <1>4 DEF WaiterCancelled, holder, TypeOK, HolderOK
    <2>3. HolderInv'
      BY <1>4, <2>1 DEF WaiterCancelled, holder, HolderInv
    <2> QED
      BY <2>2, <2>3
  <1>5. CASE WaiterChecks(w)
    <2>1. mpc = "idle" /\ by = "nobody" /\ w.pc = "check" /\ w.ip \in IPs
      BY <1>2, <1>5 DEF WaiterChecks, HolderInv, Waiters
    <2>2. CASE WaiterGivesUp(w)
      BY <1>5, <2>1, <2>2
         DEF WaiterChecks, WaiterGivesUp, NoFault, Fault, holder, TypeOK, HolderOK, HolderInv
    <2>3. CASE WaiterSleepsAgain(w)
      <3>1. db[w.ip] \in [id : Nat, until : Int]
        BY <2>1, <2>3 DEF WaiterSleepsAgain, TypeOK
      <3>2. [w EXCEPT !.pc = "sleep", !.wake = db[w.ip].until] \in Waiters
        BY <1>2, <3>1 DEF Waiters
      <3> QED
        BY <1>5, <2>1, <2>3, <3>2
           DEF WaiterChecks, WaiterSleepsAgain, NoFault, holder, TypeOK, HolderOK, HolderInv
    <2>4. CASE WaiterUnbans(w)
      <3>1. TypeOK'
        BY <1>2, <1>5, <2>1, <2>4 DEF WaiterChecks, WaiterUnbans, NoFault, TypeOK, HolderOK
      <3>2. HolderInv'
        BY <1>5, <2>1, <2>4 DEF WaiterChecks, WaiterUnbans, HolderInv
      <3> QED
        BY <3>1, <3>2
    <2> QED
      BY <1>5, <2>2, <2>3, <2>4 DEF WaiterChecks
  <1> QED
    BY <1>1, <1>3, <1>4, <1>5

(* RestoreBans. *)
LEMMA RestoreStepIInv ==
    ASSUME IInv, Restore
    PROVE  IInv'
  <1> USE DEF IInv
  <1>1. CASE RestoreExpired
    <2>1. CASE Fault("db") /\ phase' = "run" /\ UNCHANGED holder
      BY <1>1, <2>1, BudgetNat DEF RestoreExpired, holder, TypeOK, HolderOK, HolderInv
    <2>2. CASE NoFault /\ mpc' = "expire" /\ by' = "restore" /\ todo' = GetExpired
               /\ UNCHANGED <<phase, cur, until, asked, me>>
      <3>1. todo' \subseteq IPs /\ \A ip \in todo' : db[ip] # NoBan
        BY <2>2 DEF GetExpired
      <3>2. mpc = "idle" /\ by = "nobody"
        BY <1>1 DEF RestoreExpired, HolderInv
      <3>3. TypeOK'
        BY <1>1, <2>2, <3>1, BudgetNat DEF RestoreExpired, TypeOK, HolderOK
      <3>4. cur \notin todo'
        BY <3>1, <3>2, BanPoolAssumption DEF HolderInv
      <3>5. HolderInv'
        BY <1>1, <2>2, <3>1, <3>4 DEF RestoreExpired, HolderInv
      <3> QED
        BY <3>3, <3>5
    <2> QED
      BY <1>1, <2>1, <2>2 DEF RestoreExpired
  <1>2. CASE RestoreBanned
    <2>1. CASE Fault("db") /\ phase' = "run" /\ Unlock
      BY <1>2, <2>1, BudgetNat, UnlockHolder DEF RestoreBanned, TypeOK, HolderInv
    <2>2. CASE NoFault /\ mpc' = "reapply" /\ todo' = GetBanned
               /\ UNCHANGED <<phase, by, cur, until, asked, me>>
      <3>1. todo' \subseteq IPs /\ \A ip \in todo' : db[ip] # NoBan
        BY <2>2 DEF GetBanned
      <3>2. TypeOK'
        BY <1>2, <2>2, <3>1, BudgetNat DEF RestoreBanned, TypeOK, HolderOK
      <3>3. cur \notin todo'
        BY <1>2, <3>1, BanPoolAssumption DEF RestoreBanned, HolderInv
      <3>4. HolderInv'
        BY <1>2, <2>2, <3>1, <3>3 DEF RestoreBanned, HolderInv
      <3> QED
        BY <3>2, <3>4
    <2> QED
      BY <1>2, <2>1, <2>2 DEF RestoreBanned
  <1>3. CASE RestoreDeletes
    <2>1. cur \in IPs /\ by = "restore" /\ cur \notin todo /\ todo \subseteq IPs
      BY <1>3 DEF RestoreDeletes, HolderInv, TypeOK, HolderOK
    <2>2. db' \in [IPs -> [id : Nat, until : Int] \cup {NoBan}] /\ nextId' \in Nat
      BY <1>3, <2>1 DEF RestoreDeletes, Delete, TypeOK
    <2>3. \A ip \in todo : db'[ip] # NoBan
      BY <1>3, <2>1 DEF RestoreDeletes, Delete, HolderInv, TypeOK
    <2>4. budget' \in Nat
      BY <1>3, BudgetNat DEF RestoreDeletes
    <2>5. TypeOK'
      BY <1>3, <2>2, <2>4 DEF RestoreDeletes, TypeOK, HolderOK
    <2>6. NoIP \notin todo
      BY <2>1, BanPoolAssumption
    <2>7. HolderInv'
      BY <1>3, <2>1, <2>3, <2>6 DEF RestoreDeletes, HolderInv
    <2> QED
      BY <2>5, <2>7
  <1>4. CASE RestoreReturns
    BY <1>4, UnlockHolder DEF RestoreReturns, TypeOK, HolderInv
  <1>5. ASSUME NEW ip \in IPs, RestoreUnbans(ip) PROVE IInv'
    <2>1. by = "restore" /\ db[ip] # NoBan
      BY <1>5 DEF RestoreUnbans, HolderInv
    <2>2. TypeOK'
      BY <1>5 DEF RestoreUnbans, TypeOK, HolderOK
    <2>3. HolderInv'
      BY <1>5, <2>1 DEF RestoreUnbans, HolderInv
    <2> QED
      BY <2>2, <2>3
  <1>6. ASSUME NEW ip \in IPs, RestoreReapplies(ip) PROVE IInv'
    <2>1. by = "restore" /\ db[ip] # NoBan
      BY <1>6 DEF RestoreReapplies, HolderInv
    <2>2. CASE Ban(ip, TRUE) /\ waiters' = waiters \cup {NewWaiter(ip)} /\ UNCHANGED <<mpc, cur>>
      <3>1. TypeOK'
        BY <1>6, <2>1, <2>2, BanEffect, NewWaiterType DEF RestoreReapplies, TypeOK, HolderOK
      <3>2. HolderInv'
        BY <1>6, <2>1, <2>2 DEF RestoreReapplies, HolderInv
      <3> QED
        BY <3>1, <3>2
    <2>3. CASE Ban(ip, FALSE) /\ mpc' = "reapply_undo" /\ cur' = ip /\ UNCHANGED waiters
      <3>1. TypeOK'
        BY <1>6, <2>1, <2>3, BanEffect DEF RestoreReapplies, TypeOK, HolderOK
      <3>2. HolderInv'
        BY <1>6, <2>1, <2>3 DEF RestoreReapplies, HolderInv
      <3> QED
        BY <3>1, <3>2
    <2> QED
      BY <1>6, <2>2, <2>3 DEF RestoreReapplies
  <1> QED
    BY <1>1, <1>2, <1>3, <1>4, <1>5, <1>6 DEF Restore

(* The clock, the cycles and the process. *)
LEMMA CycleStepIInv ==
    ASSUME IInv,
           Tick \/ CancelCycle \/ NextCycle \/ \E reboot \in BOOLEAN : Crash(reboot)
    PROVE  IInv'
  <1> USE DEF IInv
  <1>1. CASE Tick
    BY <1>1 DEF Tick, holder, TypeOK, HolderOK, HolderInv
  <1>2. CASE CancelCycle
    BY <1>2 DEF CancelCycle, holder, TypeOK, HolderOK, HolderInv
  <1>3. CASE NextCycle
    BY <1>3 DEF NextCycle, holder, TypeOK, HolderOK, HolderInv
  <1>4. ASSUME NEW reboot \in BOOLEAN, Crash(reboot) PROVE IInv'
    <2>1. rules' \in [IPs -> [Chains -> Nat]]
      BY <1>4 DEF Crash, NoRules, TypeOK
    <2>2. TypeOK'
      BY <1>4, <2>1, UnlockHolder DEF Crash, TypeOK
    <2>3. HolderInv'
      BY <1>4, UnlockHolder DEF Crash, HolderInv
    <2> QED
      BY <2>2, <2>3
  <1> QED
    BY <1>1, <1>2, <1>3, <1>4

LEMMA NextIInv == IInv /\ [Next]_vars => IInv'
  <1> SUFFICES ASSUME IInv, [Next]_vars PROVE IInv'
    OBVIOUS
  <1>1. CASE UNCHANGED vars
    BY <1>1 DEF IInv, vars, holder, TypeOK, HolderOK, HolderInv
  <1>2. CASE Next
    BY <1>2, BanStepIInv, UnbanStepIInv, WaiterStepIInv, RestoreStepIInv, CycleStepIInv
       DEF Next, HolderStep
  <1> QED
    BY <1>1, <1>2

LEMMA SpecIInv == Spec => []IInv
  BY InitIInv, NextIInv, PTL DEF Spec

(* Every variable of the ban pool keeps its type: rows, rules, goroutines and *)
(* the locals of the operation that holds bp.mutex.                           *)
THEOREM TypeCorrect == Spec => []TypeOK
  <1>1. IInv => TypeOK
    BY DEF IInv
  <1> QED
    BY <1>1, SpecIInv, PTL

-----------------------------------------------------------------------------
(***************************************************************************)
(* Crash consistency.  RuleHasRow is not inductive by itself: a row may be *)
(* deleted only where the operation knows that no rule is left, iptables   *)
(* --delete removes one copy, so there must be at most one, and an address *)
(* that Ban refuses must never have had a rule.  All of it rests on the    *)
(* checks being right: a failing check reads as "no rule".                 *)
(***************************************************************************)
Deleting == {"undo", "reapply_undo", "unban_row"}

RuleInv ==
    /\ RuleHasRow
    /\ \A ip \in IPs, c \in Chains : rules[ip][c] \in {0, 1}
    /\ \A ip \in RefusedIPs, c \in Chains : rules[ip][c] = 0
    /\ mpc \in Deleting => ~Blocked(cur)

(* Without failing checks a chain never holds two copies, and Ban fails only *)
(* when no rule is there.                                                    *)
LEMMA BanExact ==
    ASSUME "check" \notin Faults, TypeOK, RuleInv,
           NEW ip \in IPs, NEW ok \in BOOLEAN, Ban(ip, ok)
    PROVE  /\ \A c \in Chains : rules'[ip][c] \in {0, 1}
           /\ ip \in RefusedIPs => rules' = rules
           /\ ~ok => \A c \in Chains : rules'[ip][c] = 0
  <1>1. rules \in [IPs -> [Chains -> Nat]] /\ \A c \in Chains : rules[ip][c] \in {0, 1}
    BY DEF TypeOK, RuleInv
  <1>2. CASE ip \in RefusedIPs
    BY <1>1, <1>2 DEF Ban, RuleInv
  <1>3. CASE ip \notin RefusedIPs
    <2>1. PICK seen \in SUBSET Chains, failed \in SUBSET Chains :
            /\ HasRule(ip, seen)
            /\ failed \cap seen = {}
            /\ ok = BanSucceeds(failed)
            /\ rules' = [rules EXCEPT ![ip] = [c \in Chains |->
                            IF c \in seen \cup failed THEN @[c] ELSE Inserted(@[c])]]
      BY <1>3 DEF Ban
    <2>2. seen = {c \in Chains : rules[ip][c] > 0}
      BY <2>1 DEF HasRule
    <2>3. \A c \in Chains : rules'[ip][c] =
                IF c \in seen \cup failed THEN rules[ip][c] ELSE Inserted(rules[ip][c])
      BY <1>1, <2>1
    <2>4. \A c \in Chains \ seen : rules[ip][c] = 0
      BY <1>1, <2>2
    <2>5. Inserted(0) = 1
      BY DEF Inserted
    <2>6. \A c \in Chains : rules'[ip][c] \in {0, 1}
      BY <1>1, <2>3, <2>4, <2>5
    <2>7. ASSUME ~ok PROVE \A c \in Chains : rules'[ip][c] = 0
      <3>1. failed = Chains
        BY <2>1, <2>7 DEF BanSucceeds
      <3> QED
        BY <2>1, <2>3, <2>4, <3>1
    <2> QED
      BY <1>3, <2>6, <2>7
  <1> QED
    BY <1>2, <1>3

(* Without failing checks Unban succeeds only when no rule is left, and it *)
(* never adds one.                                                         *)
LEMMA UnbanExact ==
    ASSUME "check" \notin Faults, TypeOK, RuleInv,
           NEW ip \in IPs, NEW ok \in BOOLEAN, Unban(ip, ok)
    PROVE  /\ \A c \in Chains : rules'[ip][c] \in {0, 1} /\ rules'[ip][c] <= rules[ip][c]
           /\ ok => \A c \in Chains : rules'[ip][c] = 0
  <1>1. rules \in [IPs -> [Chains -> Nat]] /\ \A c \in Chains : rules[ip][c] \in {0, 1}
    BY DEF TypeOK, RuleInv
  <1>2. CASE ip \in InvalidIPs
    BY <1>1, <1>2 DEF Unban
  <1>3. CASE ip \notin InvalidIPs
    <2>1. PICK seen \in SUBSET Chains, failed \in SUBSET Chains, left \in [Chains -> 0 .. MaxCopies] :
            /\ HasRule(ip, seen)
            /\ failed \subseteq seen
            /\ ok = (failed = {})
            /\ \A c \in Chains :
                 left[c] \in IF c \in failed THEN Leftover(rules[ip][c])
                             ELSE IF c \in seen THEN {Deleted(rules[ip][c])}
                             ELSE {rules[ip][c]}
            /\ rules' = [rules EXCEPT ![ip] = left]
      BY <1>3 DEF Unban
    <2>2. seen = {c \in Chains : rules[ip][c] > 0}
      BY <2>1 DEF HasRule
    <2>3. rules'[ip] = left
      BY <1>1, <2>1
    <2>4. \A c \in failed : left[c] = 1 /\ rules[ip][c] = 1
      BY <1>1, <2>1, <2>2 DEF Leftover
    <2>5. \A c \in seen \ failed : left[c] = 0
      BY <1>1, <2>1, <2>2 DEF Deleted
    <2>6. \A c \in Chains \ seen : left[c] = 0 /\ rules[ip][c] = 0
      BY <1>1, <2>1, <2>2
    <2>7. \A c \in Chains : left[c] \in {0, 1} /\ left[c] <= rules[ip][c]
      BY <1>1, <2>4, <2>5, <2>6
    <2>8. ASSUME ok PROVE \A c \in Chains : left[c] = 0
      <3>1. failed = {}
        BY <2>1, <2>8
      <3> QED
        BY <3>1, <2>5, <2>6
    <2> QED
      BY <2>3, <2>7, <2>8
  <1> QED
    BY <1>2, <1>3

(* A step that touches no rule, deletes no row and begins no deletion. *)
LEMMA RuleFrame ==
    ASSUME RuleInv, rules' = rules,
           \A ip \in IPs : db[ip] # NoBan => db'[ip] # NoBan,
           mpc' \in Deleting => mpc \in Deleting /\ cur' = cur
    PROVE  RuleInv'
  BY DEF RuleInv, RuleHasRow, Blocked

(* A step that deletes the row of an address without rules. *)
LEMMA RuleDelete ==
    ASSUME TypeOK, RuleInv, rules' = rules, mpc \in Deleting, cur \in IPs,
           db' = db \/ db' = [db EXCEPT ![cur] = NoBan],
           mpc' \notin Deleting
    PROVE  RuleInv'
  <1>1. ~Blocked(cur)
    BY DEF RuleInv
  <1>2. \A ip \in IPs \ {cur} : db'[ip] = db[ip]
    BY DEF TypeOK
  <1> QED
    BY <1>1, <1>2 DEF RuleInv, RuleHasRow, Blocked

(* A step whose rules of one address change while its row is there. *)
LEMMA RuleChange ==
    ASSUME RuleInv, NEW ip \in IPs, db[ip] # NoBan, db' = db,
           \A j \in IPs : j # ip => rules'[j] = rules[j],
           \A c \in Chains : rules'[ip][c] \in {0, 1},
           ip \in RefusedIPs => \A c \in Chains : rules'[ip][c] = 0,
           mpc' \in Deleting => cur' = ip /\ \A c \in Chains : rules'[ip][c] = 0
    PROVE  RuleInv'
  <1>1. RuleHasRow'
    BY DEF RuleInv, RuleHasRow, Blocked
  <1>2. \A j \in IPs, c \in Chains : rules'[j][c] \in {0, 1}
    BY DEF RuleInv
  <1>3. \A j \in RefusedIPs, c \in Chains : rules'[j][c] = 0
    BY FirewallAssumption DEF RuleInv
  <1>4. mpc' \in Deleting => ~Blocked(cur)'
    BY DEF Blocked
  <1> QED
    BY <1>1, <1>2, <1>3, <1>4 DEF RuleInv

(* How unban's caller goes on: never straight into another deletion. *)
LEMMA UnbanReturnsIdle ==
    ASSUME NEW ok \in BOOLEAN, UnbanReturns(ok)
    PROVE  mpc' \in {"idle", "expire"}
  BY DEF UnbanReturns, Unlock

(* The steps of BanIP. *)
LEMMA BanStepRule ==
    ASSUME "check" \notin Faults, IInv, RuleInv,
           \/ \E ip \in IPs, s \in BanSeconds : BanIP(ip, s)
           \/ BanFirewall \/ BanUndo \/ RebanFirewall \/ ExtendBan
    PROVE  RuleInv'
  <1> TypeOK /\ HolderInv
    BY DEF IInv
  <1>1. ASSUME NEW ip \in IPs, NEW s \in BanSeconds, BanIP(ip, s) PROVE RuleInv'
    <2>1. rules' = rules /\ mpc' \notin Deleting
      BY <1>1 DEF BanIP, Deleting
    <2>2. \A j \in IPs : db[j] # NoBan => db'[j] # NoBan
      BY <1>1 DEF BanIP, Add, TypeOK
    <2> QED
      BY <2>1, <2>2, RuleFrame
  <1>2. CASE BanFirewall
    <2>1. cur \in IPs /\ db[cur] # NoBan /\ db' = db
      BY <1>2 DEF BanFirewall, HolderInv
    <2>2. PICK ok \in BOOLEAN : Ban(cur, ok) /\ (mpc' \in Deleting => ~ok /\ cur' = cur)
      BY <1>2 DEF BanFirewall, Unlock, Deleting
    <2>3. \A c \in Chains : cur \in RefusedIPs => rules'[cur][c] = 0
      BY <2>1, <2>2, BanExact DEF RuleInv
    <2> QED
      BY <2>1, <2>2, <2>3, BanEffect, BanExact, RuleChange
  <1>3. CASE BanUndo
    BY <1>3, RuleDelete DEF BanUndo, Delete, Unlock, Deleting, HolderInv
  <1>4. CASE RebanFirewall
    <2>1. cur \in IPs /\ db[cur] # NoBan /\ db' = db /\ mpc' \notin Deleting
      BY <1>4 DEF RebanFirewall, HolderInv, Unlock, Deleting
    <2>2. PICK ok \in BOOLEAN : Ban(cur, ok)
      BY <1>4 DEF RebanFirewall
    <2>3. \A c \in Chains : cur \in RefusedIPs => rules'[cur][c] = 0
      BY <2>1, <2>2, BanExact DEF RuleInv
    <2> QED
      BY <2>1, <2>2, <2>3, BanEffect, BanExact, RuleChange
  <1>5. CASE ExtendBan
    <2>1. rules' = rules /\ mpc' \notin Deleting /\ cur \in IPs /\ db[cur] # NoBan
      BY <1>5 DEF ExtendBan, Unlock, Deleting, HolderInv
    <2>2. db[cur] \in [id : Nat, until : Int] /\ until \in Int
      BY <2>1 DEF TypeOK, HolderOK
    <2>3. [db[cur] EXCEPT !.until = until] # NoBan
      BY <2>2, BanPoolAssumption
    <2>4. db' = db \/ db' = [db EXCEPT ![cur] = [db[cur] EXCEPT !.until = until]]
      BY <1>5 DEF ExtendBan, Update
    <2>5. \A j \in IPs : db[j] # NoBan => db'[j] # NoBan
      BY <2>1, <2>3, <2>4 DEF TypeOK
    <2> QED
      BY <2>1, <2>5, RuleFrame
  <1> QED
    BY <1>1, <1>2, <1>3, <1>4, <1>5

(* The steps of unban, whoever called it, and of UnbanIP. *)
LEMMA UnbanStepRule ==
    ASSUME "check" \notin Faults, IInv, RuleInv,
           (\E ip \in IPs : UnbanIP(ip)) \/ UnbanFirewall \/ UnbanRow
    PROVE  RuleInv'
  <1> TypeOK /\ HolderInv
    BY DEF IInv
  <1>1. ASSUME NEW ip \in IPs, UnbanIP(ip) PROVE RuleInv'
    BY <1>1, RuleFrame DEF UnbanIP, Deleting
  <1>2. CASE UnbanFirewall
    <2>1. cur \in IPs /\ db[cur] # NoBan /\ db' = db
      BY <1>2 DEF UnbanFirewall, HolderInv
    <2>2. CASE Fault("db") /\ UNCHANGED rules /\ UnbanReturns(FALSE)
      BY <2>1, <2>2, UnbanReturnsIdle, RuleFrame DEF Deleting
    <2>3. CASE ~(Fault("db") /\ UNCHANGED rules /\ UnbanReturns(FALSE))
      <3>1. PICK ok \in BOOLEAN : Unban(cur, ok) /\ (mpc' \in Deleting => ok /\ cur' = cur)
        BY <1>2, <2>3, UnbanReturnsIdle DEF UnbanFirewall, Deleting
      <3>2. \A c \in Chains : rules'[cur][c] \in {0, 1} /\ rules'[cur][c] <= rules[cur][c]
        BY <2>1, <3>1, UnbanExact
      <3>3. \A c \in Chains : cur \in RefusedIPs => rules'[cur][c] = 0
        BY <3>2 DEF RuleInv
      <3>4. mpc' \in Deleting => cur' = cur /\ \A c \in Chains : rules'[cur][c] = 0
        BY <2>1, <3>1, UnbanExact
      <3> QED
        BY <2>1, <3>1, <3>2, <3>3, <3>4, UnbanEffect, RuleChange
    <2> QED
      BY <2>2, <2>3
  <1>3. CASE UnbanRow
    <2>1. mpc \in Deleting /\ cur \in IPs /\ rules' = rules
      BY <1>3 DEF UnbanRow, Deleting, HolderInv
    <2>2. db' = db \/ db' = [db EXCEPT ![cur] = NoBan]
      BY <1>3 DEF UnbanRow, Delete
    <2>3. mpc' \notin Deleting
      BY <1>3, UnbanReturnsIdle DEF UnbanRow, Deleting
    <2> QED
      BY <2>1, <2>2, <2>3, RuleDelete
  <1> QED
    BY <1>1, <1>2, <1>3

(* The steps of RestoreBans. *)
LEMMA RestoreStepRule ==
    ASSUME "check" \notin Faults, IInv, RuleInv, Restore
    PROVE  RuleInv'
  <1> TypeOK /\ HolderInv
    BY DEF IInv
  <1>1. CASE RestoreExpired \/ RestoreBanned \/ RestoreReturns
    <2>1. rules' = rules /\ db' = db
      BY <1>1 DEF RestoreExpired, RestoreBanned, RestoreReturns
    <2>2. mpc' \notin Deleting
      BY <1>1 DEF RestoreExpired, RestoreBanned, RestoreReturns, Unlock, Deleting, holder
    <2> QED
      BY <2>1, <2>2, RuleFrame
  <1>2. CASE RestoreDeletes
    BY <1>2, RuleDelete DEF RestoreDeletes, Delete, Deleting, HolderInv
  <1>3. ASSUME NEW ip \in IPs, RestoreUnbans(ip) PROVE RuleInv'
    BY <1>3, RuleFrame DEF RestoreUnbans, Deleting
  <1>4. ASSUME NEW ip \in IPs, RestoreReapplies(ip) PROVE RuleInv'
    <2>1. db[ip] # NoBan /\ db' = db
      BY <1>4 DEF RestoreReapplies, HolderInv
    <2>2. PICK ok \in BOOLEAN : Ban(ip, ok) /\ (mpc' \in Deleting => ~ok /\ cur' = ip)
      BY <1>4 DEF RestoreReapplies, Deleting
    <2>3. \A c \in Chains : ip \in RefusedIPs => rules'[ip][c] = 0
      BY <2>2, BanExact DEF RuleInv
    <2> QED
      BY <2>1, <2>2, <2>3, BanEffect, BanExact, RuleChange
  <1> QED
    BY <1>1, <1>2, <1>3, <1>4 DEF Restore

(* The steps of the goroutines, of the cycles and of the clock. *)
LEMMA OtherStepRule ==
    ASSUME IInv, RuleInv,
           \/ Waiter \/ Tick \/ CancelCycle \/ NextCycle
           \/ \E reboot \in BOOLEAN : Crash(reboot)
           \/ UNCHANGED vars
    PROVE  RuleInv'
  <1>1. CASE Waiter
    <2>1. PICK w \in waiters : WaiterWakes(w) \/ WaiterCancelled(w) \/ WaiterChecks(w)
      BY <1>1 DEF Waiter
    <2>2. rules' = rules /\ db' = db
      BY <2>1 DEF WaiterWakes, WaiterCancelled, WaiterChecks
    <2>3. (mpc' = mpc /\ cur' = cur) \/ mpc' = "unban"
      BY <2>1 DEF WaiterWakes, WaiterCancelled, WaiterChecks, WaiterGivesUp,
                  WaiterSleepsAgain, WaiterUnbans, holder
    <2> QED
      BY <2>2, <2>3, RuleFrame DEF Deleting
  <1>2. CASE Tick \/ CancelCycle \/ NextCycle \/ UNCHANGED vars
    BY <1>2, RuleFrame DEF Tick, CancelCycle, NextCycle, vars, holder
  <1>3. ASSUME NEW reboot \in BOOLEAN, Crash(reboot) PROVE RuleInv'
    <2>1. db' = db /\ mpc' \notin Deleting
      BY <1>3 DEF Crash, Unlock, Deleting
    <2>2. CASE ~reboot
      BY <1>3, <2>1, <2>2, RuleFrame DEF Crash
    <2>3. CASE reboot
      <3>1. \A ip \in IPs, c \in Chains : rules'[ip][c] = 0
        BY <1>3, <2>3 DEF Crash, NoRules
      <3> QED
        BY <2>1, <3>1, FirewallAssumption DEF RuleInv, RuleHasRow, Blocked
    <2> QED
      BY <2>2, <2>3
  <1> QED
    BY <1>1, <1>2, <1>3

LEMMA InitRuleInv == Init => RuleInv
  BY FirewallAssumption DEF Init, RuleInv, RuleHasRow, Blocked, NoRules, Deleting

LEMMA NextRuleInv ==
    ASSUME "check" \notin Faults, IInv, RuleInv, [Next]_vars
    PROVE  RuleInv'
  BY BanStepRule, UnbanStepRule, RestoreStepRule, OtherStepRule DEF Next, HolderStep

(* Whenever the agent dies, on any step of any operation, a rule it leaves in *)
(* the firewall has a row that RestoreBans will find, provided that the check *)
(* commands (iptables --check and the like) do not fail.                      *)
THEOREM RulesAreBacked ==
    ASSUME "check" \notin Faults
    PROVE  Spec => []RuleHasRow
  <1>1. IInv /\ RuleInv /\ [Next]_vars => RuleInv'
    BY NextRuleInv
  <1>2. RuleInv => RuleHasRow
    BY DEF RuleInv
  <1> QED
    BY <1>1, <1>2, InitRuleInv, SpecIInv, PTL DEF Spec

-----------------------------------------------------------------------------
(***************************************************************************)
(* No ban is lifted early.  The row never ends before the accepted         *)
(* requests want it to, and every caller of unban but UnbanIP has read     *)
(* that the row has ended, under the same mutex: waitUnban reads it again  *)
(* after its sleep, RestoreBans takes the rows of GetExpired.  Nothing     *)
(* moves the end of these rows while the mutex is held.                    *)
(***************************************************************************)
TimeInv ==
    /\ \A ip \in IPs : db[ip] # NoBan => promised[ip] <= db[ip].until
    /\ (mpc = "unban" /\ by # "manual") => db[cur].until <= now
    /\ (by = "restore" /\ mpc \in {"expire", "unban", "unban_row"}) =>
            \A ip \in todo : db[ip].until <= now
    /\ by = "ban" => until = asked

RowsLast == \A ip \in IPs : db[ip] # NoBan => promised[ip] <= db[ip].until

(* The clock only moves forward: what has ended before the step has ended after it. *)
LEMMA TimeForward ==
    ASSUME TypeOK, IInv', now' \in {now, now + 1},
           RowsLast',
           (mpc' = "unban" /\ by' # "manual") => db'[cur'].until <= now,
           (by' = "restore" /\ mpc' \in {"expire", "unban", "unban_row"}) =>
                \A ip \in todo' : db'[ip].until <= now,
           by' = "ban" => until' = asked'
    PROVE  TimeInv'
  <1>1. now \in Nat /\ now' \in Nat
    BY DEF TypeOK
  <1>2. \A ip \in IPs : db'[ip] # NoBan => db'[ip].until \in Int
    BY DEF IInv, TypeOK
  <1>3. (mpc' = "unban" /\ by' # "manual") => db'[cur'].until <= now'
    BY <1>1, <1>2 DEF IInv, HolderInv
  <1>4. ASSUME by' = "restore" /\ mpc' \in {"expire", "unban", "unban_row"}
        PROVE  \A ip \in todo' : db'[ip].until <= now'
    <2>1. \A ip \in todo' : ip \in IPs /\ db'[ip] # NoBan
      BY <1>4 DEF IInv, HolderInv, TypeOK, HolderOK
    <2> QED
      BY <1>1, <1>2, <1>4, <2>1
  <1> QED
    BY <1>3, <1>4 DEF TimeInv, RowsLast

(* Within an int64 the duration is the configured one; without a change of the *)
(* local time's offset the queries compare instants.                           *)
LEMMA DurationExact ==
    ASSUME NEW s \in BanSeconds, s < Half
    PROVE  Duration(s) = s
  <1>1. s \in Nat /\ Half \in Nat
    BY BanPoolAssumption
  <1>2. \A m, n \in Nat : m < n => m % n = m
    OBVIOUS
  <1>3. (s + Half) % (2 * Half) = s + Half
    BY <1>1, <1>2
  <1> QED
    BY <1>1, <1>3 DEF Duration

LEMMA ExpiredHasEnded ==
    ASSUME TypeOK, ShiftBy = 0, NEW ip \in GetExpired
    PROVE  db[ip].until <= now
  <1>1. ip \in IPs /\ db[ip] # NoBan /\ Local(db[ip].until) <= Local(now)
    BY DEF GetExpired
  <1>2. db[ip].until \in Int /\ now \in Int
    BY <1>1 DEF TypeOK
  <1> QED
    BY <1>1, <1>2 DEF Local

(* The steps of BanIP. *)
LEMMA BanStepTime ==
    ASSUME \A s \in BanSeconds : s < Half, IInv, IInv', TimeInv,
           \/ \E ip \in IPs, s \in BanSeconds : BanIP(ip, s)
           \/ BanFirewall \/ BanUndo \/ RebanFirewall \/ ExtendBan
    PROVE  TimeInv'
  <1> TypeOK /\ HolderInv /\ now \in Nat
    BY DEF IInv, TypeOK
  <1> now' = now
    BY DEF BanIP, BanFirewall, BanUndo, RebanFirewall, ExtendBan
  <1>1. ASSUME NEW ip \in IPs, NEW s \in BanSeconds, BanIP(ip, s) PROVE TimeInv'
    <2>1. Duration(s) = s /\ s \in Nat
      BY DurationExact, BanPoolAssumption
    <2>2. mpc' \in {"ban", "reban"} /\ by' = "ban" /\ until' = asked'
      BY <1>1, <2>1 DEF BanIP
    <2>3. RowsLast'
      BY <1>1, <2>1 DEF BanIP, Add, TypeOK, TimeInv, RowsLast
    <2> QED
      BY <2>2, <2>3, TimeForward
  <1>2. CASE BanFirewall \/ RebanFirewall
    <2>1. mpc' \in {"idle", "undo", "extend"} /\ by' \in {"ban", "nobody"}
      BY <1>2 DEF BanFirewall, RebanFirewall, Unlock, HolderInv
    <2>2. by' = "ban" => until' = asked'
      BY <1>2 DEF BanFirewall, RebanFirewall, Unlock, HolderInv, TimeInv
    <2>3. RowsLast'
      BY <1>2 DEF BanFirewall, RebanFirewall, TimeInv, RowsLast
    <2> QED
      BY <2>1, <2>2, <2>3, TimeForward
  <1>3. CASE BanUndo
    <2>1. mpc' = "idle" /\ by' = "nobody"
      BY <1>3 DEF BanUndo, Unlock
    <2>2. RowsLast'
      BY <1>3 DEF BanUndo, Delete, TimeInv, TypeOK, RowsLast
    <2> QED
      BY <2>1, <2>2, TimeForward
  <1>4. CASE ExtendBan
    <2>1. mpc' = "idle" /\ by' = "nobody"
      BY <1>4 DEF ExtendBan, Unlock
    <2>2. cur \in IPs /\ db[cur] # NoBan /\ until = asked
      BY <1>4 DEF ExtendBan, HolderInv, TimeInv
    <2>3. db[cur] \in [id : Nat, until : Int] /\ until \in Int /\ promised \in [IPs -> Int]
      BY <2>2 DEF TypeOK, HolderOK
    <2>4. RowsLast'
      <3>1. ASSUME NEW ip \in IPs, ip # cur, db'[ip] # NoBan PROVE promised'[ip] <= db'[ip].until
        <4>1. db'[ip] = db[ip] /\ promised'[ip] = promised[ip]
          BY <1>4, <3>1 DEF ExtendBan, Update, TypeOK
        <4> QED
          BY <3>1, <4>1 DEF TimeInv
      <3>2. promised'[cur] <= db'[cur].until
        <4>1. promised[cur] <= db[cur].until
          BY <2>2 DEF TimeInv
        <4>2. CASE UNCHANGED <<db, promised>>
          BY <4>1, <4>2
        <4>3. CASE /\ IF until > db[cur].until THEN Update(cur, until) ELSE UNCHANGED <<db, nextId>>
                   /\ promised' = [promised EXCEPT ![cur] = Latest(@, asked)]
          <5>1. promised'[cur] = Latest(promised[cur], until)
            BY <2>2, <2>3, <4>3
          <5>2. db'[cur].until = IF until > db[cur].until THEN until ELSE db[cur].until
            BY <2>2, <2>3, <4>3 DEF Update, TypeOK
          <5> QED
            BY <2>2, <2>3, <4>1, <5>1, <5>2 DEF Latest
        <4> QED
          BY <1>4, <4>2, <4>3 DEF ExtendBan
      <3> QED
        BY <3>1, <3>2 DEF RowsLast
    <2> QED
      BY <2>1, <2>4, TimeForward
  <1> QED
    BY <1>1, <1>2, <1>3, <1>4

(* The steps of unban, whoever called it, and of UnbanIP. *)
LEMMA UnbanStepTime ==
    ASSUME IInv, IInv', TimeInv,
           (\E ip \in IPs : UnbanIP(ip)) \/ UnbanFirewall \/ UnbanRow
    PROVE  TimeInv'
  <1> TypeOK /\ HolderInv /\ now' = now
    BY DEF IInv, UnbanIP, UnbanFirewall, UnbanRow
  <1>1. ASSUME NEW ip \in IPs, UnbanIP(ip) PROVE TimeInv'
    <2>1. by' = "manual" /\ RowsLast'
      BY <1>1 DEF UnbanIP, TimeInv, RowsLast
    <2> QED
      BY <2>1, TimeForward
  <1>2. CASE UnbanFirewall
    <2>1. db' = db /\ RowsLast'
      BY <1>2 DEF UnbanFirewall, TimeInv, RowsLast
    <2>2. mpc' \in {"idle", "expire", "unban_row"} /\ by' \in {by, "nobody"} /\ by # "ban"
      BY <1>2 DEF UnbanFirewall, UnbanReturns, Unlock, HolderInv
    <2>3. by' = "restore" => todo' = todo
      BY <1>2 DEF UnbanFirewall, UnbanReturns, Unlock
    <2>4. by' = "restore" => \A ip \in todo' : db'[ip].until <= now
      BY <1>2, <2>1, <2>2, <2>3 DEF UnbanFirewall, TimeInv
    <2> QED
      BY <2>1, <2>2, <2>4, TimeForward
  <1>3. CASE UnbanRow
    <2>1. cur \in IPs /\ (db' = db \/ db' = [db EXCEPT ![cur] = NoBan])
      BY <1>3 DEF UnbanRow, Delete, HolderInv
    <2>2. RowsLast'
      BY <1>3, <2>1 DEF UnbanRow, TimeInv, RowsLast, TypeOK
    <2>3. mpc' \in {"idle", "expire"} /\ by' \in {by, "nobody"} /\ by # "ban"
      BY <1>3 DEF UnbanRow, UnbanReturns, Unlock, HolderInv
    <2>4. by' = "restore" => todo' = todo
      BY <1>3 DEF UnbanRow, UnbanReturns, Unlock
    <2>5. ASSUME by' = "restore", NEW ip \in todo' PROVE db'[ip].until <= now
      <3>1. by = "restore" /\ ip \in todo /\ ip # cur /\ ip \in IPs
        BY <2>3, <2>4, <2>5 DEF HolderInv, TypeOK, HolderOK
      <3>2. db'[ip] = db[ip]
        BY <2>1, <3>1 DEF TypeOK
      <3> QED
        BY <1>3, <3>1, <3>2 DEF UnbanRow, TimeInv
    <2> QED
      BY <2>2, <2>3, <2>5, TimeForward
  <1> QED
    BY <1>1, <1>2, <1>3

(* The steps of RestoreBans. *)
LEMMA RestoreStepTime ==
    ASSUME ShiftBy = 0, IInv, IInv', TimeInv, Restore
    PROVE  TimeInv'
  <1> TypeOK /\ HolderInv /\ now' = now
    BY DEF IInv, Restore, RestoreExpired, RestoreUnbans, RestoreBanned, RestoreReapplies,
           RestoreDeletes, RestoreReturns
  <1>1. CASE RestoreExpired
    <2>1. db' = db /\ RowsLast'
      BY <1>1 DEF RestoreExpired, TimeInv, RowsLast
    <2>2. mpc' \in {"idle", "expire"} /\ by' \in {"restore", "nobody"}
      BY <1>1 DEF RestoreExpired, HolderInv, holder
    <2>3. by' = "restore" => todo' = GetExpired
      BY <1>1 DEF RestoreExpired, HolderInv, holder
    <2> QED
      BY <2>1, <2>2, <2>3, ExpiredHasEnded, TimeForward
  <1>2. ASSUME NEW ip \in IPs, RestoreUnbans(ip) PROVE TimeInv'
    <2>1. db' = db /\ RowsLast' /\ by' = "restore"
      BY <1>2 DEF RestoreUnbans, TimeInv, RowsLast, HolderInv
    <2>2. mpc' = "unban" /\ cur' = ip /\ ip \in todo /\ todo' \subseteq todo
      BY <1>2 DEF RestoreUnbans
    <2>3. \A j \in todo : db[j].until <= now
      BY <1>2, <2>1 DEF RestoreUnbans, TimeInv
    <2> QED
      BY <2>1, <2>2, <2>3, TimeForward
  <1>3. CASE RestoreBanned \/ RestoreReturns \/ \E ip \in IPs : RestoreReapplies(ip)
    <2>1. db' = db /\ RowsLast'
      BY <1>3 DEF RestoreBanned, RestoreReturns, RestoreReapplies, TimeInv, RowsLast
    <2>2. mpc' \in {"idle", "reapply", "reapply_undo"} /\ by' \in {"restore", "nobody"}
      BY <1>3 DEF RestoreBanned, RestoreReturns, RestoreReapplies, Unlock, HolderInv
    <2> QED
      BY <2>1, <2>2, TimeForward
  <1>4. CASE RestoreDeletes
    <2>1. mpc' = "reapply" /\ by' = "restore"
      BY <1>4 DEF RestoreDeletes, HolderInv
    <2>2. RowsLast'
      BY <1>4 DEF RestoreDeletes, Delete, TimeInv, RowsLast, TypeOK
    <2> QED
      BY <2>1, <2>2, TimeForward
  <1> QED
    BY <1>1, <1>2, <1>3, <1>4 DEF Restore

(* The steps of the goroutines, of the cycles and of the clock. *)
LEMMA OtherStepTime ==
    ASSUME IInv, IInv', TimeInv,
           \/ Waiter \/ Tick \/ CancelCycle \/ NextCycle
           \/ \E reboot \in BOOLEAN : Crash(reboot)
           \/ UNCHANGED vars
    PROVE  TimeInv'
  <1> TypeOK /\ HolderInv
    BY DEF IInv
  <1>1. CASE Waiter
    <2>1. PICK w \in waiters : WaiterWakes(w) \/ WaiterCancelled(w) \/ WaiterChecks(w)
      BY <1>1 DEF Waiter
    <2>2. now' = now /\ db' = db /\ RowsLast'
      BY <2>1 DEF WaiterWakes, WaiterCancelled, WaiterChecks, TimeInv, RowsLast
    <2>3. CASE UNCHANGED holder
      BY <2>2, <2>3, TimeForward DEF holder, TimeInv
    <2>4. CASE ~UNCHANGED holder
      <3>1. WaiterUnbans(w)
        BY <2>1, <2>4 DEF WaiterWakes, WaiterCancelled, WaiterChecks, WaiterGivesUp,
                          WaiterSleepsAgain
      <3>2. mpc' = "unban" /\ by' = "waiter" /\ cur' = w.ip /\ db[w.ip].until <= now
        BY <3>1 DEF WaiterUnbans
      <3> QED
        BY <2>2, <3>2, TimeForward
    <2> QED
      BY <2>3, <2>4
  <1>2. CASE Tick \/ CancelCycle \/ NextCycle \/ UNCHANGED vars
    <2>1. now' \in {now, now + 1} /\ UNCHANGED <<db, promised, mpc, by, cur, until, asked, todo>>
      BY <1>2 DEF Tick, CancelCycle, NextCycle, vars, holder
    <2> QED
      BY <2>1, TimeForward DEF TimeInv, RowsLast
  <1>3. CASE \E reboot \in BOOLEAN : Crash(reboot)
    <2>1. now' = now /\ RowsLast' /\ mpc' = "idle" /\ by' = "nobody"
      BY <1>3 DEF Crash, Unlock, TimeInv, RowsLast
    <2> QED
      BY <2>1, TimeForward
  <1> QED
    BY <1>1, <1>2, <1>3

(* Who takes the last rule of an address away: unban, or a reboot. *)
LEMMA OnlyUnbanLifts ==
    ASSUME IInv, [Next]_vars, NEW ip \in IPs, Blocked(ip), ~Blocked(ip)', cyc' = cyc
    PROVE  UnbanFirewall /\ ip = cur
  <1> TypeOK /\ HolderInv
    BY DEF IInv
  <1>1. rules' # rules
    BY DEF Blocked
  <1>2. \A j \in IPs, ok \in BOOLEAN : ~Ban(j, ok)
    <2> SUFFICES ASSUME NEW j \in IPs, NEW ok \in BOOLEAN, Ban(j, ok) PROVE FALSE
      OBVIOUS
    <2>1. \A c \in Chains : rules[ip][c] > 0 => rules'[ip][c] > 0
      BY BanEffect
    <2> QED
      BY <2>1 DEF Blocked
  <1>3. ~BanFirewall /\ ~RebanFirewall
    BY <1>2 DEF BanFirewall, RebanFirewall, HolderInv
  <1>4. ~Restore
    BY <1>1, <1>2 DEF Restore, RestoreExpired, RestoreUnbans, RestoreBanned, RestoreReapplies,
                      RestoreDeletes, RestoreReturns
  <1>5. ~Waiter
    BY <1>1 DEF Waiter, WaiterWakes, WaiterCancelled, WaiterChecks
  <1>6. \A reboot \in BOOLEAN : ~Crash(reboot)
    BY DEF Crash, TypeOK
  <1>7. UnbanFirewall
    BY <1>1, <1>3, <1>4, <1>5, <1>6
       DEF Next, HolderStep, Tick, BanIP, UnbanIP, BanUndo, ExtendBan, UnbanRow, CancelCycle,
           NextCycle, vars
  <1>8. cur \in IPs /\ \E ok \in BOOLEAN : Unban(cur, ok)
    BY <1>1, <1>7 DEF UnbanFirewall, HolderInv
  <1>9. \A j \in IPs : j # cur => rules'[j] = rules[j]
    BY <1>8, UnbanEffect
  <1> QED
    BY <1>7, <1>9 DEF Blocked

LEMMA InitTimeInv == Init => TimeInv
  BY DEF Init, TimeInv

LEMMA NextTimeInv ==
    ASSUME ShiftBy = 0, \A s \in BanSeconds : s < Half, IInv, IInv', TimeInv, [Next]_vars
    PROVE  TimeInv'
  BY BanStepTime, UnbanStepTime, RestoreStepTime, OtherStepTime DEF Next, HolderStep

(* Neither a goroutine that slept through an extension nor RestoreBans after   *)
(* a crash lifts a ban before the time the accepted requests asked for, for    *)
(* durations that fit an int64 and while the local time's offset is constant.  *)
THEOREM BansAreNotLiftedEarly ==
    ASSUME ShiftBy = 0, \A s \in BanSeconds : s < Half
    PROVE  Spec => NoEarlyLift
  <1>1. IInv /\ IInv' /\ TimeInv /\ [Next]_vars => TimeInv'
    BY NextTimeInv
  <1>2. IInv /\ TimeInv /\ [Next]_vars =>
          [\A ip \in IPs : (Blocked(ip) /\ ~Blocked(ip)' /\ cyc' = cyc /\ by # "manual")
                              => now >= promised[ip]]_vars
    <2> SUFFICES ASSUME IInv, TimeInv, [Next]_vars, NEW ip \in IPs,
                        Blocked(ip), ~Blocked(ip)', cyc' = cyc, by # "manual"
                 PROVE  now >= promised[ip]
      OBVIOUS
    <2>1. UnbanFirewall /\ ip = cur
      BY OnlyUnbanLifts
    <2>2. db[ip] # NoBan /\ db[ip].until <= now /\ promised[ip] <= db[ip].until
      BY <2>1 DEF UnbanFirewall, TimeInv, IInv, HolderInv
    <2>3. db[ip].until \in Int /\ now \in Int /\ promised[ip] \in Int
      BY <2>2 DEF IInv, TypeOK
    <2> QED
      BY <2>2, <2>3
  <1> QED
    BY <1>1, <1>2, InitTimeInv, SpecIInv, PTL DEF Spec, NoEarlyLift
=============================================================================
