-------------------------- MODULE BanPoolRefinement --------------------------
(***************************************************************************)
(* The ban pool implements Sentences: a step of BanPool is a step of       *)
(* Sentences under the mapping of Abstract, or leaves it unchanged.        *)
(***************************************************************************)
EXTENDS BanPoolRowProofs

(* The mapped state. *)
Status == [ip \in IPs |-> StatusOf(ip)]
Pardoned == IF by = "manual" THEN {cur} ELSE {}

AbstractStep == [Abstract!Next]_(Abstract!vars)

(***************************************************************************)
(* What the mapping needs beyond the earlier invariants: a ban is extended *)
(* only while it is in force, and by a request that was made in the past.  *)
(***************************************************************************)
RequestInv ==
    /\ mpc = "extend" => Blocked(cur)
    /\ mpc \in {"reban", "extend"} =>
            \E s \in BanSeconds, at \in 0 .. now : asked = at + s

LEMMA RequestStep ==
    ASSUME Chains # {}, IInv, RequestInv, [Next]_vars
    PROVE  RequestInv'
  <1> TypeOK /\ HolderInv /\ now \in Nat
    BY DEF IInv, TypeOK
  <1>1. CASE mpc' \notin {"reban", "extend"}
    BY <1>1 DEF RequestInv
  <1>2. ASSUME NEW ip \in IPs, NEW s \in BanSeconds, BanIP(ip, s), mpc' \in {"reban", "extend"}
        PROVE RequestInv'
    <2>1. mpc' = "reban" /\ asked' = now + s /\ now' = now
      BY <1>2 DEF BanIP
    <2> QED
      BY <2>1 DEF RequestInv
  <1>3. CASE RebanFirewall /\ mpc' \in {"reban", "extend"}
    <2>1. mpc = "reban" /\ Ban(cur, TRUE) /\ cur \in IPs /\ UNCHANGED <<cur, asked, now>>
      BY <1>3 DEF RebanFirewall, Unlock, HolderInv
    <2>2. \A ip \in IPs : ip = cur => Blocked(ip)'
      BY <2>1, BanBlocks
    <2> QED
      BY <2>1, <2>2 DEF RequestInv, Blocked
  <1>4. CASE mpc' = mpc /\ UNCHANGED <<cur, asked, rules>> /\ now' \in {now, now + 1}
    <2>1. \A at \in 0 .. now : at \in 0 .. now'
      BY <1>4
    <2> QED
      BY <1>4, <2>1 DEF RequestInv, Blocked
  <1>5. \/ \E ip \in IPs, s \in BanSeconds : BanIP(ip, s)
        \/ RebanFirewall
        \/ mpc' = mpc /\ UNCHANGED <<cur, asked, rules>> /\ now' \in {now, now + 1}
        \/ mpc' \notin {"reban", "extend"}
    <2>1. CASE HolderStep
      BY <2>1 DEF HolderStep, BanFirewall, BanUndo, ExtendBan, UnbanFirewall, UnbanRow,
                  UnbanReturns, Unlock
    <2>2. CASE Restore
      BY <2>2 DEF Restore, RestoreExpired, RestoreUnbans, RestoreBanned, RestoreReapplies,
                  RestoreDeletes, RestoreReturns, Unlock, holder
    <2>3. CASE Waiter
      BY <2>3 DEF Waiter, WaiterWakes, WaiterCancelled, WaiterChecks, WaiterGivesUp,
                  WaiterSleepsAgain, WaiterUnbans, holder
    <2>4. CASE Tick \/ CancelCycle \/ NextCycle \/ UNCHANGED vars
      BY <2>4 DEF Tick, CancelCycle, NextCycle, vars, holder
    <2>5. CASE (\E ip \in IPs : UnbanIP(ip)) \/ \E reboot \in BOOLEAN : Crash(reboot)
      BY <2>5 DEF UnbanIP, Crash, Unlock
    <2> QED
      BY <2>1, <2>2, <2>3, <2>4, <2>5 DEF Next
  <1> QED
    BY <1>1, <1>2, <1>3, <1>4, <1>5

-----------------------------------------------------------------------------
(* A step that changes the status of at most one address. *)
LEMMA OneStatus ==
    ASSUME NEW ip \in IPs, \A j \in IPs \ {ip} : StatusOf(j)' = StatusOf(j)
    PROVE  Status' = [Status EXCEPT ![ip] = StatusOf(ip)']
  BY DEF Status

LEMMA StatusSame ==
    ASSUME UNCHANGED <<rules, db>>
    PROVE  Status' = Status
  <1>1. \A ip \in IPs : StatusOf(ip)' = StatusOf(ip)
    BY DEF StatusOf, Blocked
  <1> QED
    BY <1>1 DEF Status

(* The abstract state does not change, but a pardon may end. *)
LEMMA QuietStep ==
    ASSUME Status' = Status, UNCHANGED <<now, promised, cyc>>,
           Pardoned' = Pardoned \/ Pardoned' = {}
    PROVE  AbstractStep
  <1>1. CASE Pardoned' = Pardoned
    BY <1>1 DEF AbstractStep, Abstract!vars, Status, Pardoned
  <1>2. CASE Pardoned' = {}
    <2>1. Abstract!PardonEnds
      BY <1>2 DEF Abstract!PardonEnds, Status, Pardoned
    <2> QED
      BY <2>1 DEF AbstractStep, Abstract!Next
  <1> QED
    BY <1>1, <1>2

(* How the status of one address may change while its sentence does not. *)
LEMMA StatusStep ==
    ASSUME NEW ip \in IPs, \A j \in IPs \ {ip} : StatusOf(j)' = StatusOf(j),
           UNCHANGED <<now, promised, cyc>>, Pardoned' = Pardoned \/ Pardoned' = {},
           \/ StatusOf(ip)' = StatusOf(ip)
           \/ StatusOf(ip) = "asked" /\ StatusOf(ip)' = "held" /\ Pardoned' = Pardoned
           \/ StatusOf(ip) = "asked" /\ StatusOf(ip)' = "free"
           \/ /\ StatusOf(ip) = "held" /\ StatusOf(ip)' = "asked"
              /\ now >= promised[ip] \/ ip \in Pardoned
           \/ StatusOf(ip) = "held" /\ StatusOf(ip)' = "stray" /\ "check" \in Faults
    PROVE  AbstractStep
  <1>1. Status' = [Status EXCEPT ![ip] = StatusOf(ip)'] /\ Status[ip] = StatusOf(ip)
    BY OneStatus DEF Status
  <1>2. Pardoned' \subseteq Pardoned
    OBVIOUS
  <1>3. CASE StatusOf(ip)' = StatusOf(ip)
    <2>1. Status' = Status
      BY <1>1, <1>3 DEF Status
    <2> QED
      BY <2>1, QuietStep
  <1>4. CASE StatusOf(ip) = "asked" /\ StatusOf(ip)' = "held" /\ Pardoned' = Pardoned
    <2>1. Abstract!Hold(ip)
      BY <1>1, <1>4 DEF Abstract!Hold, Abstract!Becomes, Status, Pardoned
    <2> QED
      BY <2>1 DEF AbstractStep, Abstract!Next
  <1>5. CASE StatusOf(ip) = "asked" /\ StatusOf(ip)' = "free"
    <2>1. Abstract!GiveUp(ip)
      BY <1>1, <1>2, <1>5 DEF Abstract!GiveUp, Abstract!Becomes, Status, Pardoned
    <2> QED
      BY <2>1 DEF AbstractStep, Abstract!Next
  <1>6. CASE /\ StatusOf(ip) = "held" /\ StatusOf(ip)' = "asked"
             /\ now >= promised[ip] \/ ip \in Pardoned
    <2>1. Abstract!Release(ip)
      BY <1>1, <1>2, <1>6 DEF Abstract!Release, Abstract!Becomes, Status, Pardoned
    <2> QED
      BY <2>1 DEF AbstractStep, Abstract!Next
  <1>7. CASE StatusOf(ip) = "held" /\ StatusOf(ip)' = "stray" /\ "check" \in Faults
    <2>1. Abstract!Stray(ip)
      BY <1>1, <1>2, <1>7 DEF Abstract!Stray, Abstract!Becomes, Status, Pardoned
    <2> QED
      BY <2>1 DEF AbstractStep, Abstract!Next
  <1> QED
    BY <1>3, <1>4, <1>5, <1>6, <1>7

-----------------------------------------------------------------------------
(* Firewall calls and deletions of rows as the abstract pool sees them. *)

(* A call of Ban for an address with a row: the ban is in force, or nothing changed. *)
LEMMA BanCall ==
    ASSUME IInv, NEW ip \in IPs, NEW ok \in BOOLEAN, Ban(ip, ok), db' = db, db[ip] # NoBan,
           UNCHANGED <<now, promised, cyc>>, Pardoned' = Pardoned
    PROVE  AbstractStep
  <1>1. \A j \in IPs \ {ip} : StatusOf(j)' = StatusOf(j)
    <2>1. \A j \in IPs \ {ip} : rules'[j] = rules[j]
      BY BanEffect DEF IInv
    <2> QED
      BY <2>1 DEF StatusOf, Blocked
  <1>2. Blocked(ip) => Blocked(ip)'
    BY BanBlocks
  <1>3. StatusOf(ip) = (IF Blocked(ip) THEN "held" ELSE "asked")
    BY DEF StatusOf
  <1>4. StatusOf(ip)' = (IF Blocked(ip)' THEN "held" ELSE "asked")
    BY DEF StatusOf
  <1> QED
    BY <1>1, <1>2, <1>3, <1>4, StatusStep

(* The row of an address is deleted: given up, or forgotten when a check failed. *)
LEMMA DeleteCall ==
    ASSUME IInv, "check" \notin Faults => RuleInv, rules' = rules, mpc \in Deleting,
           db' = db \/ db' = [db EXCEPT ![cur] = NoBan],
           UNCHANGED <<now, promised, cyc>>, Pardoned' = Pardoned \/ Pardoned' = {}
    PROVE  AbstractStep
  <1> TypeOK /\ HolderInv
    BY DEF IInv
  <1>1. PICK ip \in IPs : ip = cur /\ db[ip] # NoBan
    BY DEF HolderInv, Deleting
  <1>2. CASE db' = db
    BY <1>2, StatusSame, QuietStep
  <1>3. CASE db' = [db EXCEPT ![cur] = NoBan]
    <2>1. db'[ip] = NoBan /\ \A j \in IPs \ {ip} : db'[j] = db[j]
      BY <1>1, <1>3 DEF TypeOK
    <2>2. \A j \in IPs \ {ip} : StatusOf(j)' = StatusOf(j)
      BY <2>1 DEF StatusOf, Blocked
    <2>3. Blocked(ip)' = Blocked(ip)
      BY DEF Blocked
    <2>4. StatusOf(ip) = (IF Blocked(ip) THEN "held" ELSE "asked")
      BY <1>1 DEF StatusOf
    <2>5. StatusOf(ip)' = (IF Blocked(ip) THEN "stray" ELSE "free")
      BY <2>1, <2>3 DEF StatusOf
    <2>6. Blocked(ip) => "check" \in Faults
      BY <1>1 DEF RuleInv
    <2> QED
      BY <2>2, <2>4, <2>5, <2>6, StatusStep
  <1> QED
    BY <1>2, <1>3

(* BanIP and the steps of the operation it starts. *)
LEMMA BanStepRefines ==
    ASSUME IInv, "check" \notin Faults => RuleInv, RequestInv,
           \/ \E ip \in IPs, s \in BanSeconds : BanIP(ip, s)
           \/ BanFirewall \/ BanUndo \/ RebanFirewall \/ ExtendBan
    PROVE  AbstractStep
  <1> TypeOK /\ HolderInv
    BY DEF IInv
  <1>0. Pardoned = {} /\ Pardoned' = {} /\ UNCHANGED <<now, cyc>>
    BY DEF Pardoned, BanIP, BanFirewall, BanUndo, RebanFirewall, ExtendBan, Unlock, HolderInv
  <1>1. ASSUME NEW ip \in IPs, NEW s \in BanSeconds, BanIP(ip, s) PROVE AbstractStep
    <2>1. CASE db[ip] # NoBan
      BY <1>0, <1>1, <2>1, StatusSame, QuietStep DEF BanIP
    <2>2. CASE db[ip] = NoBan
      <3>1. db'[ip] # NoBan
        <4>1. nextId \in Nat /\ now + Duration(s) \in Int
          BY DurationInt DEF TypeOK
        <4>2. db'[ip] = [id |-> nextId, until |-> now + Duration(s)]
          BY <1>1, <2>2 DEF BanIP, Add, TypeOK
        <4> QED
          BY <4>1, <4>2, BanPoolAssumption
      <3>2. \A j \in IPs \ {ip} : db'[j] = db[j]
        BY <1>1, <2>2 DEF BanIP, Add, TypeOK
      <3>3. rules' = rules /\ promised' = [promised EXCEPT ![ip] = now + s]
        BY <1>1, <2>2 DEF BanIP
      <3>4. \A j \in IPs \ {ip} : StatusOf(j)' = StatusOf(j)
        BY <3>2, <3>3 DEF StatusOf, Blocked
      <3>5. StatusOf(ip) = (IF Blocked(ip) THEN "stray" ELSE "free")
        BY <2>2 DEF StatusOf
      <3>6. StatusOf(ip)' = (IF Blocked(ip) THEN "held" ELSE "asked")
        BY <3>1, <3>3 DEF StatusOf, Blocked
      <3>7. Status' = [Status EXCEPT ![ip] = StatusOf(ip)'] /\ Status[ip] = StatusOf(ip)
        BY <3>4, OneStatus DEF Status
      <3>8. Abstract!Ask(ip)
        BY <1>0, <3>3, <3>5, <3>6, <3>7 DEF Abstract!Ask, Abstract!Becomes, Status, Pardoned
      <3> QED
        BY <3>8 DEF AbstractStep, Abstract!Next
    <2> QED
      BY <2>1, <2>2
  <1>2. CASE BanFirewall \/ RebanFirewall
    <2>1. PICK ok \in BOOLEAN : Ban(cur, ok)
      BY <1>2 DEF BanFirewall, RebanFirewall
    <2>2. cur \in IPs /\ db[cur] # NoBan /\ UNCHANGED <<db, promised>>
      BY <1>2 DEF BanFirewall, RebanFirewall, HolderInv
    <2> QED
      BY <1>0, <2>1, <2>2, BanCall
  <1>3. CASE BanUndo
    <2>1. mpc \in Deleting /\ UNCHANGED <<rules, promised>>
      BY <1>3 DEF BanUndo, Deleting
    <2>2. db' = db \/ db' = [db EXCEPT ![cur] = NoBan]
      BY <1>3 DEF BanUndo, Delete
    <2> QED
      BY <1>0, <2>1, <2>2, DeleteCall
  <1>4. CASE ExtendBan
    <2>1. PICK ip \in IPs : ip = cur /\ db[ip] # NoBan /\ Blocked(ip)
      BY <1>4 DEF ExtendBan, HolderInv, RequestInv
    <2>2. db[ip] \in [id : Nat, until : Int] /\ until \in Int /\ asked \in Int
          /\ promised \in [IPs -> Int]
      BY <2>1 DEF TypeOK, HolderOK
    <2>3. rules' = rules /\ db'[ip] # NoBan /\ \A j \in IPs \ {ip} : db'[j] = db[j]
      <3>1. db' = db \/ db' = [db EXCEPT ![ip] = [db[ip] EXCEPT !.until = until]]
        BY <1>4, <2>1 DEF ExtendBan, Update
      <3>2. [db[ip] EXCEPT !.until = until] # NoBan
        BY <2>2, BanPoolAssumption
      <3> QED
        BY <1>4, <2>1, <3>1, <3>2 DEF ExtendBan, TypeOK
    <2>4. Status' = Status /\ Status[ip] = "held"
      <3>1. \A j \in IPs : StatusOf(j)' = StatusOf(j)
        BY <2>1, <2>3 DEF StatusOf, Blocked
      <3> QED
        BY <2>1, <3>1 DEF Status, StatusOf
    <2>5. CASE promised' = promised
      BY <1>0, <2>4, <2>5, QuietStep
    <2>6. CASE promised' # promised
      <3>1. promised' = [promised EXCEPT ![ip] = Latest(@, asked)]
        BY <1>4, <2>1, <2>6 DEF ExtendBan
      <3>2. Latest(promised[ip], asked) # promised[ip]
        BY <2>2, <2>6, <3>1
      <3>3. asked > promised[ip] /\ promised' = [promised EXCEPT ![ip] = asked]
        <4>1. promised[ip] \in Int
          BY <2>2
        <4>2. asked > promised[ip] /\ Latest(promised[ip], asked) = asked
          BY <2>2, <3>2, <4>1 DEF Latest
        <4> QED
          BY <3>1, <4>2
      <3>4. PICK s \in BanSeconds, at \in 0 .. now : asked = at + s
        BY <1>4 DEF ExtendBan, RequestInv
      <3>5. Abstract!Extend(ip)
        BY <1>0, <2>4, <3>3, <3>4 DEF Abstract!Extend, Status, Pardoned
      <3> QED
        BY <3>5 DEF AbstractStep, Abstract!Next
    <2> QED
      BY <2>5, <2>6
  <1> QED
    BY <1>1, <1>2, <1>3, <1>4

(* unban, whoever called it, and UnbanIP. *)
LEMMA UnbanStepRefines ==
    ASSUME IInv, "check" \notin Faults => RuleInv, TimeInv,
           (\E ip \in IPs : UnbanIP(ip)) \/ UnbanFirewall \/ UnbanRow
    PROVE  AbstractStep
  <1> TypeOK /\ HolderInv
    BY DEF IInv
  <1>1. ASSUME NEW ip \in IPs, UnbanIP(ip) PROVE AbstractStep
    <2>1. Pardoned' = {ip}
      BY <1>1 DEF UnbanIP, Pardoned
    <2>2. Status' = Status /\ Status[ip] \in {"asked", "held"}
      BY <1>1, StatusSame DEF UnbanIP, Status, StatusOf
    <2>3. Abstract!Pardon(ip)
      BY <1>1, <2>1, <2>2 DEF UnbanIP, Abstract!Pardon, Status, Pardoned
    <2> QED
      BY <2>3 DEF AbstractStep, Abstract!Next
  <1>2. (UnbanFirewall \/ UnbanRow) => Pardoned' = Pardoned \/ Pardoned' = {}
    BY DEF UnbanFirewall, UnbanRow, UnbanReturns, Unlock, Pardoned
  <1>3. CASE UnbanFirewall
    <2>1. UNCHANGED <<now, db, promised, cyc>>
      BY <1>3 DEF UnbanFirewall
    <2>2. PICK ip \in IPs : ip = cur /\ db[ip] # NoBan
      BY <1>3 DEF UnbanFirewall, HolderInv
    <2>3. CASE rules' = rules
      BY <1>2, <1>3, <2>1, <2>3, StatusSame, QuietStep
    <2>4. CASE rules' # rules
      <3>1. PICK ok \in BOOLEAN : Unban(ip, ok)
        BY <1>3, <2>2, <2>4 DEF UnbanFirewall
      <3>2. \A j \in IPs \ {ip} : rules'[j] = rules[j]
        BY <3>1, UnbanEffect
      <3>3. \A j \in IPs \ {ip} : StatusOf(j)' = StatusOf(j)
        BY <2>1, <3>2 DEF StatusOf, Blocked
      <3>4. Blocked(ip)' => Blocked(ip)
        BY <3>1, UnbanBlocks
      <3>5. StatusOf(ip) = (IF Blocked(ip) THEN "held" ELSE "asked")
        BY <2>2 DEF StatusOf
      <3>6. StatusOf(ip)' = (IF Blocked(ip)' THEN "held" ELSE "asked")
        BY <2>1, <2>2 DEF StatusOf
      <3>7. now >= promised[ip] \/ ip \in Pardoned
        <4>1. CASE by = "manual"
          BY <2>2, <4>1 DEF Pardoned
        <4>2. CASE by # "manual"
          <5>1. db[ip].until <= now /\ promised[ip] <= db[ip].until
            BY <1>3, <2>2, <4>2 DEF UnbanFirewall, TimeInv
          <5>2. db[ip].until \in Int /\ now \in Int /\ promised[ip] \in Int
            BY <2>2 DEF TypeOK
          <5> QED
            BY <5>1, <5>2
        <4> QED
          BY <4>1, <4>2
      <3> QED
        BY <1>2, <1>3, <2>1, <3>3, <3>4, <3>5, <3>6, <3>7, StatusStep
    <2> QED
      BY <2>3, <2>4
  <1>4. CASE UnbanRow
    <2>1. mpc \in Deleting /\ UNCHANGED <<rules, now, promised, cyc>>
      BY <1>4 DEF UnbanRow, Deleting
    <2>2. db' = db \/ db' = [db EXCEPT ![cur] = NoBan]
      BY <1>4 DEF UnbanRow, Delete
    <2> QED
      BY <1>2, <1>4, <2>1, <2>2, DeleteCall
  <1> QED
    BY <1>1, <1>3, <1>4

(* RestoreBans. *)
LEMMA RestoreStepRefines ==
    ASSUME IInv, "check" \notin Faults => RuleInv, Restore
    PROVE  AbstractStep
  <1> TypeOK /\ HolderInv
    BY DEF IInv
  <1>0. Pardoned = {} /\ Pardoned' = {} /\ UNCHANGED <<now, promised, cyc>>
    BY DEF Restore, RestoreExpired, RestoreUnbans, RestoreBanned, RestoreReapplies,
           RestoreDeletes, RestoreReturns, HolderInv, Unlock, holder, Pardoned
  <1>1. CASE RestoreExpired \/ RestoreBanned \/ RestoreReturns \/ \E ip \in IPs : RestoreUnbans(ip)
    <2>1. UNCHANGED <<rules, db>>
      BY <1>1 DEF RestoreExpired, RestoreBanned, RestoreReturns, RestoreUnbans
    <2> QED
      BY <1>0, <2>1, StatusSame, QuietStep
  <1>2. CASE RestoreDeletes
    <2>1. mpc \in Deleting /\ rules' = rules
      BY <1>2 DEF RestoreDeletes, Deleting
    <2>2. db' = db \/ db' = [db EXCEPT ![cur] = NoBan]
      BY <1>2 DEF RestoreDeletes, Delete
    <2> QED
      BY <1>0, <2>1, <2>2, DeleteCall
  <1>3. ASSUME NEW ip \in IPs, RestoreReapplies(ip) PROVE AbstractStep
    <2>1. db[ip] # NoBan /\ db' = db
      BY <1>3 DEF RestoreReapplies, HolderInv
    <2>2. PICK ok \in BOOLEAN : Ban(ip, ok)
      BY <1>3 DEF RestoreReapplies
    <2> QED
      BY <1>0, <2>1, <2>2, BanCall
  <1> QED
    BY <1>1, <1>2, <1>3 DEF Restore

(* The goroutines, the clock, the cycles and the process. *)
LEMMA OtherStepRefines ==
    ASSUME IInv,
           \/ Waiter \/ Tick \/ CancelCycle \/ NextCycle
           \/ \E reboot \in BOOLEAN : Crash(reboot)
           \/ UNCHANGED vars
    PROVE  AbstractStep
  <1> TypeOK /\ HolderInv
    BY DEF IInv
  <1>1. CASE Waiter
    <2>1. PICK w \in waiters : WaiterWakes(w) \/ WaiterCancelled(w) \/ WaiterChecks(w)
      BY <1>1 DEF Waiter
    <2>2. UNCHANGED <<rules, db, now, promised, cyc>>
      BY <2>1 DEF WaiterWakes, WaiterCancelled, WaiterChecks
    <2>3. Pardoned' = Pardoned
      BY <2>1 DEF WaiterWakes, WaiterCancelled, WaiterChecks, WaiterGivesUp, WaiterSleepsAgain,
                  WaiterUnbans, holder, HolderInv, Pardoned
    <2> QED
      BY <2>2, <2>3, StatusSame, QuietStep
  <1>2. CASE CancelCycle \/ UNCHANGED vars
    <2>1. UNCHANGED <<rules, db, now, promised, cyc>> /\ Pardoned' = Pardoned
      BY <1>2 DEF CancelCycle, vars, holder, Pardoned
    <2> QED
      BY <2>1, StatusSame, QuietStep
  <1>3. CASE Tick
    <2>1. UNCHANGED <<rules, db, promised, cyc>> /\ Pardoned' = Pardoned /\ now' = now + 1
      BY <1>3 DEF Tick, holder, Pardoned
    <2>2. Abstract!Pass
      BY <2>1, StatusSame DEF Abstract!Pass, Status, Pardoned
    <2> QED
      BY <2>2 DEF AbstractStep, Abstract!Next
  <1>4. CASE NextCycle \/ Crash(FALSE)
    <2>1. UNCHANGED <<rules, db, now, promised>> /\ cyc' = cyc + 1
      BY <1>4 DEF NextCycle, Crash
    <2>2. Pardoned' \subseteq Pardoned
      BY <1>4 DEF NextCycle, Crash, Unlock, holder, Pardoned
    <2>3. Abstract!Restart
      BY <2>1, <2>2, StatusSame DEF Abstract!Restart, Status, Pardoned
    <2> QED
      BY <2>3 DEF AbstractStep, Abstract!Next
  <1>5. CASE Crash(TRUE)
    <2>1. UNCHANGED <<db, now, promised>> /\ cyc' = cyc + 1 /\ Pardoned' = {}
      BY <1>5 DEF Crash, Unlock, Pardoned
    <2>2. \A ip \in IPs : ~Blocked(ip)'
      BY <1>5 DEF Crash, NoRules, Blocked
    <2>3. \A ip \in IPs : StatusOf(ip)' = CASE StatusOf(ip) = "held" -> "asked"
                                            [] StatusOf(ip) = "stray" -> "free"
                                            [] OTHER -> StatusOf(ip)
      BY <2>1, <2>2 DEF StatusOf
    <2>4. Abstract!Reboot
      BY <2>1, <2>3 DEF Abstract!Reboot, Pardoned
    <2> QED
      BY <2>4 DEF AbstractStep, Abstract!Next
  <1> QED
    BY <1>1, <1>2, <1>3, <1>4, <1>5

LEMMA InitRefines == Init => Abstract!Init
  BY FirewallAssumption DEF Init, Abstract!Init, StatusOf, Blocked, NoRules

(* The invariants the mapping rests on. *)
RefInv == TimeInv /\ ("check" \notin Faults => RuleInv) /\ RequestInv

(* With its crashes, reboots, failing commands and goroutines of earlier       *)
(* cycles, the pool holds, extends and releases every address as Sentences     *)
(* does: for any addresses, chains and failures, for durations that fit an     *)
(* int64, while the local time's offset is constant and there is a chain.      *)
THEOREM PoolRefinesSentences ==
    ASSUME ShiftBy = 0, \A s \in BanSeconds : s < Half, Chains # {}
    PROVE  Spec => ImplementsSentences
  <1>1. Init => RefInv
    BY InitTimeInv, InitRuleInv DEF RefInv, RequestInv, Init
  <1>2. IInv /\ IInv' /\ RefInv /\ [Next]_vars => RefInv'
    BY NextTimeInv, NextRuleInv, RequestStep DEF RefInv
  <1>3. IInv /\ RefInv /\ [Next]_vars => [Abstract!Next]_(Abstract!vars)
    <2> SUFFICES ASSUME IInv, RefInv, [Next]_vars PROVE AbstractStep
      BY DEF AbstractStep
    <2> QED
      BY BanStepRefines, UnbanStepRefines, RestoreStepRefines, OtherStepRefines
         DEF RefInv, Next, HolderStep
  <1> QED
    BY <1>1, <1>2, <1>3, InitRefines, SpecIInv, PTL DEF Spec, ImplementsSentences, Abstract!Spec
=============================================================================
