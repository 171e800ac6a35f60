-------------------------- MODULE CommandController --------------------------
(***************************************************************************)
(* pkg/ebpfmonitors: the user command controller.                          *)
(*                                                                         *)
(* Three parties run side by side.  The KERNEL starts and ends tasks,      *)
(* creates user and mount namespaces and reuses the inode number of one    *)
(* that nothing holds any more.  The SCANNER (startup of Run, then its     *)
(* goroutine) reads /proc task by task and keeps the BPF maps in step one  *)
(* key at a time.  The HOOK (bpf/user_command_controller.bpf.c) runs in    *)
(* every task that executes a command and reads those maps one lookup at   *)
(* a time.                                                                 *)
(***************************************************************************)
EXTENDS CommandPolicy, Functions

CONSTANTS
    Tasks,          \* entries of /proc
    Executors,      \* the tasks whose attempts are followed
    Attempts,       \* what they try: [uid, euid, cmd]
    UserInodes,     \* inode numbers of user namespaces
    MountInodes,    \* inode numbers of mount namespaces (one allocator: disjoint)
    MaxStarts,      \* bound: tasks started and namespaces entered
    MaxFaults       \* bound: failing system calls

Inodes == UserInodes \cup MountInodes
None   == "none"
Gone   == [user |-> None, mnt |-> None]
NoProbe == [task |-> None, inode |-> None, alive |-> FALSE, map |-> <<>>, read |-> FALSE]
NoGate == [root |-> 0, gen |-> 0]
Idle   == [at |-> "idle"]

ASSUME CommandControllerAssumption ==
    /\ UserInodes \cap MountInodes = {}
    /\ UserInodes # {} /\ MountInodes # {} /\ None \notin Inodes
    /\ Executors \subseteq Tasks
    /\ Attempts \subseteq [uid : HostUids, euid : HostUids, cmd : Commands]
    /\ MaxStarts \in Nat /\ MaxFaults \in Nat

VARIABLES
    place,      \* namespaces of each task, or Gone
    uidmap,     \* uid_map of the user namespace that has an inode number now; <<>>: unwritten
    starts, faults,
    graced,     \* history: inode numbers whose present namespace has had its grace period
    gates,      \* BPF maps namespaces and mounts
    users,      \* BPF map users
    gen,        \* commandNamespaceGeneration
    current,    \* current and currentMounts: a namespace with its handle open
    pc,         \* where the scanner is
    job,        \* what it does: "start" up, a periodic "scan", the activation "timer"
    kind,       \* the maps it works on: "user" or "mnt"
    todo,       \* tasks still to visit, or namespaces still to activate
    probe,      \* the task being read, with the namespace handle just opened
    desired,    \* what discovery found so far; handles open
    victim,     \* the namespace whose keys are being written or deleted
    cancelled,  \* the context of Run
    attached,   \* the LSM link
    run,        \* the goroutine of Run: "scan", "read", "return", "done"
    hook,       \* per task: how far the BPF program has got
    conf        \* the configuration

kernelVars == <<place, uidmap, starts, graced>>
mapVars    == <<gates, users, gen>>
scanVars   == <<current, pc, job, kind, todo, probe, desired, victim>>
runVars    == <<cancelled, attached, run>>
vars == <<kernelVars, faults, mapVars, scanVars, runVars, hook, conf>>

InodesOf(k) == IF k = "user" THEN UserInodes ELSE MountInodes
Present     == {t \in Tasks : place[t] # Gone}
Inhabited   == {place[t].user : t \in Present} \cup {place[t].mnt : t \in Present}

(* Inode numbers are interchangeable: where the first tasks are. *)
FirstPlace == [user |-> CHOOSE i \in UserInodes : TRUE, mnt |-> CHOOSE i \in MountInodes : TRUE]

(* The agent starts among tasks that are all in the same namespaces. *)
Init ==
    /\ place = [t \in Tasks |-> FirstPlace]
    /\ uidmap = [i \in UserInodes |-> <<>>]
    /\ starts = 0 /\ faults = 0 /\ graced = {}
    /\ gates = [i \in Inodes |-> NoGate]
    /\ users = {} /\ gen = 0
    /\ current = <<>> /\ desired = <<>>
    /\ pc = "list" /\ job = "start" /\ kind = "user"
    /\ todo = {} /\ probe = NoProbe /\ victim = None
    /\ cancelled = FALSE /\ attached = FALSE /\ run = "scan"
    /\ hook = [t \in Tasks |-> Idle]
    /\ conf \in Policies

-----------------------------------------------------------------------------
(* The kernel. *)

(* A namespace lives as long as a task is in it or a handle on it is open. *)
Pinned ==
    (IF run = "done" THEN {} ELSE DOMAIN current) \cup DOMAIN desired
        \cup (IF probe = NoProbe THEN {} ELSE {probe.inode})

Free == Inodes \ (Inhabited \cup Pinned)

(* Task t comes to be in user namespace u and mount namespace m; a free    *)
(* inode number stands for a new namespace.                                *)
Enter(t, u, m) ==
    /\ run # "done" /\ starts < MaxStarts /\ starts' = starts + 1
    /\ {u, m} \subseteq Inhabited \cup Free
    /\ place' = [place EXCEPT ![t] = [user |-> u, mnt |-> m]]
    /\ uidmap' = [i \in UserInodes |-> IF i \in Free THEN <<>> ELSE uidmap[i]]
    /\ graced' = graced \ Free
    /\ UNCHANGED <<faults, mapVars, scanVars, runVars, hook, conf>>

Start(t) ==
    /\ place[t] = Gone
    /\ \E u \in UserInodes, m \in MountInodes : Enter(t, u, m)

(* unshare: a task goes down into a new user namespace; there is no way up. *)
Unshare(t) ==
    /\ place[t] # Gone /\ hook[t] = Idle
    /\ \E u \in UserInodes \cap Free : Enter(t, u, place[t].mnt)

(* A uid_map is written once. *)
WriteMap(i) ==
    /\ run # "done" /\ i \in UserInodes \cap Inhabited /\ uidmap[i] = <<>>
    /\ \E map \in Maps : uidmap' = [uidmap EXCEPT ![i] = map]
    /\ UNCHANGED <<place, starts, graced, faults, mapVars, scanVars, runVars, hook, conf>>

(* The directory /proc/t that a scan has open is dead from now on. *)
Exit(t) ==
    /\ run # "done" /\ place[t] # Gone /\ hook[t] = Idle
    /\ place' = [place EXCEPT ![t] = Gone]
    /\ probe' = IF probe # NoProbe /\ probe.task = t THEN [probe EXCEPT !.alive = FALSE] ELSE probe
    /\ UNCHANGED <<uidmap, starts, graced, faults, mapVars, current, pc, job, kind, todo,
                   desired, victim, runVars, hook, conf>>

-----------------------------------------------------------------------------
(* discoverCommandContexts *)

Fault == faults < MaxFaults /\ faults' = faults + 1

(* scan returns an error.  At startup Run returns it; later the goroutine  *)
(* cancels the context and goes back to its select.  The deferred          *)
(* closeNamespaces(desired) runs either way.                               *)
ScanFails ==
    /\ desired' = <<>> /\ todo' = {} /\ probe' = NoProbe /\ victim' = None
    /\ pc' = IF job = "start" THEN "ended" ELSE "select"
    /\ run' = IF job = "start" THEN "return" ELSE run
    /\ cancelled' = TRUE

List ==
    /\ pc = "list" /\ ~cancelled
    /\ todo' = Present /\ pc' = "visit"
    /\ UNCHANGED <<kernelVars, faults, mapVars, current, job, kind, probe, desired, victim,
                   runVars, hook, conf>>

ListFails ==
    /\ pc = "list" /\ Fault /\ ScanFails
    /\ UNCHANGED <<kernelVars, mapVars, current, job, kind, attached, hook, conf>>

(* ctx.Err() is looked at before every entry; there always is a first one. *)
VisitCancelled ==
    /\ cancelled /\ ScanFails
    /\ pc = "list" \/ (pc = "visit" /\ probe = NoProbe /\ todo # {})
    /\ UNCHANGED <<kernelVars, faults, mapVars, current, job, kind, attached, hook, conf>>

Found(i, map) ==
    desired' = [j \in DOMAIN desired \cup {i} |-> IF j = i THEN map ELSE desired[j]]

(* Open /proc/t and its namespace handle.  A task that is gone and a       *)
(* namespace found before are skipped; a mount namespace needs no more.    *)
VisitOpen(t) ==
    /\ pc = "visit" /\ probe = NoProbe /\ t \in todo /\ ~cancelled
    /\ todo' = todo \ {t}
    /\ IF place[t] = Gone THEN UNCHANGED <<probe, desired>>
       ELSE IF kind = "mnt"
       THEN /\ Found(place[t].mnt, <<>>)
            /\ UNCHANGED probe
       ELSE /\ probe' = IF place[t].user \in DOMAIN desired THEN NoProbe
                        ELSE [task |-> t, inode |-> place[t].user, alive |-> TRUE,
                              map |-> <<>>, read |-> FALSE]
            /\ UNCHANGED desired
    /\ UNCHANGED <<kernelVars, faults, mapVars, current, pc, job, kind, victim, runVars,
                   hook, conf>>

(* A transient error on one task: it is skipped in this scan. *)
VisitFails(t) ==
    /\ pc = "visit" /\ probe = NoProbe /\ t \in todo /\ ~cancelled /\ Fault
    /\ todo' = todo \ {t}
    /\ UNCHANGED <<kernelVars, mapVars, current, pc, job, kind, probe, desired, victim,
                   runVars, hook, conf>>

(* uid_map is read through the open directory: the mapping of the          *)
(* namespace the task is in NOW; an error if the task is dead.             *)
VisitRead ==
    /\ pc = "visit" /\ probe # NoProbe /\ ~probe.read
    /\ probe' = IF probe.alive
                THEN [probe EXCEPT !.map = uidmap[place[probe.task].user], !.read = TRUE]
                ELSE NoProbe
    /\ UNCHANGED <<kernelVars, faults, mapVars, current, pc, job, kind, todo, desired, victim,
                   runVars, hook, conf>>

(* Seeded fault: the namespace is not compared again after the mapping was *)
(* read.                                                                   *)
ProbeAlive == probe.alive

(* os.SameFile(st, after) *)
ProbeSame == probe.alive /\ place[probe.task].user = probe.inode

VisitCheck ==
    /\ pc = "visit" /\ probe # NoProbe /\ probe.read
    /\ IF ProbeSame /\ probe.map # <<>> /\ ~RulesFail(probe.map, conf.uids)
       THEN Found(probe.inode, probe.map)
       ELSE UNCHANGED desired
    /\ probe' = NoProbe
    /\ UNCHANGED <<kernelVars, faults, mapVars, current, pc, job, kind, todo, victim, runVars,
                   hook, conf>>

Discovered == pc = "visit" /\ probe = NoProbe /\ todo = {}

-----------------------------------------------------------------------------
(* syncCommandNamespaces and activateCommandNamespaces *)

KnownOf(k) == DOMAIN current \cap InodesOf(k)
Rules(i)   == {<<i, uid>> : uid \in RuleUsers(current[i].map, conf.uids)}
Leaving    == KnownOf(kind) \ DOMAIN desired

(* Seeded fault: mount namespaces are never enabled. *)
RipeUserOnly(k) == {i \in KnownOf("user") : k = "user" /\ current[i].ripe /\ ~current[i].active}

Ripe(k) == {i \in KnownOf(k) : current[i].ripe /\ ~current[i].active}

(* The handle is closed and the namespace forgotten. *)
Forget(i) ==
    /\ current' = Restrict(current, DOMAIN current \ {i})
    /\ victim' = None

(* A namespace that never was enabled has nothing in the kernel. *)
DropPending(i) ==
    /\ Discovered /\ victim = None /\ i \in Leaving /\ ~current[i].active
    /\ Forget(i)
    /\ UNCHANGED <<kernelVars, faults, mapVars, pc, job, kind, todo, probe, desired, runVars,
                   hook, conf>>

(* The gate goes first, ... *)
DropGate(i) ==
    /\ Discovered /\ victim = None /\ i \in Leaving /\ current[i].active
    /\ gates' = [gates EXCEPT ![i] = NoGate]
    /\ victim' = i
    /\ UNCHANGED <<kernelVars, faults, users, gen, current, pc, job, kind, todo, probe, desired,
                   runVars, hook, conf>>

(* ... then its users one by one, ... *)
DropUser ==
    /\ Discovered /\ victim # None
    /\ \E key \in Rules(victim) \cap users : users' = users \ {key}
    /\ UNCHANGED <<kernelVars, faults, gates, gen, scanVars, runVars, hook, conf>>

(* Seeded fault: the handle is closed and the user keys stay behind. *)
DropLastEarly ==
    /\ Discovered /\ victim # None
    /\ Forget(victim)
    /\ UNCHANGED <<kernelVars, faults, mapVars, pc, job, kind, todo, probe, desired, runVars,
                   hook, conf>>

(* ... then the handle. *)
DropLast ==
    /\ Discovered /\ victim # None /\ Rules(victim) \cap users = {}
    /\ Forget(victim)
    /\ UNCHANGED <<kernelVars, faults, mapVars, pc, job, kind, todo, probe, desired, runVars,
                   hook, conf>>

DropFails ==
    /\ Discovered /\ Fault /\ ScanFails
    /\ \E i \in Leaving : current[i].active
    /\ UNCHANGED <<kernelVars, mapVars, current, job, kind, attached, hook, conf>>

(* What is new waits for its grace period; the handles of what was known   *)
(* stay with desired until scan returns.  Then everything ripe is enabled. *)
Adopt ==
    /\ Discovered /\ Leaving = {}
    /\ LET new == DOMAIN desired \ DOMAIN current
       IN  /\ current' = [i \in DOMAIN current \cup new |->
                            IF i \in new
                            THEN [map |-> desired[i], ripe |-> FALSE, active |-> FALSE]
                            ELSE current[i]]
           /\ desired' = Restrict(desired, DOMAIN desired \ new)
    /\ todo' = Ripe(kind)
    /\ pc' = "activate"
    /\ UNCHANGED <<kernelVars, faults, mapVars, job, kind, probe, victim, runVars, hook, conf>>

(* time.Now() reaches readyAt: 150 seconds after the namespace was found. *)
GraceEnds(i) ==
    /\ i \in DOMAIN current /\ ~current[i].ripe /\ run # "done"
    /\ current' = [current EXCEPT ![i].ripe = TRUE]
    /\ graced' = graced \cup {i}
    /\ UNCHANGED <<place, uidmap, starts, faults, mapVars, pc, job, kind, todo, probe, desired,
                   victim, runVars, hook, conf>>

(* The users of a namespace are written first, ... *)
AddUser(i) ==
    /\ pc = "activate" /\ i \in todo /\ victim \in {None, i}
    /\ \E key \in Rules(i) \ users : users' = users \cup {key}
    /\ victim' = i
    /\ UNCHANGED <<kernelVars, faults, gates, gen, current, pc, job, kind, todo, probe, desired,
                   runVars, hook, conf>>

(* ... then its gate, under a generation of its own. *)
OpenGate(i) ==
    /\ pc = "activate" /\ i \in todo /\ victim \in {None, i} /\ Rules(i) \subseteq users
    /\ gen' = gen + 1
    /\ gates' = [gates EXCEPT ![i] =
                   [root |-> IF kind = "user" THEN RuleRoot(current[i].map) ELSE 0, gen |-> gen']]
    /\ current' = [current EXCEPT ![i].active = TRUE]
    /\ todo' = todo \ {i} /\ victim' = None
    /\ UNCHANGED <<kernelVars, faults, users, pc, job, kind, probe, desired, runVars, hook, conf>>

(* A failed map update ends a scan; the timer goes on with the mounts.     *)
ActivateFails ==
    /\ pc = "activate" /\ todo # {} /\ Fault
    /\ IF job = "timer"
       THEN /\ cancelled' = TRUE /\ todo' = {} /\ victim' = None
            /\ UNCHANGED <<desired, probe, pc, run>>
       ELSE ScanFails
    /\ UNCHANGED <<kernelVars, mapVars, current, job, kind, attached, hook, conf>>

(* After the user namespaces come the mounts; then the work is done and    *)
(* the handles of the scan are closed.                                     *)
ActivateDone ==
    /\ pc = "activate" /\ todo = {}
    /\ IF kind = "user"
       THEN /\ kind' = "mnt"
            /\ pc' = IF job = "timer" THEN "activate" ELSE "list"
            /\ todo' = IF job = "timer" THEN Ripe("mnt") ELSE {}
            /\ UNCHANGED desired
       ELSE /\ pc' = IF job = "start" THEN "attach" ELSE "select"
            /\ kind' = "user"
            /\ desired' = <<>>
            /\ UNCHANGED todo
    /\ job' = IF pc' = "select" THEN "scan" ELSE job
    /\ UNCHANGED <<kernelVars, faults, mapVars, current, probe, victim, runVars, hook, conf>>

-----------------------------------------------------------------------------
(* Run: attach, the select loop of the goroutine, and the reader. *)

(* Settings, ring buffer reader and link; the goroutine starts. *)
Attach ==
    /\ pc = "attach"
    /\ attached' = TRUE /\ run' = "read"
    /\ pc' = "select" /\ job' = "scan"
    /\ UNCHANGED <<kernelVars, faults, mapVars, current, kind, todo, probe, desired, victim,
                   cancelled, hook, conf>>

AttachFails ==
    /\ pc = "attach" /\ Fault
    /\ run' = "return" /\ cancelled' = TRUE /\ pc' = "ended"
    /\ UNCHANGED <<kernelVars, mapVars, current, job, kind, todo, probe, desired, victim,
                   attached, hook, conf>>

Tick ==
    /\ pc = "select"
    /\ job' = "scan" /\ kind' = "user" /\ pc' = "list"
    /\ UNCHANGED <<kernelVars, faults, mapVars, current, todo, probe, desired, victim, runVars,
                   hook, conf>>

(* The timer is set to the earliest readyAt of all that is not enabled. *)
Timer ==
    /\ pc = "select" /\ Ripe("user") \cup Ripe("mnt") # {}
    /\ job' = "timer" /\ kind' = "user" /\ pc' = "activate" /\ todo' = Ripe("user")
    /\ UNCHANGED <<kernelVars, faults, mapVars, current, probe, desired, victim, runVars,
                   hook, conf>>

SelectDone ==
    /\ pc = "select" /\ cancelled
    /\ attached' = FALSE /\ pc' = "ended"
    /\ UNCHANGED <<kernelVars, faults, mapVars, current, job, kind, todo, probe, desired, victim,
                   cancelled, run, hook, conf>>

(* The configuration is reloaded or the agent stops. *)
Cancel ==
    /\ ~cancelled /\ cancelled' = TRUE
    /\ UNCHANGED <<kernelVars, faults, mapVars, scanVars, attached, run, hook, conf>>

(* Seeded fault: Run waits for its goroutine without cancelling the        *)
(* context.                                                                *)
ReadEndsUncancelled ==
    /\ run = "read"
    /\ IF pc = "ended" THEN UNCHANGED faults ELSE Fault
    /\ run' = "return"
    /\ UNCHANGED <<kernelVars, mapVars, scanVars, cancelled, attached, hook, conf>>

(* reader.Read fails, or the goroutine has closed the reader: Run returns, *)
(* which cancels the context ...                                           *)
ReadEnds ==
    /\ run = "read"
    /\ IF pc = "ended" THEN UNCHANGED faults ELSE Fault
    /\ run' = "return" /\ cancelled' = TRUE
    /\ UNCHANGED <<kernelVars, mapVars, scanVars, attached, hook, conf>>

(* ... waits for the goroutine, and closes what is open. *)
Return ==
    /\ run = "return" /\ pc = "ended"
    /\ run' = "done" /\ attached' = FALSE
    /\ UNCHANGED <<kernelVars, faults, mapVars, scanVars, cancelled, hook, conf>>

-----------------------------------------------------------------------------
(* bprm_check_security: one step per lookup.  prior_ret, an unreadable     *)
(* file name and an unset configuration only ever let the hook return.     *)

HookStep(t, state) ==
    /\ hook' = [hook EXCEPT ![t] = state]
    /\ UNCHANGED <<kernelVars, faults, mapVars, scanVars, runVars, conf>>

(* The namespace gate of the task; an unknown namespace and root are let   *)
(* through.                                                                *)
HookEnter(t) ==
    /\ attached /\ place[t] # Gone /\ hook[t] = Idle
    /\ \E a \in Attempts :
         LET gate == gates[place[t].user] IN
         /\ 0 \notin {a.uid, a.euid}
         /\ gate # NoGate /\ gate.root \notin {a.uid, a.euid}
         /\ HookStep(t, [at |-> "mount", uid |-> a.uid, euid |-> a.euid, cmd |-> a.cmd,
                         gen |-> gate.gen, mgen |-> 0])

HookMount(t) ==
    /\ hook[t].at = "mount"
    /\ LET gate == gates[place[t].mnt] IN
       HookStep(t, IF gate = NoGate THEN Idle
                   ELSE [hook[t] EXCEPT !.at = "rules", !.mgen = gate.gen])

(* Users and commands; a name that does not fit matches no command. *)
HookSelects(t) ==
    WouldBlock(conf.block,
        Selected(conf.uids # {}, conf.commands,
                 <<place[t].user, hook[t].uid>> \in users, hook[t].cmd = "listed"))

HookRules(t) ==
    /\ hook[t].at = "rules"
    /\ HookStep(t, IF HookSelects(t) THEN [hook[t] EXCEPT !.at = "again"] ELSE Idle)

(* NoGate has generation 0, which none that is published has. *)
GateUnchanged(gate, generation) == gate.gen = generation

(* The gates are looked up again: what was read in between counts only if  *)
(* neither was withdrawn or published anew.                                *)
HookAgain(t) ==
    /\ hook[t].at = "again"
    /\ HookStep(t, IF GateUnchanged(gates[place[t].user], hook[t].gen)
                   THEN [hook[t] EXCEPT !.at = "mountagain"] ELSE Idle)

HookMountAgain(t) ==
    /\ hook[t].at = "mountagain"
    /\ HookStep(t, IF GateUnchanged(gates[place[t].mnt], hook[t].mgen)
                   THEN [hook[t] EXCEPT !.at = "hit"] ELSE Idle)

(* The attempt is reported if the ring buffer has room, and in mode        *)
(* blocker answered with -EPERM.                                           *)
HookHit(t) == hook[t].at = "hit" /\ HookStep(t, Idle)

-----------------------------------------------------------------------------
Kernel ==
    \/ \E t \in Tasks : Start(t) \/ Unshare(t) \/ Exit(t)
    \/ \E i \in UserInodes : WriteMap(i)

Scanner ==
    \/ List \/ VisitRead \/ VisitCheck \/ VisitCancelled
    \/ \E t \in Tasks : VisitOpen(t)
    \/ \E i \in Inodes : DropPending(i) \/ DropGate(i) \/ AddUser(i) \/ OpenGate(i)
    \/ DropUser \/ DropLast \/ Adopt \/ ActivateDone \/ Attach

ScannerFails ==
    \/ ListFails \/ DropFails \/ ActivateFails \/ AttachFails
    \/ \E t \in Tasks : VisitFails(t)

Reader == ReadEnds \/ Return

Hook(t) ==
    \/ HookMount(t) \/ HookRules(t) \/ HookAgain(t)
    \/ HookMountAgain(t) \/ HookHit(t)

Next ==
    \/ Kernel \/ Scanner \/ ScannerFails \/ Reader \/ Cancel
    \/ Tick \/ Timer \/ SelectDone
    \/ \E i \in Inodes : GraceEnds(i)
    \/ \E t \in Executors : HookEnter(t) \/ Hook(t)

(***************************************************************************)
(* The scanner's own steps, the clock behind ticker, timer and grace       *)
(* period, the reader and a BPF program that has begun all go on.  A       *)
(* select picks among ready cases at random: a case that is ready again    *)
(* and again is taken.  Nothing makes a task start, exec or exit.          *)
(***************************************************************************)
Fairness ==
    /\ WF_vars(Scanner) /\ WF_vars(Tick) /\ SF_vars(Timer) /\ SF_vars(SelectDone)
    /\ WF_vars(Return) /\ WF_vars(ReadEnds /\ pc = "ended")
    /\ \A i \in Inodes : WF_vars(GraceEnds(i))
    /\ \A t \in Executors : WF_vars(Hook(t))

Spec == Init /\ [][Next]_vars /\ Fairness

-----------------------------------------------------------------------------
TypeOK ==
    /\ place \in [Tasks -> [user : UserInodes, mnt : MountInodes] \cup {Gone}]
    /\ uidmap \in [UserInodes -> Maps \cup {<<>>}]
    /\ starts \in 0 .. MaxStarts /\ faults \in 0 .. MaxFaults /\ graced \subseteq Inodes
    /\ gates \in [Inodes -> [root : 0 .. MaxUid, gen : 0 .. gen]]
    /\ users \subseteq UserInodes \X (0 .. MaxUid)
    /\ gen \in Nat
    /\ DOMAIN current \subseteq Inodes /\ DOMAIN desired \subseteq Inodes
    /\ \A i \in DOMAIN current :
         current[i] \in [map : Maps \cup {<<>>}, ripe : BOOLEAN, active : BOOLEAN]
    /\ \A i \in DOMAIN desired : desired[i] \in Maps \cup {<<>>}
    /\ pc \in {"list", "visit", "activate", "attach", "select", "ended"}
    /\ job \in {"start", "scan", "timer"} /\ kind \in {"user", "mnt"}
    /\ todo \subseteq Tasks \cup Inodes /\ victim \in Inodes \cup {None}
    /\ cancelled \in BOOLEAN /\ attached \in BOOLEAN
    /\ run \in {"scan", "read", "return", "done"}
    /\ \A t \in Tasks : hook[t] = Idle \/ hook[t].at \in
         {"mount", "rules", "again", "mountagain", "hit"}

(* README "Root is always excluded and never reported", "User IDs refer to *)
(* the process user namespace", "Enforcement starts only when both         *)
(* namespaces are ready": whatever the scanner did meanwhile, an attempt   *)
(* that the hook logs or denies is not root's, is selected by the policy   *)
(* under the mapping of the task's own user namespace, and was made in two *)
(* namespaces that each had its grace period.                              *)
HitsFollowPolicy ==
    \A t \in Tasks : hook[t].at = "hit" =>
        LET map == uidmap[place[t].user] IN
        /\ ~IsRoot(hook[t].uid, map) /\ ~IsRoot(hook[t].euid, map)
        /\ PolicySelects(conf, hook[t].uid, map, hook[t].cmd)
        /\ {place[t].user, place[t].mnt} \subseteq graced

(* Between two scans the kernel maps hold exactly the namespaces the       *)
(* scanner has enabled: no gate and no user key of a namespace it no       *)
(* longer holds a handle on, or does not yet enforce, is left behind.      *)
MapsInStep ==
    pc = "select" /\ ~cancelled =>
        /\ \A i \in Inodes : (gates[i] # NoGate) = (i \in DOMAIN current /\ current[i].active)
        /\ users = UNION {Rules(i) : i \in {j \in DOMAIN current : current[j].active}}

StaysIn(t, u, m) ==
    place[t] = [user |-> u, mnt |-> m] /\ uidmap[u] # <<>>

Enforced(u, m) ==
    /\ gates[u] # NoGate /\ gates[m] # NoGate
    /\ gates[u].root = RuleRoot(uidmap[u])
    /\ {<<u, uid>> : uid \in RuleUsers(uidmap[u], conf.uids)} \subseteq users

(* A task that stays in its namespaces, with a written mapping, comes      *)
(* under the policy of that mapping and stays under it, unless the         *)
(* controller is cancelled: a scan before the mapping was written, scans   *)
(* that miss the task, namespaces withdrawn and found again, and timers    *)
(* that fire in between do not put enforcement off for ever.               *)
GuardedEventually ==
    \A t \in Tasks, u \in UserInodes, m \in MountInodes :
        <>[](StaysIn(t, u, m) /\ ~cancelled) => <>[]Enforced(u, m)

(* Cancelled by a reload, by the end of the agent or by an error of the    *)
(* scanner or the reader, the controller detaches its program and Run      *)
(* returns, whatever its goroutine was doing: the monitor hub waits for    *)
(* it before a new configuration comes into force.                         *)
ControllerEnds == (cancelled \/ run = "return") ~> (run = "done" /\ ~attached)
=============================================================================
