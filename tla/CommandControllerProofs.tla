----------------------- MODULE CommandControllerProofs -----------------------
(***************************************************************************)
(* Proofs about CommandController for every set of tasks, namespaces,      *)
(* mappings, policies and bounds.                                          *)
(***************************************************************************)
EXTENDS CommandController, SequenceTheorems, TLAPS

(***************************************************************************)
(* The translation of user IDs.  At most one line of a mapping holds an    *)
(* ID, so the first line that does is the one the kernel uses.             *)
(***************************************************************************)
LEMMA MapLines ==
    ASSUME NEW map \in Maps, NEW k \in DOMAIN map
    PROVE  /\ k \in Nat
           /\ map[k].inside \in Nat /\ map[k].outside \in Nat /\ map[k].count \in Nat \ {0}
  <1>1. map \in Seq([inside : Nat, outside : Nat, count : Nat \ {0}])
    BY CommandPolicyAssumption
  <1>2. Len(map) \in Nat /\ DOMAIN map = 1 .. Len(map)
    BY <1>1, LenProperties
  <1>3. map[k] \in [inside : Nat, outside : Nat, count : Nat \ {0}]
    BY <1>1, <1>2, ElementOfSeq
  <1> QED
    BY <1>2, <1>3

LEMMA CoveringOne ==
    ASSUME NEW map \in Maps, NEW uid \in Nat, NEW k \in Covering(uid, map)
    PROVE  Covering(uid, map) = {k}
  <1> SUFFICES ASSUME NEW j \in Covering(uid, map), j # k PROVE FALSE
    OBVIOUS
  <1>1. j \in DOMAIN map /\ k \in DOMAIN map
    BY DEF Covering
  <1>2. /\ uid >= map[j].inside /\ uid - map[j].inside < map[j].count
        /\ uid >= map[k].inside /\ uid - map[k].inside < map[k].count
    BY DEF Covering
  <1>3. /\ map[j].inside \in Nat /\ map[j].count \in Nat
        /\ map[k].inside \in Nat /\ map[k].count \in Nat
    BY <1>1, MapLines
  <1>4. \/ map[j].inside + map[j].count <= map[k].inside
        \/ map[k].inside + map[k].count <= map[j].inside
    BY <1>1, LinesDoNotOverlap
  <1> QED
    BY <1>2, <1>3, <1>4

LEMMA HostUIDOf ==
    ASSUME NEW map \in Maps, NEW uid \in Nat, NEW k \in Covering(uid, map)
    PROVE  LET mapped == map[k].outside + (uid - map[k].inside)
           IN  /\ mapped \in Nat
               /\ HostUID(uid, map) = IF mapped > MaxUid THEN Overflow ELSE mapped
  <1>1. Covering(uid, map) = {k} /\ k \in DOMAIN map /\ uid >= map[k].inside
    BY CoveringOne DEF Covering
  <1>2. k \in Nat /\ map[k].inside \in Nat /\ map[k].outside \in Nat
    BY <1>1, MapLines
  <1>3. (CHOOSE i \in Covering(uid, map) : \A j \in Covering(uid, map) : i <= j) = k
    BY <1>1, <1>2
  <1>4. map[k].outside + (uid - map[k].inside) \in Nat
    BY <1>1, <1>2
  <1>5. Covering(uid, map) # {}
    OBVIOUS
  <1>6. HostUID(uid, map) =
          LET i == CHOOSE i \in Covering(uid, map) : \A j \in Covering(uid, map) : i <= j
              mapped == map[i].outside + (uid - map[i].inside)
          IN  IF mapped > MaxUid THEN Overflow ELSE mapped
    BY <1>5, Zenon DEF HostUID
  <1> QED
    BY <1>3, <1>4, <1>6, Zenon

LEMMA HostUIDType ==
    ASSUME NEW map \in Maps \cup {<<>>}, NEW uid \in Nat
    PROVE  /\ HostUID(uid, map) \in (0 .. MaxUid) \cup {Unmapped, Overflow}
           /\ map = <<>> => HostUID(uid, map) = Unmapped
  <1>1. CASE Covering(uid, map) = {}
    BY <1>1 DEF HostUID
  <1>2. ASSUME NEW k \in Covering(uid, map)
        PROVE  map # <<>> /\ HostUID(uid, map) \in (0 .. MaxUid) \cup {Unmapped, Overflow}
    <2>1. map # <<>>
      BY <1>2 DEF Covering
    <2>2. MaxUid \in Nat
      BY CommandPolicyAssumption
    <2> QED
      BY <1>2, <2>1, <2>2, HostUIDOf
  <1> QED
    BY <1>1, <1>2

LEMMA Translates ==
    ASSUME NEW map \in Maps, NEW uid \in Nat, NEW host \in 0 .. MaxUid
    PROVE  HostUID(uid, map) = host <=> KernelMaps(uid, host, map)
  <1>0. MaxUid \in Nat /\ host \in Nat /\ Unmapped # host /\ Overflow # host
    BY CommandPolicyAssumption DEF Unmapped, Overflow
  <1>1. \A k \in DOMAIN map : k \in Covering(uid, map) <=>
            uid \in map[k].inside .. map[k].inside + map[k].count - 1
    <2> SUFFICES ASSUME NEW k \in DOMAIN map
                 PROVE  k \in Covering(uid, map) <=>
                          uid \in map[k].inside .. map[k].inside + map[k].count - 1
      OBVIOUS
    <2>1. map[k].inside \in Nat /\ map[k].count \in Nat
      BY MapLines
    <2> QED
      BY <2>1 DEF Covering
  <1>2. CASE Covering(uid, map) = {}
    BY <1>0, <1>1, <1>2 DEF HostUID, KernelMaps
  <1>3. ASSUME NEW k \in Covering(uid, map)
        PROVE  HostUID(uid, map) = host <=> KernelMaps(uid, host, map)
    <2>1. Covering(uid, map) = {k} /\ k \in DOMAIN map
      BY CoveringOne DEF Covering
    <2>2. KernelMaps(uid, host, map) <=> host = map[k].outside + (uid - map[k].inside)
      BY <1>1, <2>1 DEF KernelMaps
    <2> QED
      BY <1>0, <2>2, HostUIDOf
  <1> QED
    BY <1>2, <1>3

(* The users written to the map are numbers; root's is one that no task has *)
(* when it is not mapped.                                                   *)
LEMMA RulesType ==
    ASSUME NEW map \in Maps \cup {<<>>}, NEW uids \in SUBSET Nat, ~RulesFail(map, uids)
    PROVE  RuleUsers(map, uids) \subseteq 0 .. MaxUid /\ RuleRoot(map) \in 0 .. MaxUid
  <1>1. \A uid \in uids \cup {0} : HostUID(uid, map) \in (0 .. MaxUid) \cup {Unmapped}
    BY HostUIDType DEF RulesFail
  <1>2. MaxUid \in 0 .. MaxUid
    BY CommandPolicyAssumption
  <1> QED
    BY <1>1, <1>2 DEF RuleUsers, RuleRoot

(* A host UID that is neither 0 nor the translation of root is not root. *)
LEMMA RootIsExcluded ==
    ASSUME NEW map \in Maps, NEW host \in HostUids, host # 0, host # RuleRoot(map)
    PROVE  ~IsRoot(host, map)
  <1>1. host \in 0 .. MaxUid /\ host # MaxUid /\ host # Unmapped
    BY CommandPolicyAssumption DEF Unmapped
  <1>2. HostUID(0, map) # host
    BY <1>1 DEF RuleRoot
  <1> QED
    BY <1>1, <1>2, Translates DEF IsRoot

(* For every policy, mapping, host UID and command, the decision that the  *)
(* BPF program takes over the IDs that commandNamespaceRules translated is *)
(* the one that the policy means in the task's own user namespace.         *)
THEOREM DecisionIsMeant ==
    ASSUME NEW map \in Maps, NEW policy \in Policies, NEW host \in HostUids, NEW cmd
    PROVE  WouldBlock(policy.block,
               Selected(policy.uids # {}, policy.commands,
                        host \in RuleUsers(map, policy.uids), cmd = "listed"))
             <=> PolicySelects(policy, host, map, cmd)
  <1>1. /\ policy.block \in {"positive", "negative"} /\ policy.uids \subseteq Nat
        /\ policy.commands \in BOOLEAN
    BY CommandPolicyAssumption
  <1>2. host \in 0 .. MaxUid /\ host # Unmapped
    BY CommandPolicyAssumption DEF Unmapped
  <1>3. host \in RuleUsers(map, policy.uids) <=> \E uid \in policy.uids : KernelMaps(uid, host, map)
    BY <1>1, <1>2, Translates DEF RuleUsers
  <1> DEFINE listed == cmd = "listed"
             match == host \in RuleUsers(map, policy.uids)
  <1>4. Matches(policy, host, map, cmd)
            <=> Selected(policy.uids # {}, policy.commands, match, listed)
    BY <1>1, <1>3 DEF Matches, Selected
  <1>5. Matches(policy, host, map, cmd) \in BOOLEAN
    BY DEF Matches
  <1> QED
    BY <1>1, <1>4, <1>5 DEF WouldBlock, PolicySelects

-----------------------------------------------------------------------------
(* The variables whose type TypeOK does not give in full. *)
HookStates == [at : {"mount", "rules", "again", "mountagain", "hit"},
               uid : HostUids, euid : HostUids, cmd : Commands, gen : Nat, mgen : Nat]

Probes == [task : Tasks, inode : UserInodes, alive : BOOLEAN, map : Maps \cup {<<>>},
           read : BOOLEAN]

Typed ==
    /\ TypeOK
    /\ hook \in [Tasks -> HookStates \cup {Idle}]
    /\ probe \in Probes \cup {NoProbe}
    /\ conf \in Policies

(***************************************************************************)
(* What the scanner has in hand at each of its program points: the         *)
(* namespace being withdrawn is one that discovery did not find, the       *)
(* namespaces to be enabled are known, ripe and not enabled.               *)
(***************************************************************************)
ScanInv ==
    /\ probe # NoProbe => pc = "visit" /\ kind = "user"
    /\ pc = "visit" => todo \subseteq Tasks
    /\ pc = "activate" => \A i \in todo : i \in Ripe(kind)
    /\ victim # None =>
        \/ pc = "activate" /\ victim \in todo
        \/ Discovered /\ victim \in Leaving /\ current[victim].active /\ gates[victim] = NoGate

(***************************************************************************)
(* A handle keeps the inode number from being reused, so what was read     *)
(* behind it is still the mapping of the namespace that has this number.   *)
(* The mapping was read through the task, which cannot come back to a      *)
(* namespace it has left: if it is there at the comparison, it was there   *)
(* at the read.                                                            *)
(***************************************************************************)
GoodMap(i, map) ==
    IF i \in UserInodes THEN map = uidmap[i] /\ map # <<>> /\ ~RulesFail(map, conf.uids)
    ELSE map = <<>>

DesiredInv == \A i \in DOMAIN desired : GoodMap(i, desired[i])

CurrentInv ==
    \A i \in DOMAIN current :
        /\ GoodMap(i, current[i].map)
        /\ current[i].ripe => i \in graced
        /\ current[i].active => current[i].ripe

ProbeInv ==
    (probe # NoProbe /\ probe.alive) =>
        /\ place[probe.task] # Gone
        /\ (probe.read /\ probe.map # <<>> /\ place[probe.task].user = probe.inode) =>
                probe.map = uidmap[probe.inode]

HandleInv == DesiredInv /\ CurrentInv /\ ProbeInv

(***************************************************************************)
(* The maps of the BPF program.  An open gate stands for a namespace with  *)
(* its handle open and all its user keys written; a key stands for a rule  *)
(* of a namespace with its handle open.  Half-done work is the victim's,   *)
(* or was left by a scanner that failed and scans no more.                 *)
(***************************************************************************)
Halted == cancelled /\ pc # "visit"

OpenGateInv ==
    \A i \in Inodes : gates[i] # NoGate =>
        /\ i \in DOMAIN current /\ current[i].active
        /\ Rules(i) \subseteq users
        /\ gates[i].gen > 0
        /\ i \in UserInodes => gates[i].root = RuleRoot(current[i].map)

KeyInv ==
    \A key \in users :
        /\ key[1] \in DOMAIN current
        /\ key \in Rules(key[1])
        /\ current[key[1]].active \/ (pc = "activate" /\ victim = key[1]) \/ Halted

ActiveInv ==
    \A i \in DOMAIN current : (current[i].active /\ gates[i] = NoGate) =>
        (pc = "visit" /\ victim = i) \/ Halted

MapInv == OpenGateInv /\ KeyInv /\ ActiveInv

(***************************************************************************)
(* The hook.  A task that runs it stays in its namespaces.  Root was ruled *)
(* out under an open gate; what the users map said counts only if the      *)
(* generation is still the one that was read before it.                    *)
(***************************************************************************)
HookGood(t) ==
    LET u == place[t].user  m == place[t].mnt  h == hook[t]  map == uidmap[place[t].user] IN
    /\ place[t] # Gone
    /\ map # <<>> /\ u \in graced
    /\ ~IsRoot(h.uid, map) /\ ~IsRoot(h.euid, map)
    /\ h.gen \in 1 .. gen
    /\ h.at # "mount" => h.mgen \in 1 .. gen
    /\ (h.at = "again" /\ gates[u].gen = h.gen) => PolicySelects(conf, h.uid, map, h.cmd)
    /\ h.at \in {"mountagain", "hit"} => PolicySelects(conf, h.uid, map, h.cmd)
    /\ h.at = "hit" => m \in graced

HookInv == \A t \in Tasks : hook[t] # Idle => HookGood(t)

IInv == Typed /\ ScanInv /\ HandleInv /\ MapInv /\ HookInv

-----------------------------------------------------------------------------
(* What the helpers of the scanner do to its tables. *)

LEMMA FoundEffect ==
    ASSUME NEW i, NEW map, Found(i, map)
    PROVE  /\ DOMAIN desired' = DOMAIN desired \cup {i}
           /\ desired'[i] = map
           /\ \A j \in DOMAIN desired : j # i => desired'[j] = desired[j]
  BY DEF Found

LEMMA ForgetEffect ==
    ASSUME NEW i, Forget(i)
    PROVE  /\ DOMAIN current' = DOMAIN current \ {i}
           /\ \A j \in DOMAIN current' : current'[j] = current[j]
           /\ victim' = None
  BY DEF Forget, Restrict

LEMMA AdoptEffect ==
    ASSUME Adopt
    PROVE  /\ DOMAIN current' = DOMAIN current \cup DOMAIN desired
           /\ \A j \in DOMAIN current : current'[j] = current[j]
           /\ \A j \in DOMAIN desired \ DOMAIN current :
                current'[j] = [map |-> desired[j], ripe |-> FALSE, active |-> FALSE]
           /\ DOMAIN desired' \subseteq DOMAIN desired
           /\ \A j \in DOMAIN desired' : desired'[j] = desired[j]
  <1> DEFINE new == DOMAIN desired \ DOMAIN current
  <1>1. current' = [i \in DOMAIN current \cup new |->
                      IF i \in new THEN [map |-> desired[i], ripe |-> FALSE, active |-> FALSE]
                      ELSE current[i]]
    BY DEF Adopt
  <1>2. desired' = [i \in DOMAIN desired \ new |-> desired[i]]
    BY DEF Adopt, Restrict
  <1> QED
    BY <1>1, <1>2

(* A find is well typed. *)
LEMMA FoundTyped ==
    ASSUME Typed, NEW i \in Inodes, NEW map \in Maps \cup {<<>>}, Found(i, map)
    PROVE  /\ DOMAIN desired' \subseteq Inodes
           /\ \A j \in DOMAIN desired' : desired'[j] \in Maps \cup {<<>>}
  <1>1. /\ DOMAIN desired' = DOMAIN desired \cup {i}
        /\ desired'[i] = map
        /\ \A j \in DOMAIN desired : j # i => desired'[j] = desired[j]
    BY FoundEffect
  <1>2. /\ DOMAIN desired \subseteq Inodes
        /\ \A j \in DOMAIN desired : desired[j] \in Maps \cup {<<>>}
    BY DEF Typed, TypeOK
  <1> QED
    BY <1>1, <1>2

(* The keys of a namespace whose mapping is good. *)
LEMMA RulesIn ==
    ASSUME Typed, HandleInv, NEW i \in DOMAIN current
    PROVE  /\ Rules(i) \subseteq UserInodes \X (0 .. MaxUid)
           /\ i \in MountInodes => Rules(i) = {}
           /\ i \in UserInodes => RuleRoot(current[i].map) \in 0 .. MaxUid
  <1>1. i \in UserInodes \cup MountInodes /\ current[i].map \in Maps \cup {<<>>}
    BY DEF Typed, TypeOK, Inodes
  <1>2. conf.uids \in SUBSET Nat
    BY CommandPolicyAssumption DEF Typed
  <1>3. CASE i \in UserInodes
    <2>1. ~RulesFail(current[i].map, conf.uids)
      BY <1>3 DEF HandleInv, CurrentInv, GoodMap
    <2>2. RuleUsers(current[i].map, conf.uids) \subseteq 0 .. MaxUid
          /\ RuleRoot(current[i].map) \in 0 .. MaxUid
      BY <1>1, <1>2, <2>1, RulesType
    <2> QED
      BY <1>3, <2>2, CommandControllerAssumption DEF Rules
  <1>4. CASE i \in MountInodes
    <2>1. i \notin UserInodes
      BY <1>4, CommandControllerAssumption
    <2>2. current[i].map = <<>>
      BY <2>1 DEF HandleInv, CurrentInv, GoodMap
    <2>3. RuleUsers(current[i].map, conf.uids) = {}
      BY <1>2, <2>2, HostUIDType DEF RuleUsers
    <2> QED
      BY <2>1, <2>3 DEF Rules
  <1> QED
    BY <1>1, <1>3, <1>4

(* A namespace is marked in the table of the scanner. *)
Entries == [map : Maps \cup {<<>>}, ripe : BOOLEAN, active : BOOLEAN]

LEMMA GraceEffect ==
    ASSUME Typed, NEW i \in Inodes, GraceEnds(i)
    PROVE  /\ i \in DOMAIN current /\ DOMAIN current' = DOMAIN current
           /\ \A j \in DOMAIN current : j # i => current'[j] = current[j]
           /\ current'[i] \in Entries /\ current'[i].ripe
           /\ current'[i].map = current[i].map /\ current'[i].active = current[i].active
  <1>1. i \in DOMAIN current /\ current' = [current EXCEPT ![i].ripe = TRUE]
    BY DEF GraceEnds
  <1>2. current[i] \in Entries
    BY <1>1 DEF Typed, TypeOK, Entries
  <1>3. current'[i] = [current[i] EXCEPT !.ripe = TRUE]
    BY <1>1
  <1> QED
    BY <1>1, <1>2, <1>3 DEF Entries

LEMMA OpenEffect ==
    ASSUME Typed, ScanInv, NEW i \in Inodes, OpenGate(i)
    PROVE  /\ i \in DOMAIN current /\ DOMAIN current' = DOMAIN current
           /\ \A j \in DOMAIN current : j # i => current'[j] = current[j]
           /\ current'[i] \in Entries /\ current'[i].active
           /\ current'[i].map = current[i].map /\ current'[i].ripe = current[i].ripe
           /\ i \in InodesOf(kind) /\ current[i].ripe /\ ~current[i].active
  <1>1. /\ i \in DOMAIN current /\ i \in InodesOf(kind) /\ current[i].ripe /\ ~current[i].active
        /\ current' = [current EXCEPT ![i].active = TRUE]
    BY DEF OpenGate, ScanInv, Ripe, KnownOf
  <1>2. current[i] \in Entries
    BY <1>1 DEF Typed, TypeOK, Entries
  <1>3. current'[i] = [current[i] EXCEPT !.active = TRUE]
    BY <1>1
  <1> QED
    BY <1>1, <1>2, <1>3 DEF Entries

LEMMA PlaceType ==
    ASSUME Typed, NEW t \in Tasks, place[t] # Gone
    PROVE  /\ place[t].user \in UserInodes /\ place[t].mnt \in MountInodes
           /\ place[t].user \in Inodes /\ place[t].mnt \in Inodes
  BY DEF Typed, TypeOK, Inodes

-----------------------------------------------------------------------------
(* Types. *)

(* Typed by the part of the state it speaks of. *)
KernelPart ==
    /\ place \in [Tasks -> [user : UserInodes, mnt : MountInodes] \cup {Gone}]
    /\ uidmap \in [UserInodes -> Maps \cup {<<>>}]
    /\ starts \in 0 .. MaxStarts /\ graced \subseteq Inodes

MapPart ==
    /\ gates \in [Inodes -> [root : 0 .. MaxUid, gen : 0 .. gen]]
    /\ users \subseteq UserInodes \X (0 .. MaxUid)
    /\ gen \in Nat

ScanPart ==
    /\ DOMAIN current \subseteq Inodes /\ DOMAIN desired \subseteq Inodes
    /\ \A i \in DOMAIN current :
         current[i] \in [map : Maps \cup {<<>>}, ripe : BOOLEAN, active : BOOLEAN]
    /\ \A i \in DOMAIN desired : desired[i] \in Maps \cup {<<>>}
    /\ pc \in {"list", "visit", "activate", "attach", "select", "ended"}
    /\ job \in {"start", "scan", "timer"} /\ kind \in {"user", "mnt"}
    /\ todo \subseteq Tasks \cup Inodes /\ victim \in Inodes \cup {None}
    /\ probe \in Probes \cup {NoProbe}

RunPart ==
    /\ faults \in 0 .. MaxFaults
    /\ cancelled \in BOOLEAN /\ attached \in BOOLEAN
    /\ run \in {"scan", "read", "return", "done"}
    /\ \A t \in Tasks : hook[t] = Idle \/ hook[t].at \in
         {"mount", "rules", "again", "mountagain", "hit"}
    /\ hook \in [Tasks -> HookStates \cup {Idle}]
    /\ conf \in Policies

LEMMA PartsOf ==
    ASSUME Typed
    PROVE  KernelPart /\ MapPart /\ ScanPart /\ RunPart
  BY DEF Typed, TypeOK, KernelPart, MapPart, ScanPart, RunPart

LEMMA FromParts ==
    ASSUME KernelPart', MapPart', ScanPart', RunPart'
    PROVE  Typed'
  BY DEF Typed, TypeOK, KernelPart, MapPart, ScanPart, RunPart

LEMMA PartFrames ==
    ASSUME Typed
    PROVE  /\ UNCHANGED kernelVars => KernelPart'
           /\ UNCHANGED mapVars => MapPart'
           /\ UNCHANGED scanVars => ScanPart'
           /\ UNCHANGED <<faults, runVars, hook, conf>> => RunPart'
  <1>1. UNCHANGED kernelVars => KernelPart'
    BY PartsOf DEF kernelVars, KernelPart
  <1>2. UNCHANGED mapVars => MapPart'
    BY PartsOf DEF mapVars, MapPart
  <1>3. UNCHANGED scanVars => ScanPart'
    BY PartsOf DEF scanVars, ScanPart
  <1>4. UNCHANGED <<faults, runVars, hook, conf>> => RunPart'
    BY PartsOf DEF runVars, RunPart
  <1> QED
    BY <1>1, <1>2, <1>3, <1>4

LEMMA KernelTyped ==
    ASSUME Typed, Kernel
    PROVE  Typed'
  <1>1. ASSUME NEW t \in Tasks, NEW u \in UserInodes, NEW m \in MountInodes, Enter(t, u, m)
        PROVE  Typed'
    <2>1. KernelPart'
      <3>1. KernelPart /\ MaxStarts \in Nat
        BY PartsOf, CommandControllerAssumption
      <3>2. uidmap' \in [UserInodes -> Maps \cup {<<>>}]
        BY <1>1, <3>1 DEF Enter, KernelPart
      <3>3. starts' \in 0 .. MaxStarts
        BY <1>1, <3>1 DEF Enter, KernelPart
      <3>4. place' \in [Tasks -> [user : UserInodes, mnt : MountInodes] \cup {Gone}]
        BY <1>1, <3>1 DEF Enter, KernelPart
      <3>5. graced' \subseteq Inodes
        BY <1>1, <3>1 DEF Enter, KernelPart
      <3> QED
        BY <3>2, <3>3, <3>4, <3>5 DEF KernelPart
    <2>2. UNCHANGED <<mapVars, scanVars, faults, runVars, hook, conf>>
      BY <1>1 DEF Enter
    <2> QED
      BY <2>1, <2>2, PartFrames, FromParts
  <1>2. ASSUME NEW t \in Tasks, Start(t) \/ Unshare(t) PROVE Typed'
    <2>1. place[t] # Gone => place[t].mnt \in MountInodes
      BY PlaceType
    <2> QED
      BY <1>1, <1>2, <2>1 DEF Start, Unshare
  <1>3. ASSUME NEW t \in Tasks, Exit(t) PROVE Typed'
    <2>1. KernelPart'
      <3>1. place' \in [Tasks -> [user : UserInodes, mnt : MountInodes] \cup {Gone}]
        BY <1>3, PartsOf DEF Exit, KernelPart
      <3> QED
        BY <1>3, <3>1, PartsOf DEF Exit, KernelPart
    <2>2. ScanPart'
      <3>1. probe' \in Probes \cup {NoProbe}
        BY <1>3, PartsOf DEF Exit, Probes, ScanPart
      <3>2. UNCHANGED <<current, pc, job, kind, todo, desired, victim>>
        BY <1>3 DEF Exit
      <3> QED
        BY <3>1, <3>2, PartsOf DEF ScanPart
    <2>3. UNCHANGED <<mapVars, faults, runVars, hook, conf>>
      BY <1>3 DEF Exit
    <2> QED
      BY <2>1, <2>2, <2>3, PartFrames, FromParts
  <1>4. ASSUME NEW i \in UserInodes, WriteMap(i) PROVE Typed'
    <2>1. KernelPart'
      <3>1. uidmap' \in [UserInodes -> Maps \cup {<<>>}]
        BY <1>4, PartsOf DEF WriteMap, KernelPart
      <3> QED
        BY <1>4, <3>1, PartsOf DEF WriteMap, KernelPart
    <2>2. UNCHANGED <<mapVars, scanVars, faults, runVars, hook, conf>>
      BY <1>4 DEF WriteMap
    <2> QED
      BY <2>1, <2>2, PartFrames, FromParts
  <1> QED
    BY <1>2, <1>3, <1>4 DEF Kernel

LEMMA FaultType ==
    ASSUME Typed, Fault
    PROVE  faults' \in 0 .. MaxFaults
  BY CommandControllerAssumption DEF Fault, Typed, TypeOK

(* A scan that fails, whatever it was doing. *)
LEMMA ScanFailsTyped ==
    ASSUME Typed, ScanFails, faults' \in 0 .. MaxFaults,
           UNCHANGED <<kernelVars, mapVars, current, job, kind, attached, hook, conf>>
    PROVE  Typed'
  BY DEF ScanFails, Typed, TypeOK, kernelVars, mapVars

LEMMA FailsTyped ==
    ASSUME Typed, ScannerFails \/ VisitCancelled
    PROVE  Typed'
  <1>1. CASE ListFails \/ DropFails \/ VisitCancelled
    <2>1. faults' \in 0 .. MaxFaults
      BY <1>1, FaultType DEF ListFails, DropFails, VisitCancelled, Typed, TypeOK
    <2> QED
      BY <1>1, <2>1, ScanFailsTyped DEF ListFails, DropFails, VisitCancelled
  <1>2. CASE ActivateFails
    <2>1. faults' \in 0 .. MaxFaults
      BY <1>2, FaultType DEF ActivateFails
    <2>2. CASE job = "timer"
      BY <1>2, <2>1, <2>2 DEF ActivateFails, Typed, TypeOK, kernelVars, mapVars
    <2>3. CASE job # "timer"
      BY <1>2, <2>1, <2>3, ScanFailsTyped DEF ActivateFails
    <2> QED
      BY <2>2, <2>3
  <1>3. CASE AttachFails
    BY <1>3, FaultType DEF AttachFails, Typed, TypeOK, kernelVars, mapVars
  <1>4. ASSUME NEW t \in Tasks, VisitFails(t) PROVE Typed'
    <2>1. todo' \subseteq Tasks \cup Inodes
      BY <1>4 DEF VisitFails, Typed, TypeOK
    <2> QED
      BY <1>4, <2>1, FaultType DEF VisitFails, Typed, TypeOK, kernelVars, mapVars, runVars
  <1> QED
    BY <1>1, <1>2, <1>3, <1>4 DEF ScannerFails

LEMMA VisitTyped ==
    ASSUME Typed, HandleInv, List \/ VisitRead \/ VisitCheck \/ \E t \in Tasks : VisitOpen(t)
    PROVE  Typed'
  <1> USE DEF Typed, TypeOK, kernelVars, mapVars, runVars
  <1>1. CASE List
    BY <1>1 DEF List, Present
  <1>2. CASE VisitRead
    <2>1. probe' \in Probes \cup {NoProbe}
      <3>1. CASE probe.alive
        <4>1. probe \in Probes /\ probe # NoProbe
          BY <1>2 DEF VisitRead
        <4>2. probe.task \in Tasks /\ place[probe.task] # Gone
          BY <3>1, <4>1 DEF HandleInv, ProbeInv, Probes
        <4>3. uidmap[place[probe.task].user] \in Maps \cup {<<>>}
          BY <4>2, PlaceType
        <4>4. probe' = [probe EXCEPT !.map = uidmap[place[probe.task].user], !.read = TRUE]
          BY <1>2, <3>1 DEF VisitRead
        <4> HIDE DEF Typed, TypeOK
        <4> QED
          BY <4>1, <4>3, <4>4 DEF Probes
      <3>2. CASE ~probe.alive
        BY <1>2, <3>2 DEF VisitRead
      <3> QED
        BY <3>1, <3>2
    <2> QED
      BY <1>2, <2>1 DEF VisitRead
  <1>3. CASE VisitCheck
    <2>1. probe \in Probes
      BY <1>3 DEF VisitCheck
    <2>2. probe.inode \in Inodes /\ probe.map \in Maps \cup {<<>>}
      BY <2>1 DEF Probes, Inodes
    <2>3. DOMAIN desired' \subseteq Inodes /\ \A i \in DOMAIN desired' : desired'[i] \in Maps \cup {<<>>}
      <3>1. CASE UNCHANGED desired
        BY <3>1
      <3>2. CASE Found(probe.inode, probe.map)
        BY <2>2, <3>2, FoundTyped
      <3> QED
        BY <1>3, <3>1, <3>2 DEF VisitCheck
    <2> QED
      BY <1>3, <2>3 DEF VisitCheck
  <1>4. ASSUME NEW t \in Tasks, VisitOpen(t) PROVE Typed'
    <2>3. DOMAIN desired' \subseteq Inodes /\ \A i \in DOMAIN desired' : desired'[i] \in Maps \cup {<<>>}
      <3>1. CASE UNCHANGED desired
        BY <3>1
      <3>2. CASE place[t] # Gone /\ Found(place[t].mnt, <<>>)
        <4>1. place[t].mnt \in Inodes
          BY <3>2, PlaceType
        <4> QED
          BY <3>2, <4>1, FoundTyped
      <3> QED
        BY <1>4, <3>1, <3>2 DEF VisitOpen
    <2>4. todo' \subseteq Tasks \cup Inodes
      BY <1>4 DEF VisitOpen
    <2>5. probe' \in Probes \cup {NoProbe}
      <3>1. CASE probe' = NoProbe \/ UNCHANGED probe
        BY <3>1
      <3>2. CASE place[t] # Gone /\ probe' = [task |-> t, inode |-> place[t].user, alive |-> TRUE,
                                              map |-> <<>>, read |-> FALSE]
        <4>1. place[t].user \in UserInodes
          BY <3>2, PlaceType
        <4> HIDE DEF Typed, TypeOK
        <4> QED
          BY <3>2, <4>1 DEF Probes
      <3> QED
        BY <1>4, <3>1, <3>2 DEF VisitOpen
    <2> QED
      BY <1>4, <2>5, <2>3, <2>4 DEF VisitOpen
  <1> QED
    BY <1>1, <1>2, <1>3, <1>4

LEMMA SyncTyped ==
    ASSUME Typed, ScanInv, HandleInv,
           \/ DropUser \/ DropLast \/ Adopt
           \/ \E i \in Inodes : DropPending(i) \/ DropGate(i)
    PROVE  Typed'
  <1> USE DEF Typed, TypeOK, kernelVars, mapVars, scanVars, runVars
  <1>1. CASE DropUser
    BY <1>1 DEF DropUser
  <1>2. ASSUME NEW i, Forget(i),
               UNCHANGED <<kernelVars, faults, mapVars, pc, job, kind, todo, probe, desired,
                           runVars, hook, conf>>
        PROVE  Typed'
    <2> HIDE DEF Typed, TypeOK, kernelVars, mapVars, scanVars, runVars
    <2>1. /\ DOMAIN current' = DOMAIN current \ {i} /\ victim' = None
          /\ \A j \in DOMAIN current' : current'[j] = current[j]
      BY <1>2, ForgetEffect
    <2>2. ScanPart'
      BY <1>2, <2>1, PartsOf DEF ScanPart
    <2> QED
      BY <1>2, <2>2, PartFrames, FromParts
  <1>3. CASE DropLast \/ \E i \in Inodes : DropPending(i)
    BY <1>2, <1>3 DEF DropLast, DropPending
  <1>4. CASE Adopt
    <2>1. DOMAIN current' \subseteq Inodes /\ DOMAIN desired' \subseteq Inodes
      BY <1>4, AdoptEffect
    <2>2. \A i \in DOMAIN current' :
            current'[i] \in [map : Maps \cup {<<>>}, ripe : BOOLEAN, active : BOOLEAN]
      <3>1. SUFFICES ASSUME NEW i \in DOMAIN current \cup DOMAIN desired
                     PROVE  current'[i] \in [map : Maps \cup {<<>>}, ripe : BOOLEAN, active : BOOLEAN]
        BY <1>4, AdoptEffect
      <3>2. CASE i \in DOMAIN current
        BY <1>4, <3>2, AdoptEffect
      <3>3. CASE i \in DOMAIN desired \ DOMAIN current
        <4>1. /\ current'[i] = [map |-> desired[i], ripe |-> FALSE, active |-> FALSE]
              /\ desired[i] \in Maps \cup {<<>>}
          BY <1>4, <3>3, AdoptEffect
        <4> HIDE DEF Typed, TypeOK
        <4> QED
          BY <4>1
      <3> QED
        BY <3>2, <3>3
    <2>3. \A i \in DOMAIN desired' : desired'[i] \in Maps \cup {<<>>}
      BY <1>4, AdoptEffect
    <2>4. todo' \subseteq Tasks \cup Inodes
      BY <1>4 DEF Adopt, Ripe, KnownOf
    <2> QED
      BY <1>4, <2>1, <2>2, <2>3, <2>4 DEF Adopt
  <1>5. ASSUME NEW i \in Inodes, DropGate(i) PROVE Typed'
    <2>1. NoGate \in [root : 0 .. MaxUid, gen : 0 .. gen]
      BY CommandPolicyAssumption DEF NoGate
    <2> QED
      BY <1>5, <2>1 DEF DropGate
  <1> QED
    BY <1>1, <1>3, <1>4, <1>5

LEMMA ActivateTyped ==
    ASSUME Typed, ScanInv, HandleInv,
           ActivateDone \/ \E i \in Inodes : AddUser(i) \/ OpenGate(i)
    PROVE  Typed'
  <1> USE DEF Typed, TypeOK, kernelVars, mapVars, scanVars, runVars
  <1>1. CASE ActivateDone
    BY <1>1 DEF ActivateDone, Ripe, KnownOf
  <1>2. ASSUME NEW i \in Inodes, AddUser(i) PROVE Typed'
    <2>1. i \in DOMAIN current
      BY <1>2 DEF AddUser, ScanInv, Ripe, KnownOf
    <2>2. users' \subseteq UserInodes \X (0 .. MaxUid)
      BY <1>2, <2>1, RulesIn DEF AddUser
    <2> QED
      BY <1>2, <2>2 DEF AddUser
  <1>3. ASSUME NEW i \in Inodes, OpenGate(i) PROVE Typed'
    <2>1. i \in DOMAIN current /\ i \in InodesOf(kind)
      BY <1>3 DEF OpenGate, ScanInv, Ripe, KnownOf
    <2>2. (IF kind = "user" THEN RuleRoot(current[i].map) ELSE 0) \in 0 .. MaxUid
      <3> HIDE DEF Typed, TypeOK
      <3>1. kind = "user" => RuleRoot(current[i].map) \in 0 .. MaxUid
        BY <2>1, RulesIn DEF InodesOf
      <3>2. 0 \in 0 .. MaxUid
        BY CommandPolicyAssumption
      <3> QED
        BY <3>1, <3>2
    <2>3. gen' \in Nat /\ gen' = gen + 1
      BY <1>3 DEF OpenGate
    <2>4. gates \in [Inodes -> [root : 0 .. MaxUid, gen : 0 .. gen']]
      BY <2>3
    <2>5. gates' \in [Inodes -> [root : 0 .. MaxUid, gen : 0 .. gen']]
      BY <1>3, <2>2, <2>3, <2>4 DEF OpenGate
    <2>6. DOMAIN current' = DOMAIN current /\ \A j \in DOMAIN current :
            current'[j] \in [map : Maps \cup {<<>>}, ripe : BOOLEAN, active : BOOLEAN]
      BY <1>3, OpenEffect DEF Entries
    <2>7. todo' \subseteq Tasks \cup Inodes
      BY <1>3 DEF OpenGate
    <2> QED
      BY <1>3, <2>3, <2>5, <2>6, <2>7 DEF OpenGate
  <1> QED
    BY <1>1, <1>2, <1>3

LEMMA RunTyped ==
    ASSUME Typed,
           \/ Attach \/ Reader \/ Cancel \/ Tick \/ Timer \/ SelectDone
           \/ \E i \in Inodes : GraceEnds(i)
           \/ UNCHANGED vars
    PROVE  Typed'
  <1>1. CASE UNCHANGED vars
    BY <1>1, PartFrames, FromParts DEF vars
  <1>2. CASE Attach \/ SelectDone
    <2>1. UNCHANGED <<kernelVars, mapVars>>
      BY <1>2 DEF Attach, SelectDone
    <2>2. ScanPart'
      BY <1>2, PartsOf DEF ScanPart, Attach, SelectDone
    <2>3. RunPart'
      BY <1>2, PartsOf DEF RunPart, Attach, SelectDone
    <2> QED
      BY <2>1, <2>2, <2>3, PartFrames, FromParts
  <1>3. CASE Cancel \/ Reader
    <2>1. UNCHANGED <<kernelVars, mapVars, scanVars>>
      BY <1>3 DEF Cancel, Reader, ReadEnds, Return
    <2>2. /\ faults' \in 0 .. MaxFaults /\ cancelled' \in BOOLEAN /\ attached' \in BOOLEAN
          /\ run' \in {"scan", "read", "return", "done"} /\ UNCHANGED <<hook, conf>>
      BY <1>3, PartsOf, FaultType DEF RunPart, Cancel, Reader, ReadEnds, Return
    <2>3. RunPart'
      BY <2>2, PartsOf DEF RunPart
    <2> QED
      BY <2>1, <2>3, PartFrames, FromParts
  <1>4. CASE Tick \/ Timer
    <2>1. UNCHANGED <<kernelVars, mapVars, faults, runVars, hook, conf>>
      BY <1>4 DEF Tick, Timer
    <2>2. todo' \subseteq Tasks \cup Inodes
      BY <1>4, PartsOf DEF ScanPart, Tick, Timer, Ripe, KnownOf
    <2>3. ScanPart'
      BY <1>4, <2>2, PartsOf DEF ScanPart, Tick, Timer
    <2> QED
      BY <2>1, <2>3, PartFrames, FromParts
  <1>5. ASSUME NEW i \in Inodes, GraceEnds(i) PROVE Typed'
    <2>1. DOMAIN current' = DOMAIN current /\ \A j \in DOMAIN current :
            current'[j] \in [map : Maps \cup {<<>>}, ripe : BOOLEAN, active : BOOLEAN]
      BY <1>5, GraceEffect, PartsOf DEF Entries, ScanPart
    <2>2. KernelPart'
      BY <1>5, PartsOf DEF KernelPart, GraceEnds
    <2>3. UNCHANGED <<mapVars, faults, runVars, hook, conf>>
      BY <1>5 DEF GraceEnds
    <2>4. ScanPart'
      BY <1>5, <2>1, PartsOf DEF ScanPart, GraceEnds
    <2> QED
      BY <2>2, <2>3, <2>4, PartFrames, FromParts
  <1> QED
    BY <1>1, <1>2, <1>3, <1>4, <1>5

LEMMA HookTyped ==
    ASSUME Typed, HookInv, NEW t \in Tasks, HookEnter(t) \/ Hook(t)
    PROVE  Typed'
  <1>1. ASSUME NEW s \in HookStates \cup {Idle}, HookStep(t, s) PROVE Typed'
    <2>1. hook' \in [Tasks -> HookStates \cup {Idle}]
      BY <1>1 DEF HookStep, Typed
    <2>2. \A x \in Tasks : hook'[x] = Idle \/ hook'[x].at \in
            {"mount", "rules", "again", "mountagain", "hit"}
      BY <2>1 DEF HookStates
    <2> QED
      BY <1>1, <2>1, <2>2
         DEF HookStep, Typed, TypeOK, kernelVars, mapVars, scanVars, runVars
  <1>2. CASE HookEnter(t)
    <2>1. PICK a \in Attempts :
            HookStep(t, [at |-> "mount", uid |-> a.uid, euid |-> a.euid, cmd |-> a.cmd,
                         gen |-> gates[place[t].user].gen, mgen |-> 0]) /\ place[t] # Gone
      BY <1>2 DEF HookEnter
    <2>2. gates[place[t].user].gen \in Nat
      BY <2>1 DEF Typed, TypeOK, Inodes
    <2>3. [at |-> "mount", uid |-> a.uid, euid |-> a.euid, cmd |-> a.cmd,
           gen |-> gates[place[t].user].gen, mgen |-> 0] \in HookStates
      BY <2>2, CommandControllerAssumption DEF HookStates
    <2> QED
      BY <1>1, <2>1, <2>3
  <1>3. CASE Hook(t)
    <2>1. hook[t] \in HookStates /\ hook[t] # Idle
      BY <1>3 DEF Hook, HookMount, HookRules, HookAgain, HookMountAgain, HookHit, Typed, Idle
    <2>0. place[t] # Gone
      BY <2>1 DEF HookInv, HookGood
    <2>2. \A s \in {"rules", "again", "mountagain", "hit"} : [hook[t] EXCEPT !.at = s] \in HookStates
      BY <2>1 DEF HookStates
    <2>3. CASE HookMount(t)
      <3>1. CASE gates[place[t].mnt] = NoGate
        BY <1>1, <2>3, <3>1 DEF HookMount
      <3>2. CASE gates[place[t].mnt] # NoGate
        <4>1. place[t].mnt \in Inodes
          BY <2>0, PlaceType
        <4>2. gates[place[t].mnt].gen \in Nat
          BY <4>1 DEF Typed, TypeOK
        <4>3. [hook[t] EXCEPT !.at = "rules", !.mgen = gates[place[t].mnt].gen] \in HookStates
          BY <2>1, <4>2 DEF HookStates
        <4> QED
          BY <1>1, <2>3, <3>2, <4>3 DEF HookMount
      <3> QED
        BY <3>1, <3>2
    <2> QED
      BY <1>1, <1>3, <2>2, <2>3 DEF Hook, HookRules, HookAgain, HookMountAgain, HookHit
  <1> QED
    BY <1>2, <1>3

-----------------------------------------------------------------------------
(* The scanner's program points. *)

LEMMA ScanSteady ==
    ASSUME ScanInv,
           UNCHANGED <<current, gates, pc, kind, todo, probe, desired, victim>>
    PROVE  ScanInv'
  BY DEF ScanInv, Ripe, KnownOf, Discovered, Leaving

LEMMA VictimNone ==
    ASSUME ScanInv, \/ pc \notin {"activate", "visit"}
                    \/ todo = {} /\ (pc = "activate" \/ Leaving = {})
                    \/ todo # {} /\ pc = "visit"
                    \/ probe # NoProbe
    PROVE  victim = None
  BY DEF ScanInv, Discovered

(* The steps that leave the scanner where it is. *)
LEMMA OthersScan ==
    ASSUME Typed, ScanInv,
           \/ Kernel \/ Reader \/ Cancel \/ UNCHANGED vars
           \/ \E t \in Tasks : HookEnter(t) \/ Hook(t)
           \/ \E i \in Inodes : GraceEnds(i)
    PROVE  ScanInv'
  <1>1. CASE \E t \in Tasks, u \in UserInodes, m \in MountInodes : Enter(t, u, m)
    BY <1>1, ScanSteady DEF Enter, mapVars, scanVars
  <1>2. CASE \E t \in Tasks : Start(t) \/ Unshare(t)
    BY <1>1, <1>2, PlaceType DEF Start, Unshare
  <1>3. CASE \E i \in UserInodes : WriteMap(i)
    BY <1>3, ScanSteady DEF WriteMap, mapVars, scanVars
  <1>4. ASSUME NEW t \in Tasks, Exit(t) PROVE ScanInv'
    <2>1. probe' = NoProbe <=> probe = NoProbe
      <3>1. CASE UNCHANGED probe
        BY <3>1
      <3>2. CASE probe \in Probes /\ probe.task = t /\ probe' = [probe EXCEPT !.alive = FALSE]
        <4>1. probe.inode # None /\ probe'.inode = probe.inode
          BY <3>2, CommandControllerAssumption DEF Probes, Inodes
        <4> QED
          BY <4>1 DEF NoProbe
      <3> QED
        BY <1>4, <3>1, <3>2 DEF Exit, Typed
    <2> QED
      BY <1>4, <2>1 DEF Exit, mapVars, ScanInv, Ripe, KnownOf, Discovered, Leaving
  <1>5. CASE Kernel
    BY <1>2, <1>3, <1>4, <1>5 DEF Kernel
  <1>6. CASE Reader \/ Cancel \/ UNCHANGED vars
    BY <1>6, ScanSteady DEF Reader, ReadEnds, Return, Cancel, vars, mapVars, scanVars
  <1>7. CASE \E t \in Tasks : HookEnter(t) \/ Hook(t)
    <2>1. ASSUME NEW t, NEW s, HookStep(t, s) PROVE ScanInv'
      BY <2>1, ScanSteady DEF HookStep, mapVars, scanVars
    <2> QED
      BY <1>7, <2>1
         DEF HookEnter, Hook, HookMount, HookRules, HookAgain, HookMountAgain, HookHit
  <1>8. ASSUME NEW i \in Inodes, GraceEnds(i) PROVE ScanInv'
    <2>1. /\ DOMAIN current' = DOMAIN current
          /\ \A j \in DOMAIN current :
                current'[j].active = current[j].active /\ (current[j].ripe => current'[j].ripe)
      BY <1>8, GraceEffect
    <2> QED
      BY <1>8, <2>1 DEF GraceEnds, mapVars, ScanInv, Ripe, KnownOf, Discovered, Leaving
  <1> QED
    BY <1>5, <1>6, <1>7, <1>8

LEMMA ScannerScan ==
    ASSUME Typed, ScanInv, HandleInv,
           Scanner \/ ScannerFails \/ Tick \/ Timer \/ SelectDone
    PROVE  ScanInv'
  <1> USE DEF ScanInv
  <1>1. CASE List
    BY <1>1, VictimNone DEF List, Present
  <1>2. CASE VisitRead
    <2>1. victim = None
      BY <1>2, VictimNone DEF VisitRead
    <2> QED
      BY <1>2, <2>1 DEF VisitRead
  <1>3. CASE VisitCheck
    <2>1. victim = None
      BY <1>3, VictimNone DEF VisitCheck
    <2> QED
      BY <1>3, <2>1 DEF VisitCheck
  <1>4. ASSUME ScanFails PROVE ScanInv'
    BY <1>4 DEF ScanFails
  <1>5. CASE VisitCancelled \/ ListFails \/ DropFails
    BY <1>4, <1>5 DEF VisitCancelled, ListFails, DropFails
  <1>6. ASSUME NEW t \in Tasks, VisitOpen(t) \/ VisitFails(t) PROVE ScanInv'
    <2>1. victim = None /\ victim' = None /\ pc = "visit" /\ UNCHANGED <<pc, kind>>
      BY <1>6, VictimNone DEF VisitOpen, VisitFails
    <2>2. probe' = NoProbe \/ kind = "user"
      BY <1>6 DEF VisitOpen, VisitFails, Typed, TypeOK
    <2>3. todo' \subseteq todo
      BY <1>6 DEF VisitOpen, VisitFails
    <2> QED
      BY <2>1, <2>2, <2>3
  <1>7. ASSUME NEW i \in Inodes, DropPending(i) PROVE ScanInv'
    <2>1. victim' = None
      BY <1>7, ForgetEffect DEF DropPending
    <2> QED
      BY <1>7, <2>1 DEF DropPending, Discovered
  <1>8. CASE DropLast
    <2>1. victim' = None
      BY <1>8, ForgetEffect DEF DropLast
    <2> QED
      BY <1>8, <2>1 DEF DropLast, Discovered
  <1>9. ASSUME NEW i \in Inodes, DropGate(i) PROVE ScanInv'
    <2>1. gates'[i] = NoGate
      BY <1>9 DEF DropGate, Typed, TypeOK
    <2> QED
      BY <1>9, <2>1 DEF DropGate, Discovered, Leaving, KnownOf
  <1>10. CASE DropUser
    BY <1>10, ScanSteady DEF DropUser, scanVars
  <1>11. CASE Adopt
    <2>1. victim = None
      BY <1>11, VictimNone DEF Adopt, Discovered
    <2>2. \A i \in Ripe(kind) : i \in Ripe(kind)'
      BY <1>11, AdoptEffect DEF Adopt, Ripe, KnownOf
    <2> QED
      BY <1>11, <2>1, <2>2 DEF Adopt, Discovered
  <1>12. ASSUME NEW i \in Inodes, AddUser(i) PROVE ScanInv'
    BY <1>12 DEF AddUser, Ripe, KnownOf
  <1>13. ASSUME NEW i \in Inodes, OpenGate(i) PROVE ScanInv'
    <2>1. \A j \in Ripe(kind) \ {i} : j \in Ripe(kind)'
      BY <1>13, OpenEffect DEF OpenGate, Ripe, KnownOf
    <2> QED
      BY <1>13, <2>1 DEF OpenGate
  <1>14. CASE ActivateFails
    <2>1. CASE job = "timer"
      BY <1>14, <2>1 DEF ActivateFails
    <2> QED
      BY <1>4, <1>14, <2>1 DEF ActivateFails
  <1>15. CASE ActivateDone
    <2>1. victim = None
      BY <1>15, VictimNone DEF ActivateDone
    <2>2. Ripe("mnt")' = Ripe("mnt")
      BY <1>15 DEF ActivateDone, Ripe, KnownOf
    <2> QED
      BY <1>15, <2>1, <2>2 DEF ActivateDone
  <1>16. CASE Timer
    <2>1. victim = None
      BY <1>16, VictimNone DEF Timer
    <2>2. Ripe("user")' = Ripe("user")
      BY <1>16 DEF Timer, Ripe, KnownOf
    <2> QED
      BY <1>16, <2>1, <2>2 DEF Timer
  <1>17. CASE Attach \/ AttachFails \/ Tick \/ SelectDone
    <2>1. victim = None
      BY <1>17, VictimNone DEF Attach, AttachFails, Tick, SelectDone
    <2> QED
      BY <1>17, <2>1 DEF Attach, AttachFails, Tick, SelectDone
  <1> QED
    BY <1>1, <1>2, <1>3, <1>5, <1>6, <1>7, <1>8, <1>9, <1>10, <1>11, <1>12, <1>13, <1>14,
       <1>15, <1>16, <1>17 DEF Scanner, ScannerFails

-----------------------------------------------------------------------------
(* Handles. *)

LEMMA HandleSteady ==
    ASSUME HandleInv, UNCHANGED <<place, uidmap, graced, current, desired, probe, conf>>
    PROVE  HandleInv'
  BY DEF HandleInv, DesiredInv, CurrentInv, ProbeInv, GoodMap

(* No kernel step disturbs what an open handle stands for. *)
LEMMA KernelHandle ==
    ASSUME Typed, HandleInv, Kernel
    PROVE  HandleInv'
  <1>1. ASSUME NEW t \in Tasks, NEW u \in UserInodes, NEW m \in MountInodes, Enter(t, u, m),
               probe # NoProbe /\ probe.alive /\ probe.task = t => u # probe.inode
        PROVE  HandleInv'
    <2>1. run # "done" /\ UNCHANGED <<desired, current, probe, conf>>
      BY <1>1 DEF Enter, scanVars
    <2>2. \A i \in Pinned : i \in UserInodes => uidmap'[i] = uidmap[i]
      BY <1>1 DEF Enter, Free
    <2>3. \A i \in graced \cap Pinned : i \in graced'
      BY <1>1 DEF Enter, Free
    <2>4. DOMAIN current \subseteq Pinned /\ DOMAIN desired \subseteq Pinned
          /\ (probe # NoProbe => probe.inode \in Pinned)
      BY <2>1 DEF Pinned
    <2>5. DesiredInv'
      BY <2>1, <2>2, <2>4 DEF HandleInv, DesiredInv, GoodMap
    <2>6. CurrentInv'
      BY <2>1, <2>2, <2>3, <2>4 DEF HandleInv, CurrentInv, GoodMap
    <2>7. ProbeInv'
      <3> SUFFICES ASSUME probe # NoProbe, probe.alive PROVE ProbeInv'
        BY <2>1 DEF ProbeInv
      <3>1. probe.task \in Tasks /\ probe.inode \in UserInodes
        BY DEF Typed, Probes
      <3>2. uidmap'[probe.inode] = uidmap[probe.inode]
        BY <2>2, <2>4, <3>1
      <3>3. CASE probe.task = t
        <4>1. place'[t] = [user |-> u, mnt |-> m] /\ u # probe.inode
          BY <1>1, <3>3 DEF Enter, Typed, TypeOK
        <4>2. u # None
          BY CommandControllerAssumption DEF Inodes
        <4> QED
          BY <2>1, <3>3, <4>1, <4>2 DEF ProbeInv, Gone
      <3>4. CASE probe.task # t
        <4>1. place'[probe.task] = place[probe.task]
          BY <1>1, <3>1, <3>4 DEF Enter, Typed, TypeOK
        <4> QED
          BY <2>1, <3>2, <4>1 DEF HandleInv, ProbeInv
      <3> QED
        BY <3>3, <3>4
    <2> QED
      BY <2>5, <2>6, <2>7 DEF HandleInv
  <1>2. ASSUME NEW t \in Tasks, Start(t) PROVE HandleInv'
    <2>1. ~(probe # NoProbe /\ probe.alive /\ probe.task = t)
      BY <1>2 DEF Start, HandleInv, ProbeInv
    <2> QED
      BY <1>1, <1>2, <2>1 DEF Start
  <1>3. ASSUME NEW t \in Tasks, Unshare(t) PROVE HandleInv'
    <2>1. PICK u \in UserInodes \cap Free : Enter(t, u, place[t].mnt)
      BY <1>3 DEF Unshare
    <2>2. place[t].mnt \in MountInodes
      BY <1>3, PlaceType DEF Unshare
    <2>3. probe # NoProbe => u # probe.inode
      BY DEF Free, Pinned
    <2> QED
      BY <1>1, <2>1, <2>2, <2>3
  <1>4. ASSUME NEW t \in Tasks, Exit(t) PROVE HandleInv'
    <2>1. DesiredInv' /\ CurrentInv'
      BY <1>4 DEF Exit, HandleInv, DesiredInv, CurrentInv, GoodMap
    <2>2. ProbeInv'
      <3>1. CASE probe # NoProbe /\ probe.task = t
        <4>1. probe \in Probes /\ probe' = [probe EXCEPT !.alive = FALSE]
          BY <1>4, <3>1 DEF Exit, Typed
        <4> QED
          BY <4>1 DEF ProbeInv, Probes
      <3>2. CASE probe # NoProbe /\ probe.task # t
        <4>1. probe.task \in Tasks
          BY <3>2 DEF Typed, Probes
        <4>2. place'[probe.task] = place[probe.task] /\ UNCHANGED <<probe, uidmap>>
          BY <1>4, <3>2, <4>1 DEF Exit, Typed, TypeOK
        <4> QED
          BY <4>2 DEF HandleInv, ProbeInv
      <3>3. CASE probe = NoProbe
        BY <1>4, <3>3 DEF Exit, ProbeInv
      <3> QED
        BY <3>1, <3>2, <3>3
    <2> QED
      BY <2>1, <2>2 DEF HandleInv
  <1>5. ASSUME NEW i \in UserInodes, WriteMap(i) PROVE HandleInv'
    <2>1. /\ UNCHANGED <<place, graced, desired, current, probe, conf>>
          /\ \A j \in UserInodes : uidmap[j] # <<>> => uidmap'[j] = uidmap[j]
      BY <1>5 DEF WriteMap, scanVars, Typed, TypeOK
    <2>2. DesiredInv' /\ CurrentInv'
      BY <2>1 DEF HandleInv, DesiredInv, CurrentInv, GoodMap
    <2>3. probe # NoProbe => probe.inode \in UserInodes
      BY DEF Typed, Probes
    <2>4. ProbeInv'
      BY <2>1, <2>3 DEF HandleInv, ProbeInv
    <2> QED
      BY <2>2, <2>4 DEF HandleInv
  <1> QED
    BY <1>2, <1>3, <1>4, <1>5 DEF Kernel

(* Discovery: only a mapping that still is the namespace's is kept. *)
LEMMA VisitHandle ==
    ASSUME Typed, HandleInv, VisitRead \/ VisitCheck \/ \E t \in Tasks : VisitOpen(t)
    PROVE  HandleInv'
  <1>1. UNCHANGED <<place, uidmap, graced, current, conf>>
    BY DEF VisitRead, VisitCheck, VisitOpen, kernelVars
  <1>2. CurrentInv'
    BY <1>1 DEF HandleInv, CurrentInv, GoodMap
  <1>3. ASSUME NEW i, NEW map, Found(i, map), GoodMap(i, map) PROVE DesiredInv'
    <2>1. /\ DOMAIN desired' = DOMAIN desired \cup {i} /\ desired'[i] = map
          /\ \A j \in DOMAIN desired : j # i => desired'[j] = desired[j]
      BY <1>3, FoundEffect
    <2> QED
      BY <1>1, <1>3, <2>1 DEF HandleInv, DesiredInv, GoodMap
  <1>4. ASSUME UNCHANGED desired PROVE DesiredInv'
    BY <1>1, <1>4 DEF HandleInv, DesiredInv, GoodMap
  <1>5. CASE VisitRead
    <2>1. DesiredInv'
      BY <1>4, <1>5 DEF VisitRead
    <2>2. probe \in Probes
      BY <1>5 DEF VisitRead, Typed
    <2>3. ProbeInv'
      <3>1. CASE probe.alive
        <4>1. probe' = [probe EXCEPT !.map = uidmap[place[probe.task].user], !.read = TRUE]
          BY <1>5, <3>1 DEF VisitRead
        <4>2. /\ probe'.task = probe.task /\ probe'.inode = probe.inode
              /\ probe'.map = uidmap[place[probe.task].user]
          BY <2>2, <4>1 DEF Probes
        <4>3. place[probe.task] # Gone
          BY <1>5, <3>1 DEF VisitRead, HandleInv, ProbeInv
        <4> QED
          BY <1>1, <4>2, <4>3 DEF ProbeInv
      <3>2. CASE ~probe.alive
        BY <1>5, <3>2 DEF VisitRead, ProbeInv
      <3> QED
        BY <3>1, <3>2
    <2> QED
      BY <1>2, <2>1, <2>3 DEF HandleInv
  <1>6. CASE VisitCheck
    <2>1. probe \in Probes /\ probe # NoProbe /\ probe.read /\ probe' = NoProbe
      BY <1>6 DEF VisitCheck, Typed
    <2>2. DesiredInv'
      <3>1. CASE ProbeSame /\ probe.map # <<>> /\ ~RulesFail(probe.map, conf.uids)
        <4>1. Found(probe.inode, probe.map)
          BY <1>6, <3>1 DEF VisitCheck
        <4>2. probe.inode \in UserInodes /\ probe.map = uidmap[probe.inode]
          BY <2>1, <3>1 DEF ProbeSame, HandleInv, ProbeInv, Probes
        <4>3. GoodMap(probe.inode, probe.map)
          BY <3>1, <4>2 DEF GoodMap
        <4> QED
          BY <1>3, <4>1, <4>3
      <3>2. CASE UNCHANGED desired
        BY <1>4, <3>2
      <3> QED
        BY <1>6, <3>1, <3>2 DEF VisitCheck
    <2> QED
      BY <1>2, <2>1, <2>2 DEF HandleInv, ProbeInv
  <1>7. ASSUME NEW t \in Tasks, VisitOpen(t) PROVE HandleInv'
    <2>1. DesiredInv'
      <3>1. CASE place[t] # Gone /\ Found(place[t].mnt, <<>>)
        <4>1. place[t].mnt \in MountInodes
          BY <3>1, PlaceType
        <4>2. GoodMap(place[t].mnt, <<>>)
          BY <4>1, CommandControllerAssumption DEF GoodMap
        <4> QED
          BY <1>3, <3>1, <4>2
      <3>2. CASE UNCHANGED desired
        BY <1>4, <3>2
      <3> QED
        BY <1>7, <3>1, <3>2 DEF VisitOpen
    <2>2. ProbeInv'
      <3>1. CASE place[t] # Gone /\ probe' = [task |-> t, inode |-> place[t].user, alive |-> TRUE,
                                              map |-> <<>>, read |-> FALSE]
        BY <1>1, <3>1 DEF ProbeInv
      <3>2. CASE probe' = NoProbe \/ UNCHANGED probe
        BY <1>1, <3>2 DEF HandleInv, ProbeInv
      <3> QED
        BY <1>7, <3>1, <3>2 DEF VisitOpen
    <2> QED
      BY <1>2, <2>1, <2>2 DEF HandleInv
  <1> QED
    BY <1>5, <1>6, <1>7

LEMMA ScannerHandle ==
    ASSUME Typed, ScanInv, HandleInv,
           \/ Scanner \/ ScannerFails \/ Tick \/ Timer \/ SelectDone
           \/ \E i \in Inodes : GraceEnds(i)
    PROVE  HandleInv'
  <1>1. CASE VisitRead \/ VisitCheck \/ \E t \in Tasks : VisitOpen(t)
    BY <1>1, VisitHandle
  <1>2. ASSUME ScanFails, UNCHANGED <<place, uidmap, graced, current, conf>> PROVE HandleInv'
    <2>1. desired' = <<>> /\ probe' = NoProbe
      BY <1>2 DEF ScanFails
    <2>2. DesiredInv' /\ ProbeInv'
      BY <2>1 DEF DesiredInv, ProbeInv
    <2>3. CurrentInv'
      BY <1>2 DEF HandleInv, CurrentInv, GoodMap
    <2> QED
      BY <2>2, <2>3 DEF HandleInv
  <1>3. CASE VisitCancelled \/ ListFails \/ DropFails
    BY <1>2, <1>3 DEF VisitCancelled, ListFails, DropFails, kernelVars
  <1>4. CASE ActivateFails
    <2>1. CASE job = "timer"
      BY <1>4, <2>1, HandleSteady DEF ActivateFails, kernelVars
    <2> QED
      BY <1>2, <1>4, <2>1 DEF ActivateFails, kernelVars
  <1>5. CASE List \/ Attach \/ AttachFails \/ \E t \in Tasks : VisitFails(t)
    BY <1>5, HandleSteady DEF List, Attach, AttachFails, VisitFails, kernelVars
  <1>6. CASE Tick \/ Timer \/ SelectDone
    BY <1>6, HandleSteady DEF Tick, Timer, SelectDone, kernelVars
  <1>7. CASE DropUser \/ \E i \in Inodes : DropGate(i) \/ AddUser(i)
    BY <1>7, HandleSteady DEF DropUser, DropGate, AddUser, kernelVars, scanVars
  <1>8. ASSUME NEW i, Forget(i), UNCHANGED <<place, uidmap, graced, desired, probe, conf>>
        PROVE  HandleInv'
    <2>1. DOMAIN current' \subseteq DOMAIN current
          /\ \A j \in DOMAIN current' : current'[j] = current[j]
      BY <1>8, ForgetEffect
    <2>2. CurrentInv'
      BY <1>8, <2>1 DEF HandleInv, CurrentInv, GoodMap
    <2> QED
      BY <1>8, <2>2 DEF HandleInv, DesiredInv, ProbeInv, GoodMap
  <1>9. CASE DropLast \/ \E i \in Inodes : DropPending(i)
    BY <1>8, <1>9 DEF DropLast, DropPending, kernelVars
  <1>10. CASE Adopt
    <2>1. UNCHANGED <<place, uidmap, graced, probe, conf>>
      BY <1>10 DEF Adopt, kernelVars
    <2>2. DesiredInv'
      BY <1>10, <2>1, AdoptEffect DEF HandleInv, DesiredInv, GoodMap
    <2>3. CurrentInv'
      <3> SUFFICES ASSUME NEW j \in DOMAIN current \cup DOMAIN desired
                   PROVE  /\ GoodMap(j, current[j].map)'
                          /\ current'[j].ripe => j \in graced'
                          /\ current'[j].active => current'[j].ripe
        BY <1>10, AdoptEffect DEF CurrentInv, GoodMap
      <3>1. CASE j \in DOMAIN current
        <4>1. current'[j] = current[j]
          BY <1>10, <3>1, AdoptEffect
        <4> QED
          BY <2>1, <3>1, <4>1 DEF HandleInv, CurrentInv, GoodMap
      <3>2. CASE j \in DOMAIN desired \ DOMAIN current
        <4>1. current'[j] = [map |-> desired[j], ripe |-> FALSE, active |-> FALSE]
          BY <1>10, <3>2, AdoptEffect
        <4>2. GoodMap(j, desired[j])
          BY <3>2 DEF HandleInv, DesiredInv
        <4> QED
          BY <2>1, <4>1, <4>2 DEF GoodMap
      <3> QED
        BY <3>1, <3>2
    <2>4. ProbeInv'
      BY <2>1 DEF HandleInv, ProbeInv
    <2> QED
      BY <2>2, <2>3, <2>4 DEF HandleInv
  <1>11. ASSUME NEW i \in Inodes, OpenGate(i) PROVE HandleInv'
    <2>1. UNCHANGED <<place, uidmap, graced, desired, probe, conf>>
      BY <1>11 DEF OpenGate, kernelVars
    <2>2. CurrentInv'
      BY <1>11, <2>1, OpenEffect DEF HandleInv, CurrentInv, GoodMap
    <2> QED
      BY <2>1, <2>2 DEF HandleInv, DesiredInv, ProbeInv, GoodMap
  <1>12. ASSUME NEW i \in Inodes, GraceEnds(i) PROVE HandleInv'
    <2>1. UNCHANGED <<place, uidmap, desired, probe, conf>> /\ graced' = graced \cup {i}
      BY <1>12 DEF GraceEnds
    <2>2. CurrentInv'
      BY <1>12, <2>1, GraceEffect DEF HandleInv, CurrentInv, GoodMap
    <2> QED
      BY <2>1, <2>2 DEF HandleInv, DesiredInv, ProbeInv, GoodMap
  <1>13. CASE ActivateDone
    <2>1. /\ UNCHANGED <<place, uidmap, graced, current, probe, conf>>
          /\ desired' \in {desired, <<>>}
      BY <1>13 DEF ActivateDone, kernelVars
    <2> QED
      BY <2>1 DEF HandleInv, DesiredInv, CurrentInv, ProbeInv, GoodMap
  <1> QED
    BY <1>1, <1>3, <1>4, <1>5, <1>6, <1>7, <1>9, <1>10, <1>11, <1>12, <1>13
       DEF Scanner, ScannerFails

LEMMA OthersHandle ==
    ASSUME HandleInv,
           \/ Reader \/ Cancel \/ UNCHANGED vars
           \/ \E t \in Tasks : HookEnter(t) \/ Hook(t)
    PROVE  HandleInv'
  <1>1. CASE Reader \/ Cancel \/ UNCHANGED vars
    BY <1>1, HandleSteady DEF Reader, ReadEnds, Return, Cancel, vars, kernelVars, scanVars
  <1>2. ASSUME NEW t, NEW s, HookStep(t, s) PROVE HandleInv'
    BY <1>2, HandleSteady DEF HookStep, kernelVars, scanVars
  <1> QED
    BY <1>1, <1>2 DEF HookEnter, Hook, HookMount, HookRules, HookAgain, HookMountAgain, HookHit

-----------------------------------------------------------------------------
(* The maps of the BPF program. *)

(* A step that leaves the maps and the table alone may only not lose sight *)
(* of half-done work.                                                      *)
LEMMA MapSteady ==
    ASSUME MapInv, UNCHANGED <<gates, users, conf>>,
           DOMAIN current' = DOMAIN current,
           \A i \in DOMAIN current :
              current'[i].map = current[i].map /\ current'[i].active = current[i].active,
           Halted => Halted',
           UNCHANGED <<pc, victim>> \/ victim = None \/ Halted',
           None \notin Inodes, DOMAIN current \subseteq Inodes
    PROVE  MapInv'
  <1>1. \A i \in DOMAIN current : Rules(i)' = Rules(i)
    BY DEF Rules
  <1>2. OpenGateInv'
    BY <1>1 DEF MapInv, OpenGateInv
  <1>3. KeyInv'
    BY <1>1 DEF MapInv, KeyInv
  <1>4. ActiveInv'
    BY DEF MapInv, ActiveInv
  <1> QED
    BY <1>2, <1>3, <1>4 DEF MapInv

LEMMA OthersMap ==
    ASSUME Typed, MapInv,
           \/ Kernel \/ Reader \/ Cancel \/ UNCHANGED vars
           \/ \E t \in Tasks : HookEnter(t) \/ Hook(t)
           \/ \E i \in Inodes : GraceEnds(i)
    PROVE  MapInv'
  <1>0. None \notin Inodes /\ DOMAIN current \subseteq Inodes /\ cancelled \in BOOLEAN
    BY CommandControllerAssumption DEF Typed, TypeOK
  <1>1. ASSUME UNCHANGED <<gates, users, conf, current, pc, victim>>, cancelled => cancelled'
        PROVE  MapInv'
    <2>1. Halted => Halted'
      BY <1>1 DEF Halted
    <2> QED
      BY <1>0, <1>1, <2>1, MapSteady
  <1>2. ASSUME NEW t, NEW u, NEW m, Enter(t, u, m) PROVE MapInv'
    BY <1>1, <1>2 DEF Enter, mapVars, scanVars, runVars
  <1>3. CASE Kernel
    BY <1>1, <1>2, <1>3 DEF Kernel, Start, Unshare, Exit, WriteMap, mapVars, scanVars, runVars
  <1>4. CASE Reader \/ Cancel \/ UNCHANGED vars
    BY <1>1, <1>4 DEF Reader, ReadEnds, Return, Cancel, vars, mapVars, scanVars, runVars
  <1>5. ASSUME NEW t, NEW st, HookStep(t, st) PROVE MapInv'
    BY <1>1, <1>5 DEF HookStep, mapVars, scanVars, runVars
  <1>6. CASE \E t \in Tasks : HookEnter(t) \/ Hook(t)
    BY <1>5, <1>6
       DEF HookEnter, Hook, HookMount, HookRules, HookAgain, HookMountAgain, HookHit
  <1>7. ASSUME NEW i \in Inodes, GraceEnds(i) PROVE MapInv'
    <2>1. /\ DOMAIN current' = DOMAIN current
          /\ \A j \in DOMAIN current :
               current'[j].map = current[j].map /\ current'[j].active = current[j].active
      BY <1>7, GraceEffect
    <2>2. UNCHANGED <<gates, users, conf, pc, victim, cancelled>>
      BY <1>7 DEF GraceEnds, mapVars, runVars
    <2>3. Halted => Halted'
      BY <2>2 DEF Halted
    <2> QED
      BY <1>0, <2>1, <2>2, <2>3, MapSteady
  <1> QED
    BY <1>3, <1>4, <1>6, <1>7

(* The scanner's steps that touch neither the maps nor the table. *)
LEMMA MovesMap ==
    ASSUME Typed, ScanInv, MapInv,
           \/ List \/ VisitRead \/ VisitCheck \/ VisitCancelled
           \/ \E t \in Tasks : VisitOpen(t)
           \/ ActivateDone \/ Attach \/ ScannerFails \/ Tick \/ Timer \/ SelectDone
    PROVE  MapInv'
  <1>0. None \notin Inodes /\ DOMAIN current \subseteq Inodes /\ cancelled \in BOOLEAN
    BY CommandControllerAssumption DEF Typed, TypeOK
  <1>1. ASSUME UNCHANGED <<gates, users, conf, current>>, Halted => Halted',
               UNCHANGED <<pc, victim>> \/ victim = None \/ Halted'
        PROVE  MapInv'
    BY <1>0, <1>1, MapSteady
  <1>2. CASE List
    <2>1. victim = None /\ ~cancelled
      BY <1>2, VictimNone DEF List
    <2> QED
      BY <1>1, <1>2, <2>1 DEF List, mapVars, Halted
  <1>3. CASE VisitRead \/ VisitCheck \/ \E t \in Tasks : VisitOpen(t) \/ VisitFails(t)
    BY <1>1, <1>3 DEF VisitRead, VisitCheck, VisitOpen, VisitFails, mapVars, runVars, Halted
  <1>4. CASE ActivateDone
    <2>1. victim = None /\ pc' # "visit"
      BY <1>4, VictimNone DEF ActivateDone
    <2> QED
      BY <1>1, <1>4, <2>1 DEF ActivateDone, mapVars, runVars, Halted
  <1>5. CASE Attach \/ AttachFails \/ Tick \/ Timer \/ SelectDone
    <2>1. victim = None /\ pc' # "visit"
      BY <1>5, VictimNone DEF Attach, AttachFails, Tick, Timer, SelectDone
    <2>2. UNCHANGED <<gates, users, conf, current>> /\ (cancelled => cancelled')
      BY <1>5 DEF Attach, AttachFails, Tick, Timer, SelectDone, mapVars, runVars
    <2> QED
      BY <1>1, <2>1, <2>2 DEF Halted
  <1>6. ASSUME ScanFails, UNCHANGED <<gates, users, conf, current>> PROVE MapInv'
    <2>1. Halted'
      BY <1>6 DEF ScanFails, Halted
    <2> QED
      BY <1>1, <1>6, <2>1
  <1>7. CASE VisitCancelled \/ ListFails \/ DropFails
    BY <1>6, <1>7 DEF VisitCancelled, ListFails, DropFails, mapVars
  <1>8. CASE ActivateFails
    <2>1. CASE job = "timer"
      <3>1. Halted' /\ UNCHANGED <<gates, users, conf, current>>
        BY <1>8, <2>1 DEF ActivateFails, Halted, mapVars
      <3> QED
        BY <1>1, <3>1
    <2> QED
      BY <1>6, <1>8, <2>1 DEF ActivateFails, mapVars
  <1> QED
    BY <1>2, <1>3, <1>4, <1>5, <1>7, <1>8 DEF ScannerFails

(* Withdrawing a namespace: gate, users, handle. *)
LEMMA DropMap ==
    ASSUME Typed, ScanInv, HandleInv, MapInv,
           DropUser \/ DropLast \/ \E i \in Inodes : DropPending(i) \/ DropGate(i)
    PROVE  MapInv'
  <1>0. /\ None \notin Inodes /\ DOMAIN current \subseteq Inodes /\ pc = "visit" /\ ~Halted
        /\ pc' = pc /\ ~Halted'
    BY CommandControllerAssumption
       DEF Typed, TypeOK, Halted, DropUser, DropLast, DropPending, DropGate, Discovered, scanVars
  <1>1. ASSUME NEW i \in DOMAIN current, Forget(i), UNCHANGED <<gates, users, conf>>,
               gates[i] = NoGate, \A key \in users : key[1] # i,
               victim = None \/ victim = i
        PROVE  MapInv'
    <2>1. /\ DOMAIN current' = DOMAIN current \ {i}
          /\ \A j \in DOMAIN current' : current'[j] = current[j]
          /\ victim' = None
      BY <1>1, ForgetEffect
    <2>2. \A j \in DOMAIN current' : Rules(j)' = Rules(j)
      BY <1>1, <2>1 DEF Rules
    <2>3. OpenGateInv'
      BY <1>1, <2>1, <2>2 DEF MapInv, OpenGateInv
    <2>4. KeyInv'
      BY <1>0, <1>1, <2>1, <2>2 DEF MapInv, KeyInv
    <2>5. ActiveInv'
      BY <1>0, <1>1, <2>1 DEF MapInv, ActiveInv
    <2> QED
      BY <2>3, <2>4, <2>5 DEF MapInv
  <1>2. ASSUME NEW i \in Inodes, DropPending(i) PROVE MapInv'
    <2>1. i \in DOMAIN current /\ ~current[i].active /\ victim = None
      BY <1>2 DEF DropPending, Leaving, KnownOf
    <2>2. gates[i] = NoGate
      BY <2>1 DEF MapInv, OpenGateInv
    <2>3. \A key \in users : key[1] # i
      BY <1>0, <2>1 DEF MapInv, KeyInv
    <2> QED
      BY <1>1, <1>2, <2>1, <2>2, <2>3 DEF DropPending, mapVars
  <1>3. CASE DropLast
    <2>1. victim \in DOMAIN current /\ gates[victim] = NoGate
      BY <1>0, <1>3 DEF DropLast, ScanInv, Leaving, KnownOf
    <2>2. \A key \in users : key[1] # victim
      BY <1>3 DEF DropLast, MapInv, KeyInv
    <2> QED
      BY <1>1, <1>3, <2>1, <2>2 DEF DropLast, mapVars
  <1>4. ASSUME NEW i \in Inodes, DropGate(i) PROVE MapInv'
    <2>1. /\ UNCHANGED <<users, conf, current>> /\ victim' = i /\ victim = None
          /\ gates'[i] = NoGate /\ \A j \in Inodes : j # i => gates'[j] = gates[j]
      BY <1>4 DEF DropGate, Typed, TypeOK
    <2>2. \A j \in DOMAIN current : Rules(j)' = Rules(j)
      BY <2>1 DEF Rules
    <2>3. OpenGateInv'
      BY <2>1, <2>2 DEF MapInv, OpenGateInv
    <2>4. KeyInv'
      BY <1>0, <2>1, <2>2 DEF MapInv, KeyInv
    <2>5. ActiveInv'
      BY <1>0, <2>1 DEF MapInv, ActiveInv
    <2> QED
      BY <2>3, <2>4, <2>5 DEF MapInv
  <1>5. CASE DropUser
    <2>1. PICK key \in Rules(victim) \cap users : users' = users \ {key}
      BY <1>5 DEF DropUser
    <2>2. UNCHANGED <<gates, conf, current, victim>>
      BY <1>5 DEF DropUser, scanVars
    <2>3. victim # None /\ gates[victim] = NoGate /\ key[1] = victim
      BY <1>0, <1>5, <2>1 DEF DropUser, ScanInv, Rules
    <2>4. \A j : Rules(j)' = Rules(j)
      BY <2>2 DEF Rules
    <2>5. \A j : j # victim => key \notin Rules(j)
      BY <2>3 DEF Rules
    <2>6. OpenGateInv'
      BY <2>1, <2>2, <2>3, <2>4, <2>5 DEF MapInv, OpenGateInv
    <2>7. KeyInv'
      BY <1>0, <2>1, <2>2, <2>4 DEF MapInv, KeyInv
    <2>8. ActiveInv'
      BY <1>0, <2>2 DEF MapInv, ActiveInv
    <2> QED
      BY <2>6, <2>7, <2>8 DEF MapInv
  <1> QED
    BY <1>2, <1>3, <1>4, <1>5

(* Taking namespaces over and enabling them: users, then gate. *)
LEMMA AdoptMap ==
    ASSUME Typed, ScanInv, HandleInv, MapInv,
           Adopt \/ \E i \in Inodes : AddUser(i) \/ OpenGate(i)
    PROVE  MapInv'
  <1>0. None \notin Inodes /\ DOMAIN current \subseteq Inodes
    BY CommandControllerAssumption DEF Typed, TypeOK
  <1>1. CASE Adopt
    <2>1. /\ UNCHANGED <<gates, users, conf, victim, cancelled>> /\ pc = "visit"
          /\ pc' = "activate" /\ victim = None
      BY <1>1, VictimNone DEF Adopt, Discovered, mapVars, runVars
    <2>2. /\ DOMAIN current \subseteq DOMAIN current'
          /\ \A j \in DOMAIN current : current'[j] = current[j]
          /\ \A j \in DOMAIN current' \ DOMAIN current : ~current'[j].active
      BY <1>1, AdoptEffect
    <2>3. \A j \in DOMAIN current : Rules(j)' = Rules(j)
      BY <2>1, <2>2 DEF Rules
    <2>4. OpenGateInv'
      BY <2>1, <2>2, <2>3 DEF MapInv, OpenGateInv
    <2>5. KeyInv'
      BY <2>1, <2>2, <2>3 DEF MapInv, KeyInv, Halted
    <2>6. ActiveInv'
      BY <1>0, <2>1, <2>2 DEF MapInv, ActiveInv, Halted
    <2> QED
      BY <2>4, <2>5, <2>6 DEF MapInv
  <1>2. ASSUME NEW i \in Inodes, AddUser(i) PROVE MapInv'
    <2>1. PICK key \in Rules(i) \ users : users' = users \cup {key}
      BY <1>2 DEF AddUser
    <2>2. /\ UNCHANGED <<gates, conf, current, pc, cancelled>> /\ victim' = i
          /\ victim \in {None, i} /\ pc = "activate" /\ i \in DOMAIN current
      BY <1>2 DEF AddUser, runVars, ScanInv, Ripe, KnownOf
    <2>3. key[1] = i /\ \A j : Rules(j)' = Rules(j)
      BY <2>1, <2>2 DEF Rules
    <2>4. OpenGateInv'
      BY <2>1, <2>2, <2>3 DEF MapInv, OpenGateInv
    <2>5. KeyInv'
      BY <1>0, <2>1, <2>2, <2>3 DEF MapInv, KeyInv, Halted
    <2>6. ActiveInv'
      BY <2>2 DEF MapInv, ActiveInv, Halted
    <2> QED
      BY <2>4, <2>5, <2>6 DEF MapInv
  <1>3. ASSUME NEW i \in Inodes, OpenGate(i) PROVE MapInv'
    <2>1. /\ UNCHANGED <<users, conf, pc, cancelled>> /\ victim' = None
          /\ victim \in {None, i} /\ Rules(i) \subseteq users /\ pc = "activate"
      BY <1>3 DEF OpenGate, runVars
    <2>2. /\ i \in DOMAIN current /\ DOMAIN current' = DOMAIN current
          /\ \A j \in DOMAIN current : j # i => current'[j] = current[j]
          /\ current'[i].active /\ current'[i].map = current[i].map /\ i \in InodesOf(kind)
      BY <1>3, OpenEffect
    <2>3. /\ \A j \in Inodes : j # i => gates'[j] = gates[j]
          /\ gates'[i] = [root |-> IF kind = "user" THEN RuleRoot(current[i].map) ELSE 0,
                          gen |-> gen']
          /\ gen' > 0
      BY <1>3 DEF OpenGate, Typed, TypeOK
    <2>4. \A j \in DOMAIN current : Rules(j)' = Rules(j)
      BY <2>1, <2>2 DEF Rules
    <2>5. i \in UserInodes => kind = "user"
      BY <2>2, CommandControllerAssumption DEF InodesOf
    <2>6. OpenGateInv'
      BY <2>1, <2>2, <2>3, <2>4, <2>5 DEF MapInv, OpenGateInv
    <2>7. KeyInv'
      BY <1>0, <2>1, <2>2, <2>4 DEF MapInv, KeyInv, Halted
    <2>8. ActiveInv'
      <3>1. gates'[i] # NoGate
        BY <2>3 DEF NoGate
      <3> QED
        BY <1>0, <2>1, <2>2, <2>3, <3>1 DEF MapInv, ActiveInv, Halted
    <2> QED
      BY <2>6, <2>7, <2>8 DEF MapInv
  <1> QED
    BY <1>1, <1>2, <1>3

-----------------------------------------------------------------------------
(* The hook. *)

(* What a step of anyone else must leave a task that is in the hook. *)
LEMMA HookSteady ==
    ASSUME Typed, HookInv, UNCHANGED <<hook, conf>>, gen' \in Nat, gen <= gen',
           \A t \in Tasks : hook[t] # Idle =>
              /\ place'[t] = place[t]
              /\ uidmap'[place[t].user] = uidmap[place[t].user]
              /\ \A i \in {place[t].user, place[t].mnt} : i \in graced => i \in graced'
              /\ gates'[place[t].user].gen = hook[t].gen => gates[place[t].user].gen = hook[t].gen
    PROVE  HookInv'
  <1> SUFFICES ASSUME NEW t \in Tasks, hook[t] # Idle PROVE HookGood(t)'
    BY DEF HookInv
  <1>1. HookGood(t)
    BY DEF HookInv
  <1>2. hook[t] \in HookStates /\ gen \in Nat
    BY DEF Typed, TypeOK
  <1>3. hook[t].gen \in Nat /\ hook[t].mgen \in Nat
    BY <1>2 DEF HookStates
  <1> QED
    BY <1>1, <1>2, <1>3 DEF HookGood

LEMMA KernelHook ==
    ASSUME Typed, HookInv, Kernel
    PROVE  HookInv'
  <1>0. gen \in Nat /\ gen <= gen
    BY DEF Typed, TypeOK
  <1>1. ASSUME NEW t \in Tasks, NEW u \in UserInodes, NEW m \in MountInodes, Enter(t, u, m),
               hook[t] = Idle
        PROVE  HookInv'
    <2>1. UNCHANGED <<hook, conf, gates, gen>>
      BY <1>1 DEF Enter, mapVars
    <2>2. ASSUME NEW x \in Tasks, hook[x] # Idle
          PROVE  /\ place'[x] = place[x]
                 /\ uidmap'[place[x].user] = uidmap[place[x].user]
                 /\ \A i \in {place[x].user, place[x].mnt} : i \in graced => i \in graced'
      <3>1. place[x] # Gone /\ x # t
        BY <1>1, <2>2 DEF HookInv, HookGood
      <3>2. place[x].user \in UserInodes
        BY <3>1, PlaceType
      <3>3. place[x].user \notin Free /\ place[x].mnt \notin Free
        BY <3>1 DEF Free, Inhabited, Present
      <3> QED
        BY <1>1, <3>1, <3>2, <3>3 DEF Enter, Typed, TypeOK
    <2> QED
      BY <1>0, <2>1, <2>2, HookSteady
  <1>2. ASSUME NEW t \in Tasks, Start(t) \/ Unshare(t) PROVE HookInv'
    <2>1. hook[t] = Idle
      BY <1>2 DEF Start, Unshare, HookInv, HookGood
    <2> QED
      BY <1>1, <1>2, <2>1, PlaceType DEF Start, Unshare
  <1>3. ASSUME NEW t \in Tasks, Exit(t) PROVE HookInv'
    <2>1. UNCHANGED <<hook, conf, gates, gen, uidmap, graced>> /\ hook[t] = Idle
      BY <1>3 DEF Exit, mapVars
    <2>2. \A x \in Tasks : hook[x] # Idle => place'[x] = place[x]
      BY <1>3, <2>1 DEF Exit, Typed, TypeOK
    <2> QED
      BY <1>0, <2>1, <2>2, HookSteady
  <1>4. ASSUME NEW i \in UserInodes, WriteMap(i) PROVE HookInv'
    <2>1. UNCHANGED <<hook, conf, gates, gen, place, graced>>
      BY <1>4 DEF WriteMap, mapVars
    <2>2. \A x \in Tasks : hook[x] # Idle => uidmap[place[x].user] # <<>> /\ place[x] # Gone
      BY DEF HookInv, HookGood
    <2>3. \A x \in Tasks : hook[x] # Idle => uidmap'[place[x].user] = uidmap[place[x].user]
      BY <1>4, <2>2, PlaceType DEF WriteMap, Typed, TypeOK
    <2> QED
      BY <1>0, <2>1, <2>3, HookSteady
  <1> QED
    BY <1>2, <1>3, <1>4 DEF Kernel

(* A gate that is opened has a generation no hook has seen, a gate that is *)
(* closed has none.                                                        *)
LEMMA ScannerHook ==
    ASSUME Typed, HookInv,
           \/ Scanner \/ ScannerFails \/ Tick \/ Timer \/ SelectDone
           \/ Reader \/ Cancel \/ UNCHANGED vars
           \/ \E i \in Inodes : GraceEnds(i)
    PROVE  HookInv'
  <1>0. gen \in Nat /\ gen <= gen
    BY DEF Typed, TypeOK
  <1>1. ASSUME UNCHANGED <<hook, conf, gates, gen, place, uidmap>>, graced \subseteq graced'
        PROVE  HookInv'
    BY <1>0, <1>1, HookSteady
  <1>2. ASSUME UNCHANGED <<kernelVars, hook, conf, gates, gen>> PROVE HookInv'
    BY <1>1, <1>2 DEF kernelVars
  <1>3. ASSUME UNCHANGED <<kernelVars, hook, conf, mapVars>> PROVE HookInv'
    BY <1>2, <1>3 DEF mapVars
  <1>4. CASE List \/ VisitRead \/ VisitCheck \/ VisitCancelled \/ \E t \in Tasks : VisitOpen(t)
    BY <1>3, <1>4 DEF List, VisitRead, VisitCheck, VisitCancelled, VisitOpen
  <1>5. CASE DropLast \/ Adopt \/ ActivateDone \/ Attach \/ \E i \in Inodes : DropPending(i)
    BY <1>3, <1>5 DEF DropLast, Adopt, ActivateDone, Attach, DropPending
  <1>6. CASE ScannerFails
    BY <1>3, <1>6 DEF ScannerFails, ListFails, DropFails, ActivateFails, AttachFails, VisitFails
  <1>7. CASE Tick \/ Timer \/ SelectDone \/ Reader \/ Cancel \/ UNCHANGED vars
    BY <1>3, <1>7 DEF Tick, Timer, SelectDone, Reader, ReadEnds, Return, Cancel, vars
  <1>8. CASE DropUser \/ \E i \in Inodes : AddUser(i)
    BY <1>2, <1>8 DEF DropUser, AddUser
  <1>9. ASSUME NEW i \in Inodes, GraceEnds(i) PROVE HookInv'
    BY <1>1, <1>9 DEF GraceEnds, mapVars
  <1>10. ASSUME NEW i \in Inodes, DropGate(i) \/ OpenGate(i) PROVE HookInv'
    <2>1. UNCHANGED <<hook, conf, place, uidmap, graced>>
      BY <1>10 DEF DropGate, OpenGate, kernelVars
    <2>2. gen' \in Nat /\ gen <= gen'
      BY <1>0, <1>10 DEF DropGate, OpenGate
    <2>3. (gates'[i].gen = 0 \/ gates'[i].gen = gen + 1) /\ \A j \in Inodes : j # i => gates'[j] = gates[j]
      BY <1>10 DEF DropGate, OpenGate, NoGate, Typed, TypeOK
    <2>4. ASSUME NEW t \in Tasks, hook[t] # Idle,
                 gates'[place[t].user].gen = hook[t].gen
          PROVE  gates[place[t].user].gen = hook[t].gen
      <3>1. hook[t].gen \in 1 .. gen /\ place[t] # Gone
        BY <2>4 DEF HookInv, HookGood
      <3>2. place[t].user \in Inodes
        BY <3>1, PlaceType
      <3> QED
        BY <1>0, <2>3, <2>4, <3>1, <3>2
    <2> QED
      BY <2>1, <2>2, <2>4, HookSteady
  <1> QED
    BY <1>4, <1>5, <1>6, <1>7, <1>8, <1>9, <1>10 DEF Scanner

(* An open gate stands for the mapping of the namespace and its grace period. *)
LEMMA OpenGateMeans ==
    ASSUME Typed, HandleInv, MapInv, NEW i \in Inodes, gates[i].gen > 0
    PROVE  /\ gates[i] # NoGate /\ gates[i].gen \in 1 .. gen /\ i \in graced
           /\ i \in UserInodes =>
                /\ uidmap[i] \in Maps
                /\ gates[i].root = RuleRoot(uidmap[i])
                /\ \A uid : <<i, uid>> \in users <=> uid \in RuleUsers(uidmap[i], conf.uids)
  <1>1. gates[i] # NoGate
    BY DEF NoGate
  <1>2. /\ i \in DOMAIN current /\ current[i].active /\ Rules(i) \subseteq users
        /\ i \in UserInodes => gates[i].root = RuleRoot(current[i].map)
    BY <1>1 DEF MapInv, OpenGateInv
  <1>3. i \in graced /\ GoodMap(i, current[i].map)
    BY <1>2 DEF HandleInv, CurrentInv
  <1>4. gates[i].gen \in 1 .. gen
    BY DEF Typed, TypeOK
  <1>5. ASSUME i \in UserInodes
        PROVE  /\ uidmap[i] \in Maps
               /\ gates[i].root = RuleRoot(uidmap[i])
               /\ \A uid : <<i, uid>> \in users <=> uid \in RuleUsers(uidmap[i], conf.uids)
    <2>1. current[i].map = uidmap[i] /\ uidmap[i] \in Maps
      BY <1>3, <1>5 DEF GoodMap, Typed, TypeOK
    <2>2. \A uid : <<i, uid>> \in Rules(i) <=> uid \in RuleUsers(uidmap[i], conf.uids)
      BY <2>1 DEF Rules
    <2>3. \A uid : <<i, uid>> \in users => <<i, uid>> \in Rules(i)
      BY DEF MapInv, KeyInv
    <2> QED
      BY <1>2, <1>5, <2>1, <2>2, <2>3
  <1> QED
    BY <1>1, <1>3, <1>4, <1>5

LEMMA HookHook ==
    ASSUME IInv, NEW t \in Tasks, HookEnter(t) \/ Hook(t)
    PROVE  HookInv'
  <1> USE DEF IInv
  <1>1. ASSUME NEW s, HookStep(t, s), s # Idle => HookGood(t)' PROVE HookInv'
    <2>1. /\ \A x \in Tasks : x # t => hook'[x] = hook[x]
          /\ hook'[t] = s
          /\ UNCHANGED <<place, uidmap, graced, gen, gates, conf>>
      BY <1>1 DEF HookStep, kernelVars, mapVars, Typed
    <2>2. \A x \in Tasks : x # t /\ HookGood(x) => HookGood(x)'
      BY <2>1 DEF HookGood
    <2> QED
      BY <1>1, <2>1, <2>2 DEF HookInv
  <1>2. ASSUME NEW s, HookStep(t, s)
        PROVE  hook'[t] = s /\ UNCHANGED <<place, uidmap, graced, gen, gates, conf>>
    BY <1>2 DEF HookStep, kernelVars, mapVars, Typed
  <1>3. CASE HookEnter(t)
    <2> DEFINE u == place[t].user
               st(a) == [at |-> "mount", uid |-> a.uid, euid |-> a.euid, cmd |-> a.cmd,
                         gen |-> gates[u].gen, mgen |-> 0]
    <2>1. PICK a \in Attempts :
            /\ 0 \notin {a.uid, a.euid} /\ gates[u] # NoGate /\ gates[u].root \notin {a.uid, a.euid}
            /\ HookStep(t, st(a)) /\ place[t] # Gone
      BY <1>3 DEF HookEnter
    <2>2. u \in Inodes /\ u \in UserInodes
      BY <2>1, PlaceType
    <2>3. gates[u].gen > 0
      BY <2>1, <2>2 DEF MapInv, OpenGateInv
    <2>4. /\ gates[u].gen \in 1 .. gen /\ u \in graced /\ uidmap[u] \in Maps
          /\ gates[u].root = RuleRoot(uidmap[u])
      BY <2>2, <2>3, OpenGateMeans
    <2>5. a.uid \in HostUids /\ a.euid \in HostUids
      BY CommandControllerAssumption
    <2>6. ~IsRoot(a.uid, uidmap[u]) /\ ~IsRoot(a.euid, uidmap[u])
      BY <2>1, <2>4, <2>5, RootIsExcluded
    <2>7. uidmap[u] # <<>>
      BY <2>4, CommandPolicyAssumption
    <2>8. hook'[t] = st(a) /\ UNCHANGED <<place, uidmap, graced, gen, gates, conf>>
      BY <1>2, <2>1
    <2>9. HookGood(t)'
      BY <2>1, <2>4, <2>6, <2>7, <2>8 DEF HookGood
    <2> QED
      BY <1>1, <2>1, <2>9
  <1>4. CASE Hook(t)
    <2> DEFINE u == place[t].user  m == place[t].mnt  h == hook[t]
    <2>1. hook[t] \in HookStates /\ hook[t] # Idle
      BY <1>4 DEF Hook, HookMount, HookRules, HookAgain, HookMountAgain, HookHit, Typed, Idle
    <2>2. HookGood(t)
      BY <2>1 DEF HookInv
    <2>3. u \in Inodes /\ u \in UserInodes /\ m \in Inodes
      BY <2>2, PlaceType DEF HookGood
    <2>4. uidmap[u] \in Maps
      BY <2>2, <2>3 DEF HookGood, Typed, TypeOK
    <2>5. ASSUME NEW at \in {"again", "mountagain", "hit"}, h.at # "mount",
                 HookStep(t, [h EXCEPT !.at = at]),
                 gates[u].gen = h.gen \/ at # "again" => PolicySelects(conf, h.uid, uidmap[u], h.cmd),
                 at = "hit" => m \in graced
          PROVE  HookInv'
      <3>1. /\ hook'[t] = [h EXCEPT !.at = at]
            /\ UNCHANGED <<place, uidmap, graced, gen, gates, conf>>
        BY <1>2, <2>5
      <3>2. /\ hook'[t].at = at /\ hook'[t].uid = h.uid /\ hook'[t].euid = h.euid
            /\ hook'[t].cmd = h.cmd /\ hook'[t].gen = h.gen /\ hook'[t].mgen = h.mgen
        BY <2>1, <3>1 DEF HookStates
      <3>3. HookGood(t)'
        BY <2>2, <2>5, <3>1, <3>2 DEF HookGood
      <3> QED
        BY <1>1, <2>5, <3>3
    <2>6. ASSUME HookStep(t, Idle) PROVE HookInv'
      BY <1>1, <2>6
    <2>7. CASE HookMount(t)
      <3>1. CASE gates[m] = NoGate
        BY <2>6, <2>7, <3>1 DEF HookMount
      <3>2. CASE gates[m] # NoGate
        <4>1. gates[m].gen \in 1 .. gen
          <5>1. gates[m].gen > 0
            BY <2>3, <3>2 DEF MapInv, OpenGateInv
          <5> QED
            BY <2>3, <5>1, OpenGateMeans
        <4>2. HookStep(t, [h EXCEPT !.at = "rules", !.mgen = gates[m].gen])
          BY <2>7, <3>2 DEF HookMount
        <4>3. /\ hook'[t] = [h EXCEPT !.at = "rules", !.mgen = gates[m].gen]
              /\ UNCHANGED <<place, uidmap, graced, gen, gates, conf>>
          BY <1>2, <4>2
        <4>4. /\ hook'[t].at = "rules" /\ hook'[t].uid = h.uid /\ hook'[t].euid = h.euid
              /\ hook'[t].gen = h.gen /\ hook'[t].mgen = gates[m].gen
          BY <2>1, <4>3 DEF HookStates
        <4>5. HookGood(t)'
          BY <2>2, <4>1, <4>3, <4>4 DEF HookGood
        <4> QED
          BY <1>1, <4>2, <4>5
      <3> QED
        BY <3>1, <3>2
    <2>8. CASE HookRules(t)
      <3>1. CASE HookSelects(t)
        <4>1. HookStep(t, [h EXCEPT !.at = "again"]) /\ h.at = "rules"
          BY <2>8, <3>1 DEF HookRules
        <4>2. ASSUME gates[u].gen = h.gen PROVE PolicySelects(conf, h.uid, uidmap[u], h.cmd)
          <5>1. gates[u].gen > 0
            BY <2>2, <4>2 DEF HookGood, Typed, TypeOK
          <5>2. <<u, h.uid>> \in users <=> h.uid \in RuleUsers(uidmap[u], conf.uids)
            BY <2>3, <5>1, OpenGateMeans
          <5>3. (<<u, h.uid>> \in users) = (h.uid \in RuleUsers(uidmap[u], conf.uids))
            BY <5>2
          <5>4. conf \in Policies /\ h.uid \in HostUids
            BY <2>1 DEF Typed, HookStates
          <5>5. WouldBlock(conf.block, Selected(conf.uids # {}, conf.commands,
                    h.uid \in RuleUsers(uidmap[u], conf.uids), h.cmd = "listed"))
            BY <3>1, <5>3 DEF HookSelects
          <5> QED
            BY <2>4, <5>4, <5>5, DecisionIsMeant
        <4> QED
          BY <2>5, <4>1, <4>2
      <3>2. CASE ~HookSelects(t)
        BY <2>6, <2>8, <3>2 DEF HookRules
      <3> QED
        BY <3>1, <3>2
    <2>9. CASE HookAgain(t)
      <3>1. CASE gates[u].gen = h.gen
        <4>1. HookStep(t, [h EXCEPT !.at = "mountagain"]) /\ h.at = "again"
          BY <2>9, <3>1 DEF HookAgain, GateUnchanged
        <4>2. PolicySelects(conf, h.uid, uidmap[u], h.cmd)
          BY <2>2, <3>1, <4>1 DEF HookGood
        <4> QED
          BY <2>5, <4>1, <4>2
      <3>2. CASE gates[u].gen # h.gen
        BY <2>6, <2>9, <3>2 DEF HookAgain, GateUnchanged
      <3> QED
        BY <3>1, <3>2
    <2>10. CASE HookMountAgain(t)
      <3>1. CASE gates[m].gen = h.mgen
        <4>1. HookStep(t, [h EXCEPT !.at = "hit"]) /\ h.at = "mountagain"
          BY <2>10, <3>1 DEF HookMountAgain, GateUnchanged
        <4>2. PolicySelects(conf, h.uid, uidmap[u], h.cmd)
          BY <2>2, <4>1 DEF HookGood
        <4>3. gates[m].gen > 0
          BY <2>2, <3>1, <4>1 DEF HookGood, Typed, TypeOK
        <4>4. m \in graced
          BY <2>3, <4>3, OpenGateMeans
        <4> QED
          BY <2>5, <4>1, <4>2, <4>4
      <3>2. CASE gates[m].gen # h.mgen
        BY <2>6, <2>10, <3>2 DEF HookMountAgain, GateUnchanged
      <3> QED
        BY <3>1, <3>2
    <2>11. CASE HookHit(t)
      BY <2>6, <2>11 DEF HookHit
    <2> QED
      BY <1>4, <2>7, <2>8, <2>9, <2>10, <2>11 DEF Hook
  <1> QED
    BY <1>3, <1>4

-----------------------------------------------------------------------------
(* The invariant, and what follows from it. *)

LEMMA InitIInv == Init => IInv
  <1> SUFFICES ASSUME Init PROVE IInv
    OBVIOUS
  <1>1. Typed
    <2>1. FirstPlace \in [user : UserInodes, mnt : MountInodes]
      BY CommandControllerAssumption DEF FirstPlace
    <2>2. NoGate \in [root : 0 .. MaxUid, gen : 0 .. 0]
      BY CommandPolicyAssumption DEF NoGate
    <2>3. starts \in 0 .. MaxStarts /\ faults \in 0 .. MaxFaults
      BY CommandControllerAssumption DEF Init
    <2>4. place \in [Tasks -> [user : UserInodes, mnt : MountInodes] \cup {Gone}]
      BY <2>1 DEF Init
    <2>5. gates \in [Inodes -> [root : 0 .. MaxUid, gen : 0 .. gen]]
      BY <2>2 DEF Init
    <2>6. uidmap \in [UserInodes -> Maps \cup {<<>>}]
      BY DEF Init
    <2>7. DOMAIN current = {} /\ DOMAIN desired = {}
      BY DEF Init
    <2>8. TypeOK
      BY <2>3, <2>4, <2>5, <2>6, <2>7 DEF Init, TypeOK
    <2> QED
      BY <2>8 DEF Init, Typed
  <1>2. ScanInv
    BY DEF Init, ScanInv
  <1>3. HandleInv
    BY DEF Init, HandleInv, DesiredInv, CurrentInv, ProbeInv
  <1>4. MapInv
    BY DEF Init, MapInv, OpenGateInv, KeyInv, ActiveInv
  <1>5. HookInv
    BY DEF Init, HookInv
  <1> QED
    BY <1>1, <1>2, <1>3, <1>4, <1>5 DEF IInv

LEMMA NextIInv == IInv /\ [Next]_vars => IInv'
  <1> SUFFICES ASSUME IInv, [Next]_vars PROVE IInv'
    OBVIOUS
  <1> USE DEF IInv
  <1>1. CASE Kernel
    BY <1>1, KernelTyped, OthersScan, KernelHandle, OthersMap, KernelHook
  <1>2. CASE Scanner
    <2>1. Typed'
      BY <1>2, VisitTyped, FailsTyped, SyncTyped, ActivateTyped, RunTyped DEF Scanner
    <2>2. MapInv'
      BY <1>2, MovesMap, DropMap, AdoptMap DEF Scanner
    <2> QED
      BY <1>2, <2>1, <2>2, ScannerScan, ScannerHandle, ScannerHook
  <1>3. CASE ScannerFails
    BY <1>3, FailsTyped, ScannerScan, ScannerHandle, MovesMap, ScannerHook
  <1>4. CASE Reader \/ Cancel \/ UNCHANGED vars
    BY <1>4, RunTyped, OthersScan, OthersHandle, OthersMap, ScannerHook
  <1>5. CASE Tick \/ Timer \/ SelectDone
    BY <1>5, RunTyped, ScannerScan, ScannerHandle, MovesMap, ScannerHook
  <1>6. CASE \E i \in Inodes : GraceEnds(i)
    BY <1>6, RunTyped, OthersScan, ScannerHandle, OthersMap, ScannerHook
  <1>7. ASSUME NEW t \in Executors, HookEnter(t) \/ Hook(t) PROVE IInv'
    <2>1. t \in Tasks
      BY CommandControllerAssumption
    <2> QED
      BY <1>7, <2>1, HookTyped, OthersScan, OthersHandle, OthersMap, HookHook
  <1> QED
    BY <1>1, <1>2, <1>3, <1>4, <1>5, <1>6, <1>7 DEF Next

LEMMA SpecIInv == Spec => []IInv
  BY InitIInv, NextIInv, PTL DEF Spec

(* Every variable of the controller, the BPF maps and the hook has its     *)
(* type, however many tasks, namespaces and failing calls there are: in    *)
(* particular only IDs that fit are written to the maps, since a mapping   *)
(* whose rules fail (commandNamespaceRules) is never taken over.           *)
THEOREM ControllerTyped == Spec => []TypeOK
  <1>1. IInv => TypeOK
    BY DEF IInv, Typed
  <1> QED
    BY <1>1, SpecIInv, PTL

(* An attempt that the BPF program logs or denies is never root's, is      *)
(* selected by the policy under the mapping of the task's own user         *)
(* namespace, and was made in two namespaces that had their grace period,  *)
(* whatever scanner, kernel and other tasks did between its lookups.       *)
THEOREM PolicyIsFollowed == Spec => []HitsFollowPolicy
  <1>1. IInv => HitsFollowPolicy
    <2> SUFFICES ASSUME IInv, NEW t \in Tasks, hook[t].at = "hit"
                 PROVE  LET map == uidmap[place[t].user] IN
                        /\ ~IsRoot(hook[t].uid, map) /\ ~IsRoot(hook[t].euid, map)
                        /\ PolicySelects(conf, hook[t].uid, map, hook[t].cmd)
                        /\ {place[t].user, place[t].mnt} \subseteq graced
      BY DEF HitsFollowPolicy
    <2>1. HookGood(t)
      BY DEF IInv, HookInv, Idle
    <2> QED
      BY <2>1 DEF HookGood
  <1> QED
    BY <1>1, SpecIInv, PTL

(* When the scanner is back in its select and the controller was not       *)
(* cancelled, the maps of the BPF program hold exactly the namespaces that *)
(* it has enabled, with exactly their users: no failed update, lost task   *)
(* or reused inode number leaves a gate or a user key behind.              *)
THEOREM MapsStayInStep == Spec => []MapsInStep
  <1>1. IInv => MapsInStep
    <2> SUFFICES ASSUME IInv, pc = "select", ~cancelled PROVE MapsInStep
      BY DEF MapsInStep
    <2>1. MapInv /\ DOMAIN current \subseteq Inodes /\ ~Halted
      BY DEF IInv, Typed, TypeOK, Halted
    <2>2. \A i \in Inodes : gates[i] # NoGate <=> i \in DOMAIN current /\ current[i].active
      BY <2>1 DEF MapInv, OpenGateInv, ActiveInv
    <2>3. \A i \in Inodes : (gates[i] # NoGate) = (i \in DOMAIN current /\ current[i].active)
      <3>1. \A i \in DOMAIN current : current[i].active \in BOOLEAN
        BY DEF IInv, Typed, TypeOK
      <3> QED
        BY <2>2, <3>1
    <2>4. ASSUME NEW key \in users
          PROVE  key \in UNION {Rules(i) : i \in {j \in DOMAIN current : current[j].active}}
      BY <2>1, <2>4 DEF MapInv, KeyInv
    <2>5. ASSUME NEW i \in DOMAIN current, current[i].active PROVE Rules(i) \subseteq users
      BY <2>1, <2>2, <2>5 DEF MapInv, OpenGateInv
    <2> QED
      BY <2>3, <2>4, <2>5 DEF MapsInStep
  <1> QED
    BY <1>1, SpecIInv, PTL

=============================================================================
