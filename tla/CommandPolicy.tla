---------------------------- MODULE CommandPolicy ----------------------------
(***************************************************************************)
(* pkg/user-command-controller-policy/policy.go and the decision of the    *)
(* BPF program: which attempts to execute a command the policy selects,    *)
(* and how user IDs of a user namespace are translated to host UIDs.       *)
(*                                                                         *)
(* A uid_map is a sequence of lines [inside, outside, count].  A command   *)
(* is abstracted to how it compares with target_commands: "listed",        *)
(* "other", or "long" (a basename that does not fit into command_key).     *)
(***************************************************************************)
EXTENDS Integers, Sequences

CONSTANTS
    Maps,           \* the uid_maps of user namespaces
    HostUids,       \* host UIDs of the tasks
    MaxUid,         \* 4294967295, which is also unmappedRootUID
    Policies        \* configurations: [block, uids, commands]

ASSUME CommandPolicyAssumption ==
    /\ MaxUid \in Nat
    /\ Maps \subseteq Seq([inside : Nat, outside : Nat, count : Nat \ {0}]) \ {<<>>}
    /\ HostUids \subseteq 0 .. MaxUid - 1
    /\ Policies \subseteq [block : {"positive", "negative"},
                           uids : SUBSET (0 .. MaxUid - 1), commands : BOOLEAN]

(* The kernel refuses a uid_map in which two lines hold the same ID of the *)
(* namespace (user_namespaces(7)).                                         *)
ASSUME LinesDoNotOverlap ==
    \A map \in Maps : \A j, k \in DOMAIN map :
        j # k => \/ map[j].inside + map[j].count <= map[k].inside
                 \/ map[k].inside + map[k].count <= map[j].inside

Commands == {"listed", "other", "long"}

(* The lines of a map that hold a user ID of the namespace. *)
Covering(uid, map) ==
    {k \in DOMAIN map : uid >= map[k].inside /\ uid - map[k].inside < map[k].count}

Unmapped == -1
Overflow == -2

(* HostUID: the first line that holds the ID translates it. *)
HostUID(uid, map) ==
    IF Covering(uid, map) = {} THEN Unmapped
    ELSE LET k == CHOOSE i \in Covering(uid, map) : \A j \in Covering(uid, map) : i <= j
             mapped == map[k].outside + (uid - map[k].inside)
         IN  IF mapped > MaxUid THEN Overflow ELSE mapped

(* commandNamespaceRules fails when a translation does. *)
RulesFail(map, uids) == \E uid \in uids \cup {0} : HostUID(uid, map) = Overflow

RuleUsers(map, uids) == {HostUID(uid, map) : uid \in uids} \ {Unmapped}

(* Seeded fault: a mapping without root keeps the "not found" of HostUID. *)
RuleRootRaw(map) == HostUID(0, map)

RuleRoot(map) == IF HostUID(0, map) = Unmapped THEN MaxUid ELSE HostUID(0, map)

(* Selected and WouldBlock, here and in the BPF program. *)
Selected(hasUsers, hasCommands, userMatch, commandMatch) ==
    /\ hasUsers \/ hasCommands
    /\ hasUsers => userMatch
    /\ hasCommands => commandMatch

WouldBlock(block, selected) == IF block = "positive" THEN selected ELSE ~selected

-----------------------------------------------------------------------------
(***************************************************************************)
(* What is meant, independent of the translation: a task is a target user  *)
(* if the kernel maps some listed ID to its host UID, and root if the      *)
(* kernel maps 0 to it.                                                    *)
(***************************************************************************)
KernelMaps(uid, host, map) ==
    \E k \in DOMAIN map : /\ uid \in map[k].inside .. map[k].inside + map[k].count - 1
                          /\ host = map[k].outside + (uid - map[k].inside)

IsRoot(host, map) == host = 0 \/ KernelMaps(0, host, map)

(* Both lists must match; an empty list sets no condition; two empty lists *)
(* match nothing.                                                          *)
Matches(policy, host, map, cmd) ==
    /\ policy.uids # {} \/ policy.commands
    /\ policy.uids = {} \/ \E uid \in policy.uids : KernelMaps(uid, host, map)
    /\ ~policy.commands \/ cmd = "listed"

PolicySelects(policy, host, map, cmd) ==
    (policy.block = "positive") = Matches(policy, host, map, cmd)
=============================================================================
