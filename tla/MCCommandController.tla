------------------------ MODULE MCCommandController ------------------------
(* A small instance: the target user 1 is host UID 11 or 12; root is 10 or not mapped. *)
EXTENDS CommandController

CONSTANTS t1, t2, u1, u2, m1, m2

Line(i, o, n) == [inside |-> i, outside |-> o, count |-> n]

MCMaps == {<<Line(0, 10, 2)>>, <<Line(1, 12, 1), Line(5, 10, 1)>>}
GatePolicies == {[block |-> "negative", uids |-> {1}, commands |-> TRUE]}
LivePolicies == {[block |-> "positive", uids |-> {1}, commands |-> FALSE]}

MCAttempts == {[uid |-> 11, euid |-> 11, cmd |-> "listed"],
               [uid |-> 12, euid |-> 10, cmd |-> "listed"]}

(* The decision over the translated IDs is the one that is meant, for every policy. *)
ASSUME DecisionAgrees ==
    \A p \in [block : {"positive", "negative"}, uids : SUBSET {0, 1, 5}, commands : BOOLEAN],
       map \in MCMaps, host \in 0 .. MaxUid - 1, cmd \in Commands :
        WouldBlock(p.block, Selected(p.uids # {}, p.commands, host \in RuleUsers(map, p.uids),
                                     cmd = "listed"))
            = PolicySelects(p, host, map, cmd)
=============================================================================
