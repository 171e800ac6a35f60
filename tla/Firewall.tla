------------------------------ MODULE Firewall ------------------------------
(***************************************************************************)
(* pkg/banpool/firewall.go: the rules the agent keeps in the kernel's      *)
(* packet filter, one DROP rule per chain for every banned address.        *)
(*                                                                         *)
(* Every call runs external commands (iptables, nft, firewall-cmd).  Each  *)
(* command may fail; a call is one step here because the ban pool's mutex  *)
(* is held around it, and a crash between two commands leaves the rules    *)
(* that a failure of the remaining commands would leave.                   *)
(*                                                                         *)
(* A chain holds a bag of rules: iptables and nft insert a second copy     *)
(* when asked to, firewalld does not.                                      *)
(***************************************************************************)
EXTENDS Integers

CONSTANTS
    IPs,            \* addresses the monitors may ask to ban
    InvalidIPs,     \* captured texts that net.ParseIP rejects
    RefusedIPs,     \* these, and the IPv4 addresses ending in .0 or .255
    Chains,         \* FirewallChains left by filterDockerChainsWithoutDockerEngine
    Engine,         \* config: "iptables", "nftables" or "firewalld"
    Faults,         \* the kinds of failure this instance injects
    MaxFaults,      \* bound: how many steps may fail
    MaxCopies       \* bound: copies of one rule in one chain

ASSUME FirewallAssumption ==
    /\ InvalidIPs \subseteq RefusedIPs
    /\ RefusedIPs \subseteq IPs
    /\ Engine \in {"iptables", "nftables", "firewalld"}
    /\ Faults \subseteq {"check", "insert", "delete", "db"}
    /\ MaxFaults \in Nat
    /\ MaxCopies \in Nat \ {0}

VARIABLES
    rules,          \* rules[ip][chain]: copies of the DROP rule for ip
    budget          \* failures that may still happen

NoRules == [c \in Chains |-> 0]

(* A failure of kind k happens in this step. *)
Fault(k) == /\ k \in Faults
            /\ budget > 0
            /\ budget' = budget - 1

(* Every command of this step succeeds. *)
NoFault == budget' = budget

(***************************************************************************)
(* What the three tools do with a rule that is there already: iptables     *)
(* --insert and nft insert add a copy, --add-rich-rule answers that the    *)
(* rule is enabled.  iptables --delete removes one copy, nft deletes every *)
(* handle it listed, --remove-rich-rule removes the one rule.              *)
(***************************************************************************)
Inserted(n) == IF Engine = "firewalld" THEN 1 ELSE n + 1
Deleted(n) == IF Engine = "iptables" THEN n - 1 ELSE 0

(* hasRule: a check command that fails reads as "there is no rule". *)
HasRule(ip, seen) ==
    LET present == {c \in Chains : rules[ip][c] > 0}
    IN  /\ seen \subseteq present
        /\ seen # present => "check" \in Faults

(***************************************************************************)
(* The commands of one call that fail: the chains whose check failed       *)
(* (unseen) and whose insert or delete failed.  One failing call costs one *)
(* unit of the budget.                                                     *)
(***************************************************************************)
Failures(ip, seen, failed, kind) ==
    /\ failed # {} => kind \in Faults
    /\ IF failed = {} /\ seen = {c \in Chains : rules[ip][c] > 0}
       THEN NoFault
       ELSE budget > 0 /\ budget' = budget - 1

(* Ban returns nil: no chain at all, or some chain has the rule now. *)
BanSucceeds(failed) == Chains = {} \/ failed # Chains

(***************************************************************************)
(* Ban: every chain without a visible rule gets one; it is an error only   *)
(* when no chain succeeded.                                                *)
(***************************************************************************)
Ban(ip, ok) ==
    IF ip \in RefusedIPs
    THEN ok = FALSE /\ NoFault /\ UNCHANGED rules
    ELSE \E seen, failed \in SUBSET Chains :
            /\ HasRule(ip, seen)
            /\ failed \cap seen = {}
            /\ \A c \in Chains \ (seen \cup failed) : rules[ip][c] < MaxCopies
            /\ Failures(ip, seen, failed, "insert")
            /\ ok = BanSucceeds(failed)
            /\ rules' = [rules EXCEPT ![ip] = [c \in Chains |->
                            IF c \in seen \cup failed THEN @[c] ELSE Inserted(@[c])]]

(* Copies left in a chain whose delete failed: nft may have deleted some. *)
Leftover(n) == IF Engine = "nftables" THEN 1 .. n ELSE {n}

(***************************************************************************)
(* Unban: every chain with a visible rule loses it; any failing chain is   *)
(* an error, but the other chains are done all the same.                   *)
(***************************************************************************)
Unban(ip, ok) ==
    IF ip \in InvalidIPs
    THEN ok = FALSE /\ NoFault /\ UNCHANGED rules
    ELSE \E seen, failed \in SUBSET Chains :
            /\ HasRule(ip, seen)
            /\ failed \subseteq seen
            /\ Failures(ip, seen, failed, "delete")
            /\ ok = (failed = {})
            /\ \E left \in [Chains -> 0 .. MaxCopies] :
                /\ \A c \in Chains :
                    left[c] \in IF c \in failed THEN Leftover(rules[ip][c])
                                ELSE IF c \in seen THEN {Deleted(rules[ip][c])}
                                ELSE {rules[ip][c]}
                /\ rules' = [rules EXCEPT ![ip] = left]
=============================================================================
