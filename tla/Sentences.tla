------------------------------ MODULE Sentences ------------------------------
(***************************************************************************)
(* What the ban pool promises, without its table, its firewall, its        *)
(* goroutines and its mutex: every address serves the sentence it was      *)
(* given.  An address is free, asked for (a ban is wanted and not in       *)
(* force), held, or stray: still held, and forgotten.                      *)
(***************************************************************************)
EXTENDS Integers

CONSTANTS
    IPs, Terms,     \* addresses, and the lengths a ban may have
    AllowStray      \* whether the firewall can misreport what it holds

VARIABLES
    now,
    status,     \* "free", "asked", "held" or "stray"
    due,        \* when the sentence of an address ends
    pardon,     \* addresses an operator wants released at once
    cycle       \* how often the pool has begun anew

vars == <<now, status, due, pardon, cycle>>

Init ==
    /\ now = 0
    /\ status = [ip \in IPs |-> "free"]
    /\ due = [ip \in IPs |-> 0]
    /\ pardon = {}
    /\ cycle = 1

Pass == now' = now + 1 /\ UNCHANGED <<status, due, pardon, cycle>>

Becomes(ip, s) == status' = [status EXCEPT ![ip] = s]

(* A monitor asks for a ban; one that is stray is held again. *)
Ask(ip) ==
    /\ \/ status[ip] = "free" /\ Becomes(ip, "asked")
       \/ status[ip] = "stray" /\ Becomes(ip, "held")
    /\ \E s \in Terms : due' = [due EXCEPT ![ip] = now + s]
    /\ UNCHANGED <<now, pardon, cycle>>

Hold(ip) ==
    /\ status[ip] = "asked" /\ Becomes(ip, "held")
    /\ UNCHANGED <<now, due, pardon, cycle>>

(* A ban that cannot be put in force, or has been served, is given up. *)
GiveUp(ip) ==
    /\ status[ip] = "asked" /\ Becomes(ip, "free")
    /\ pardon' \subseteq pardon
    /\ UNCHANGED <<now, due, cycle>>

(* A second request for a held address, made some time ago, can only make  *)
(* its sentence longer.                                                    *)
Extend(ip) ==
    /\ status[ip] = "held"
    /\ \E s \in Terms, at \in 0 .. now :
         at + s > due[ip] /\ due' = [due EXCEPT ![ip] = at + s]
    /\ UNCHANGED <<now, status, pardon, cycle>>

(* Nobody is released before the time, except by an operator. *)
Release(ip) ==
    /\ status[ip] = "held" /\ Becomes(ip, "asked")
    /\ now >= due[ip] \/ ip \in pardon
    /\ pardon' \subseteq pardon
    /\ UNCHANGED <<now, due, cycle>>

(* A rule the firewall denied having outlives the record of the ban. *)
Stray(ip) ==
    /\ AllowStray
    /\ status[ip] = "held" /\ Becomes(ip, "stray")
    /\ pardon' \subseteq pardon
    /\ UNCHANGED <<now, due, cycle>>

Pardon(ip) ==
    /\ status[ip] \in {"asked", "held"} /\ pardon' = {ip}
    /\ UNCHANGED <<now, status, due, cycle>>

PardonEnds == pardon' = {} /\ UNCHANGED <<now, status, due, cycle>>

(* The pool begins anew: what was held is still held. *)
Restart ==
    /\ cycle' = cycle + 1
    /\ pardon' \subseteq pardon
    /\ UNCHANGED <<now, status, due>>

(* The machine reboots: nothing is in force, nothing is forgotten. *)
Reboot ==
    /\ status' = [ip \in IPs |-> CASE status[ip] = "held" -> "asked"
                                   [] status[ip] = "stray" -> "free"
                                   [] OTHER -> status[ip]]
    /\ cycle' = cycle + 1
    /\ pardon' = {}
    /\ UNCHANGED <<now, due>>

Next ==
    \/ Pass \/ PardonEnds \/ Restart \/ Reboot
    \/ \E ip \in IPs : \/ Ask(ip) \/ Hold(ip) \/ GiveUp(ip) \/ Extend(ip)
                       \/ Release(ip) \/ Stray(ip) \/ Pardon(ip)

Spec == Init /\ [][Next]_vars
=============================================================================
