------------------------------- MODULE Updater -------------------------------
(***************************************************************************)
(* pkg/updater/updater.go: open-defender -u, which downloads a release,    *)
(* stops the service, swaps the binary by two renames and starts the       *)
(* service back.  A step is one command or one system call; each may fail, *)
(* and the updater may be killed between any two, or the machine rebooted. *)
(*                                                                         *)
(* systemd is external.  The unit that the installer writes is of          *)
(* Type=simple: systemctl start succeeds once the process was forked,      *)
(* whether or not the binary works.  Nothing locks out open-defender -r    *)
(* while an update runs.  One open-defender -u runs at a time.             *)
(***************************************************************************)
EXTENDS Integers

CONSTANTS
    Releases,       \* what can be downloaded
    Broken,         \* the releases whose binary dies at once
    First,          \* the release that is installed
    Faults,         \* the kinds of failure: "stop", "rename", "start"
    MaxFaults,      \* bound: failures
    MaxUpdates,     \* bound: runs of open-defender -u
    MaxKills,       \* bound: kills and reboots
    None            \* no file, no process

ASSUME UpdaterAssumption ==
    /\ Broken \subseteq Releases
    /\ First \in Releases \ Broken
    /\ Faults \subseteq {"stop", "rename", "start"}
    /\ MaxFaults \in Nat /\ MaxUpdates \in Nat /\ MaxKills \in Nat
    /\ None \notin Releases

VARIABLES
    target,     \* /usr/bin/open-defender
    backup,     \* /usr/bin/open-defender.bak
    downloaded, \* the temporary file
    service,    \* the release the service runs, or None
    pc,         \* idle, or the next step of swapBinary
    restore,    \* the local of swapBinary
    previous,   \* history: what the last update found at target, until systemctl
                \* start has accepted the release that replaces it
    resumed,    \* history: systemctl restart found a binary that a rename of the
                \* running update may still replace
    budget, updates, kills      \* what is left of the bounds

files == <<target, backup, downloaded>>
bounds == <<budget, updates, kills>>
history == <<previous, resumed>>
vars == <<files, service, pc, restore, history, bounds>>

(* The machine as open-defender -i has left it. *)
Init ==
    /\ target = First /\ backup = None /\ downloaded = None
    /\ service = First
    /\ pc = "idle" /\ restore = FALSE
    /\ previous = None /\ resumed = FALSE
    /\ budget = MaxFaults /\ updates = MaxUpdates /\ kills = MaxKills

Fails(kind) == /\ kind \in Faults /\ budget > 0
               /\ budget' = budget - 1

(* Update returns; the deferred os.Remove takes the download away. *)
Returns == /\ pc' = "idle" /\ restore' = FALSE
           /\ downloaded' = None

(* A version and an architecture are agreed on and the release is fetched; a *)
(* failure up to here leaves everything as it was.                           *)
Download(r) ==
    /\ pc = "idle" /\ updates > 0
    /\ updates' = updates - 1
    /\ downloaded' = r
    /\ pc' = "stop"
    /\ previous' = target
    /\ UNCHANGED <<target, backup, service, restore, resumed, budget, kills>>

(* Seeded fault: the service is not stopped. *)
StopForgotten ==
    /\ pc = "stop" /\ pc' = "aside"
    /\ UNCHANGED <<files, service, restore, history, bounds>>

Stop ==
    /\ pc = "stop"
    /\ \/ /\ service' = None /\ pc' = "aside"
          /\ resumed' = FALSE
          /\ UNCHANGED <<downloaded, restore, budget>>
       \/ Fails("stop") /\ Returns /\ UNCHANGED <<service, resumed>>
    /\ UNCHANGED <<target, backup, previous, updates, kills>>

(* target becomes backup; without a target there is nothing to restore. *)
MoveAside ==
    /\ pc = "aside"
    /\ \/ /\ target # None
          /\ backup' = target /\ target' = None
          /\ restore' = TRUE /\ pc' = "swap"
          /\ UNCHANGED <<downloaded, budget>>
       \/ /\ target = None
          /\ restore' = FALSE /\ pc' = "swap"
          /\ UNCHANGED <<files, budget>>
       \/ Fails("rename") /\ Returns /\ UNCHANGED <<target, backup>>
    /\ UNCHANGED <<service, history, updates, kills>>

(* The download becomes target. *)
Swap ==
    /\ pc = "swap"
    /\ \/ /\ target' = downloaded /\ downloaded' = None
          /\ pc' = "start"
          /\ UNCHANGED <<restore, budget>>
       \/ /\ Fails("rename")
          /\ IF restore THEN pc' = "put_back" /\ UNCHANGED <<downloaded, restore>>
             ELSE Returns
          /\ UNCHANGED target
    /\ UNCHANGED <<backup, service, history, updates, kills>>

(* systemctl start: nothing to do for a service that runs. *)
Started == service' = IF service = None THEN target ELSE service

(* backup becomes target again, before the service is started. *)
PutBack ==
    /\ pc \in {"put_back", "roll_back"}
    /\ \/ /\ target' = backup /\ backup' = None
          /\ pc' = "start_old"
          /\ UNCHANGED <<downloaded, restore, budget>>
       \/ Fails("rename") /\ Returns /\ UNCHANGED <<target, backup>>
    /\ UNCHANGED <<service, history, updates, kills>>

(* Whether the old binary starts or not, Update returns an error. *)
StartOld ==
    /\ pc = "start_old"
    /\ \/ Started /\ UNCHANGED budget
       \/ Fails("start") /\ UNCHANGED service
    /\ Returns
    /\ UNCHANGED <<target, backup, history, updates, kills>>

(* Seeded fault: the previous binary is removed before the new one is started. *)
StartAfterClean ==
    /\ pc = "start"
    /\ backup' = None
    /\ \/ /\ Started /\ Returns
          /\ previous' = None
          /\ UNCHANGED budget
       \/ /\ Fails("start")
          /\ IF restore THEN pc' = "roll_back" /\ UNCHANGED <<downloaded, restore>>
             ELSE Returns
          /\ UNCHANGED <<service, previous>>
    /\ UNCHANGED <<target, resumed, updates, kills>>

Start ==
    /\ pc = "start"
    /\ \/ /\ Started
          /\ IF restore THEN pc' = "clean" /\ UNCHANGED <<downloaded, restore>> ELSE Returns
          /\ previous' = None
          /\ UNCHANGED budget
       \/ /\ Fails("start")
          /\ IF restore THEN pc' = "roll_back" /\ UNCHANGED <<downloaded, restore>> ELSE Returns
          /\ UNCHANGED <<service, previous>>
    /\ UNCHANGED <<target, backup, resumed, updates, kills>>

(* The result of os.Remove(backup) is not looked at. *)
Clean ==
    /\ pc = "clean"
    /\ backup' \in {None, backup}
    /\ Returns
    /\ UNCHANGED <<target, service, history, bounds>>

(***************************************************************************)
(* systemctl restart, by open-defender -r or by systemd's Restart=always,  *)
(* at any step of an update.  A systemctl start that follows finds the     *)
(* service running and does nothing.                                       *)
(***************************************************************************)
Restart ==
    /\ service' = target
    /\ resumed' = (target # None /\ pc \in {"aside", "start", "roll_back"})
    /\ UNCHANGED <<files, pc, restore, previous, bounds>>

(* The updater is killed; its temporary file is of no use to anybody. *)
Kill ==
    /\ pc # "idle" /\ kills > 0
    /\ kills' = kills - 1
    /\ Returns
    /\ UNCHANGED <<target, backup, service, history, budget, updates>>

(* The unit is enabled: systemd starts what is at target. *)
Reboot ==
    /\ kills > 0 /\ kills' = kills - 1
    /\ Returns
    /\ service' = target /\ resumed' = FALSE
    /\ UNCHANGED <<target, backup, previous, budget, updates>>

Next ==
    \/ \E r \in Releases : Download(r)
    \/ Stop \/ MoveAside \/ Swap \/ PutBack \/ StartOld \/ Start \/ Clean
    \/ Restart \/ Kill \/ Reboot

Spec == Init /\ [][Next]_vars

-----------------------------------------------------------------------------
(* The types of the files, the service and swapBinary's locals. *)
TypeOK ==
    /\ target \in Releases \cup {None} /\ backup \in Releases \cup {None}
    /\ downloaded \in Releases \cup {None}
    /\ service \in Releases \cup {None}
    /\ pc \in {"idle", "stop", "aside", "swap", "put_back", "start", "start_old",
               "roll_back", "clean"}
    /\ pc \in {"put_back", "roll_back", "clean"} => restore /\ backup # None
    /\ restore \in BOOLEAN /\ resumed \in BOOLEAN
    /\ previous \in Releases \cup {None}
    /\ budget \in 0 .. MaxFaults /\ updates \in 0 .. MaxUpdates /\ kills \in 0 .. MaxKills

(***************************************************************************)
(* Until systemctl start has accepted the new release, the binary that the *)
(* update found installed is at target or at backup: wherever swapBinary   *)
(* fails, cannot rename back, is killed or loses the machine, and whoever  *)
(* restarts the service meanwhile.                                         *)
(***************************************************************************)
PreviousBinaryKept == previous # None => previous \in {target, backup}

(***************************************************************************)
(* After every outcome of an update, a service that runs is running the    *)
(* binary that is installed, not the one from before the update, unless    *)
(* open-defender -r brought the service back between swapBinary's stop and *)
(* its start, before the last rename.                                      *)
(***************************************************************************)
ServiceRunsInstalled ==
    (pc = "idle" /\ service # None /\ ~resumed) => service = target

(***************************************************************************)
(* "the previous binary is kept aside and put back should the new one fail *)
(* to start": once Update has returned, a release that dies at once has    *)
(* been replaced by the previous one.                                      *)
(***************************************************************************)
BrokenReleaseRolledBack == pc = "idle" => target \notin Broken
=============================================================================
