---------------------------- MODULE UpdaterProofs ----------------------------
(***************************************************************************)
(* Proofs about Updater for every set of releases, every number of         *)
(* updates, failures, kills and reboots.                                   *)
(***************************************************************************)
EXTENDS Updater, TLAPS

(* What swapBinary knows of the two files at each of its steps. *)
FilesInv ==
    /\ target \in Releases \cup {None} /\ backup \in Releases \cup {None}
    /\ target # None \/ backup # None
    /\ restore \in BOOLEAN
    /\ pc \in {"idle", "stop", "aside", "swap", "put_back", "start", "start_old",
               "roll_back", "clean"}
    /\ pc \in {"stop", "aside", "swap"} => downloaded \in Releases
    /\ pc \in {"start", "start_old", "clean", "roll_back"} => target # None
    /\ (pc \in {"swap", "start"} /\ restore) => backup # None
    /\ pc \in {"put_back", "roll_back"} => backup # None
    /\ pc \in {"swap", "put_back"} => target = None

(* Where the binary is that the last update found installed. *)
PreviousInv ==
    /\ pc = "idle" => PreviousBinaryKept
    /\ pc \in {"stop", "aside", "start_old"} => previous = target
    /\ pc \in {"swap", "start"} => previous = IF restore THEN backup ELSE None
    /\ pc \in {"put_back", "roll_back"} => previous = backup
    /\ pc = "clean" => previous = None

(* What runs: nothing between Stop and the start that follows it, unless somebody *)
(* else has started the service.                                                  *)
ServiceInv ==
    /\ resumed \in BOOLEAN
    /\ (pc \in {"idle", "stop", "clean", "start_old"} /\ ~resumed) => service \in {None, target}
    /\ (pc \in {"aside", "swap", "put_back", "start", "roll_back"} /\ ~resumed) => service = None

LEMMA InitFiles == Init => FilesInv /\ ServiceInv /\ PreviousInv
  BY UpdaterAssumption DEF Init, FilesInv, ServiceInv, PreviousInv, PreviousBinaryKept

LEMMA NextFiles == FilesInv /\ [Next]_vars => FilesInv'
  <1> SUFFICES ASSUME FilesInv, [Next]_vars PROVE FilesInv'
    OBVIOUS
  <1> USE UpdaterAssumption DEF FilesInv, Returns, files
  <1>1. ASSUME NEW r \in Releases, Download(r) PROVE FilesInv'
    BY <1>1 DEF Download
  <1>2. CASE Stop
    BY <1>2 DEF Stop
  <1>3. CASE MoveAside
    BY <1>3 DEF MoveAside
  <1>4. CASE Swap
    <2>1. CASE pc' = "start"
      BY <1>4, <2>1 DEF Swap
    <2>2. CASE pc' = "put_back"
      <3>1. restore = TRUE /\ UNCHANGED <<target, backup, restore>>
        BY <1>4, <2>2 DEF Swap
      <3> QED
        BY <1>4, <2>2, <3>1 DEF Swap
    <2>3. CASE pc' = "idle"
      <3>1. restore' = FALSE /\ UNCHANGED <<target, backup>>
        BY <1>4, <2>3 DEF Swap
      <3> QED
        BY <2>3, <3>1
    <2> QED
      BY <1>4, <2>1, <2>2, <2>3 DEF Swap
  <1>5. CASE PutBack
    BY <1>5 DEF PutBack
  <1>6. CASE StartOld
    BY <1>6 DEF StartOld
  <1>7. CASE Start
    BY <1>7 DEF Start
  <1>8. CASE Clean
    BY <1>8 DEF Clean
  <1>9. CASE Restart
    <2>1. UNCHANGED <<target, backup, downloaded, pc, restore>>
      BY <1>9 DEF Restart
    <2> QED
      BY <2>1
  <1>10. CASE Kill \/ Reboot
    BY <1>10 DEF Kill, Reboot
  <1>11. CASE UNCHANGED vars
    BY <1>11 DEF vars
  <1> QED
    BY <1>1, <1>2, <1>3, <1>4, <1>5, <1>6, <1>7, <1>8, <1>9, <1>10, <1>11 DEF Next

LEMMA NextService == FilesInv /\ ServiceInv /\ [Next]_vars => ServiceInv'
  <1> SUFFICES ASSUME FilesInv, ServiceInv, [Next]_vars PROVE ServiceInv'
    OBVIOUS
  <1> USE DEF ServiceInv, FilesInv, Returns, Started, files, history
  <1>1. ASSUME NEW r \in Releases, Download(r) PROVE ServiceInv'
    BY <1>1 DEF Download
  <1>2. CASE Stop
    BY <1>2 DEF Stop
  <1>3. CASE MoveAside
    BY <1>3 DEF MoveAside
  <1>4. CASE Swap
    BY <1>4 DEF Swap
  <1>5. CASE PutBack
    BY <1>5 DEF PutBack
  <1>6. CASE StartOld
    BY <1>6 DEF StartOld
  <1>7. CASE Start
    BY <1>7 DEF Start
  <1>8. CASE Clean
    BY <1>8 DEF Clean
  <1>9. CASE Restart
    BY <1>9 DEF Restart
  <1>10. CASE Kill
    BY <1>10 DEF Kill
  <1>11. CASE Reboot
    BY <1>11 DEF Reboot
  <1>12. CASE UNCHANGED vars
    BY <1>12 DEF vars
  <1> QED
    BY <1>1, <1>2, <1>3, <1>4, <1>5, <1>6, <1>7, <1>8, <1>9, <1>10, <1>11, <1>12 DEF Next

LEMMA NextPrevious == FilesInv /\ PreviousInv /\ [Next]_vars => PreviousInv'
  <1> SUFFICES ASSUME FilesInv, PreviousInv, [Next]_vars PROVE PreviousInv'
    OBVIOUS
  <1> USE DEF PreviousInv, PreviousBinaryKept, FilesInv, Returns, files, history
  <1>1. ASSUME NEW r \in Releases, Download(r) PROVE PreviousInv'
    BY <1>1 DEF Download
  <1>2. CASE Stop
    BY <1>2 DEF Stop
  <1>3. CASE MoveAside
    BY <1>3 DEF MoveAside
  <1>4. CASE Swap
    BY <1>4 DEF Swap
  <1>5. CASE PutBack
    BY <1>5 DEF PutBack
  <1>6. CASE StartOld
    BY <1>6 DEF StartOld
  <1>7. CASE Start
    BY <1>7 DEF Start
  <1>8. CASE Clean
    BY <1>8 DEF Clean
  <1>9. CASE Restart
    BY <1>9 DEF Restart
  <1>10. CASE Kill
    BY <1>10 DEF Kill
  <1>11. CASE Reboot
    BY <1>11 DEF Reboot
  <1>12. CASE UNCHANGED vars
    BY <1>12 DEF vars
  <1> QED
    BY <1>1, <1>2, <1>3, <1>4, <1>5, <1>6, <1>7, <1>8, <1>9, <1>10, <1>11, <1>12 DEF Next

LEMMA NextTyped == TypeOK /\ FilesInv /\ [Next]_vars => TypeOK'
  <1> SUFFICES ASSUME TypeOK, FilesInv, [Next]_vars PROVE TypeOK'
    OBVIOUS
  <1>0. /\ MaxFaults \in Nat /\ MaxUpdates \in Nat /\ MaxKills \in Nat
        /\ budget \in 0 .. MaxFaults /\ updates \in 0 .. MaxUpdates /\ kills \in 0 .. MaxKills
    BY UpdaterAssumption DEF TypeOK
  <1>1. budget' \in 0 .. MaxFaults /\ updates' \in 0 .. MaxUpdates /\ kills' \in 0 .. MaxKills
    <2>1. /\ budget' = budget \/ (budget > 0 /\ budget' = budget - 1)
          /\ updates' = updates \/ (updates > 0 /\ updates' = updates - 1)
          /\ kills' = kills \/ (kills > 0 /\ kills' = kills - 1)
      BY DEF Next, vars, bounds, Fails, Download, Stop, MoveAside, Swap, PutBack, StartOld,
             Start, Clean, Restart, Kill, Reboot
    <2> QED
      BY <1>0, <2>1
  <1>2. /\ target' \in Releases \cup {None} /\ backup' \in Releases \cup {None}
        /\ restore' \in BOOLEAN
        /\ pc' \in {"idle", "stop", "aside", "swap", "put_back", "start", "start_old",
                     "roll_back", "clean"}
    BY NextFiles DEF FilesInv
  <1>3. /\ downloaded' \in Releases \cup {None} /\ service' \in Releases \cup {None}
        /\ previous' \in Releases \cup {None}
    BY DEF TypeOK, Next, vars, files, history, Returns, Started, Download, Stop, MoveAside, Swap, PutBack,
           StartOld, Start, Clean, Restart, Kill, Reboot
  <1>4. pc' \in {"put_back", "roll_back", "clean"} => restore' /\ backup' # None
    <2>1. CASE Swap
      BY <2>1 DEF Swap, Returns, FilesInv
    <2>2. CASE Start
      BY <2>2 DEF Start, Returns, FilesInv
    <2>3. CASE UNCHANGED vars
      BY <2>3 DEF vars, files, TypeOK
    <2>4. CASE ~(Swap \/ Start \/ UNCHANGED vars)
      <3>1. pc' \in {"idle", "stop", "aside", "swap", "start_old"} \/ Restart
        BY <2>4 DEF Next, Returns, Download, Stop, MoveAside, PutBack, StartOld, Clean, Kill, Reboot
      <3> QED
        BY <3>1 DEF Restart, files, TypeOK
    <2> QED
      BY <2>1, <2>2, <2>3, <2>4
  <1>5. resumed' \in BOOLEAN
    <2>1. resumed' = resumed \/ resumed' = FALSE \/ Restart
      BY DEF Next, vars, history, Download, Stop, MoveAside, Swap, PutBack,
             StartOld, Start, Clean, Kill, Reboot
    <2>2. resumed \in BOOLEAN
      BY DEF TypeOK
    <2> QED
      BY <2>1, <2>2 DEF Restart
  <1> QED
    BY <1>1, <1>2, <1>3, <1>4, <1>5 DEF TypeOK

(* The files hold a release or are absent, and swapBinary only comes to put the *)
(* previous binary back, or to remove it, when it has moved one aside.          *)
THEOREM UpdaterTyped == Spec => []TypeOK
  <1>1. Init => TypeOK
    <2> SUFFICES ASSUME Init PROVE TypeOK
      OBVIOUS
    <2>1. restore \in BOOLEAN /\ resumed \in BOOLEAN /\ pc = "idle"
      BY DEF Init
    <2>2. budget \in 0 .. MaxFaults /\ updates \in 0 .. MaxUpdates /\ kills \in 0 .. MaxKills
      BY UpdaterAssumption DEF Init
    <2>3. /\ target \in Releases \cup {None} /\ backup \in Releases \cup {None}
          /\ downloaded \in Releases \cup {None} /\ service \in Releases \cup {None}
          /\ previous \in Releases \cup {None}
      BY UpdaterAssumption DEF Init
    <2> QED
      BY <2>1, <2>2, <2>3 DEF TypeOK
  <1> QED
    BY <1>1, InitFiles, NextFiles, NextTyped, PTL DEF Spec

(* Until systemctl start has accepted a new release, the binary it replaces is at *)
(* target or at backup: over failing renames and starts, kills, reboots, restarts *)
(* of the service during the update and any number of updates.                    *)
THEOREM BinaryIsKept == Spec => []PreviousBinaryKept
  <1>1. FilesInv /\ PreviousInv => PreviousBinaryKept
    BY DEF FilesInv, PreviousInv, PreviousBinaryKept
  <1> QED
    BY <1>1, InitFiles, NextFiles, NextPrevious, PTL DEF Spec

(* However an update ends, the service does not go on with a binary that is no *)
(* longer the installed one, unless -r started it between the renames.         *)
THEOREM InstalledBinaryRuns == Spec => []ServiceRunsInstalled
  <1>1. ServiceInv => ServiceRunsInstalled
    BY DEF ServiceInv, ServiceRunsInstalled
  <1> QED
    BY <1>1, InitFiles, NextFiles, NextService, PTL DEF Spec
=============================================================================
