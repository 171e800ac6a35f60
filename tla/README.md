# Open Defender: a TLA+ model of the agent

Open Defender is a host agent in Go. It reads logs, watches packets and resource use, bans offending
addresses in the firewall for a while, judges the commands that users execute with a BPF program,
reports to a dashboard over one WebSocket session, takes its settings from there, and updates its own
binary. This directory holds TLA+ modules of the parts where
orderings, failures and crashes decide whether the agent is correct, TLC configurations that check
them on small instances, and TLAPS proofs for all instances.

Check a run with `tlc -config <run>.cfg <module>`, the proofs of a module with `tlapm <module>.tla`
(the modules named `*Proofs`, and `BanPoolRefinement`).

## 1. Inventory

| Part | State | Operations | Hard behaviour |
|---|---|---|---|
| ban pool (`pkg/banpool/service.go`, `repository.go`) | SQLite table of bans (durable), one goroutine per ban, one mutex | `BanIP`, `UnbanIP`, `RestoreBans`, `waitUnban` | crash between row and rule, goroutines of old cycles, extension while a goroutine sleeps, retries, two clock reads, overflow, times compared as text |
| firewall (`firewall.go`) | rules in the kernel, one per chain (lost by a reboot only) | `Ban`, `Unban`, `hasRule` | every command may fail, chains succeed one by one |
| connector (`pkg/connector`) | connection, backoff, `readDone` | handshake, `serve`, `readLoop`, `applyConfig`, `requestRestart` | lost acks, late answers, breaks at any time, restart while reading |
| monitor hub (`pkg/monitor/monitor.go`) | cycle context, restart channel, export queue, shared `*Config` | `RunMonitoring`, `runCycle`, `export` | stale restart token, reload while somebody reads, full queue |
| configuration (`pkg/config`) | `config.yaml` | `LoadConfig`, `LoadConfigReadOnly`, `SaveConfig`, `Validate` | crash inside a save, equality after a round trip |
| log monitors (`RunBaseMonitor`) | a `sync.Map` of counters | count, judge, ban, report, clear | clear between load and store, several monitors on one address |
| network monitor (`network_monitor.go`, XDP program) | ring buffer, a `sync.Map` of port sets | read, add, report, clear | cleared set still in use, full ring buffer, byte order between C and Go |
| log sources (`source.go`) | open file and offset, fsnotify watch, channel of capacity 1000 | attach, follow, rotate, retry, close | rename right after a write, merged events, rotation between open and watch, cancel while the channel is full or the file is missing, a `journalctl` that nobody reads any more |
| updater (`pkg/updater`) | binary, backup, service | `swapBinary` | kill between renames, failing rollback, repeated attempts, `-r` in the middle, releases that die at once |
| installer (`pkg/installer`) | binary, unit file | `Install`, `Start`, `Stop`, `Restart` | interrupted installation |
| user command controller (`pkg/ebpfmonitors`, BPF LSM, `pkg/user-command-controller-policy`) | BPF maps `users`, `namespaces`, `mounts`; handles on namespaces; activation timer | discover, sync, activate, detach; kernel hook | hook runs between two map updates, a task moves while it is read, inode numbers are reused, errors half way |
| resource monitor, protocol, cryptography, command line, LSM actions | little or none | | |

How they interact: the hub runs cycles. A cycle calls `RestoreBans`, starts every monitor and the
connector, and waits for all of them. Monitors call `BanIP` and put events on the export queue; the
connector empties it. A `set_config` that differs from the running settings is saved, a token is put
in the restart channel and the cycle's context is cancelled; the hub then reloads the file and begins
the next cycle. Without a token the process ends and systemd starts it again.

What makes each part correct: no rule without a row and no ban lifted early or never (ban pool); the
agent keeps what only it knows, converges to the dashboard's settings and stops restarting
(connector, hub, configuration); an alarm needs the configured hits or ports, each ban is announced
once and loops end (monitors); lines arrive once and in order (log sources); nobody but those the policy
selects is denied or reported, and those it selects come under it (command controller); the previous
binary is kept until the new one is started, and what is installed is what runs (updater).

`PROJECT.json` lists the hazards with their source lines and the properties that would catch them.

## 2. Modules

| Module | Models | Remarks |
|---|---|---|
| `Firewall` | `firewall.go` | One step per call: the mutex is held around it, and what a crash between two commands leaves is what failures of the remaining commands leave. `rules[ip][chain]` counts copies. |
| `BanPool` | `service.go`, `repository.go`, the hub's cycles | Extends `Firewall`. The holder of the mutex has a program counter (`mpc`), a caller (`by`) and locals; each step makes at most one durable change. `promised` is a history variable: until when the accepted calls want an address banned. |
| `Sentences` | what the ban pool promises, without table, firewall, goroutines or mutex | Abstract specification: an address is free, asked for, held or stray, and a sentence has an end. `BanPool` implements it: `ImplementsSentences`. |
| `Jail` | what `BanIP` promises the monitors | Abstract view used by the monitors' modules. |
| `Config` | what saving, loading, filtering and merging do to a configuration | Pure operators. A configuration is an opaque body and the four parts that some step rewrites. |
| `Connector` | `connector.go` and the hub | Extends `Config`. `cpc` is `Run`, `rpc` is `readLoop`, `up` the other monitors. The dashboard and the network are external actions. |
| `LogMonitor`, `NetworkMonitor` | `RunBaseMonitor`, `network_monitor.go` and its XDP program | Both use `Jail`. `hits`, `fresh` and `tried` are history variables: what an address did in the window. Addresses and ports are sequences of bytes, as they are in the packet; `AsRead` is what the two conversions of the code make of them. |
| `Detectors` | the monitors of one cycle side by side | Composes the two; they share the jail and the export of `ip_ban`. |
| `LogSource` | `source.go` and the channel's other end in `RunBaseMonitor` | The writer of the log, its rotation and inotify are external actions. `written` numbers the lines over all files; `baseline` is a history variable: what the open file held when the watch was set. |
| `CommandPolicy` | `policy.go`, `commandNamespaceRules` | Pure operators, and a reference definition (`KernelMaps`, `IsRoot`, `PolicySelects`) that does not use them. |
| `CommandController` | `user_command_controller.go`, `user_command_controller.bpf.c` | Extends `CommandPolicy`. The kernel (tasks, namespaces, reuse of inode numbers) is external; `pc`/`job`/`kind` say where the scanner is, `run` where `Run` is, `hook[t]` which lookup the BPF program does next in task `t`. `graced` is a history variable. |
| `Updater` | `swapBinary`, `Start`, `Stop`, `Restart` | systemd is external: `Type=simple`. `previous` and `resumed` are history variables: the binary an update has yet to replace for good, and that `-r` brought the service back in the middle. |
| `MC*` | instances for TLC | |
| `BanPoolProofs`, `BanPoolRowProofs`, `BanPoolRefinement` | theorems about `BanPool` | Each extends the one before: types, rules and times; rows and goroutines; the refinement of `Sentences`. |
| `ConnectorProofs`, `DetectorsProofs`, `CommandControllerProofs`, `LogSourceProofs`, `UpdaterProofs` | theorems about the module of that name | |

Operators named "Seeded fault" in a comment are not part of any specification: they are wrong
versions of the definition below them, used to see that a property notices the fault.

Data that no property tells apart is abstracted: an address (outside the network monitor), a release and the settings of
the monitors are model values; patterns are the address they capture; validation is the set
`BadBodies`, except that what `Validate` finds on the machine at that moment (a log file that is not
there) is a failure of the step that applies the settings; encryption, JSON and logging are left out. A frame that cannot be decrypted or decoded
is the frame "garbage", which ends `readLoop` as in the code.

## 3. Runs

Bounds are constants with names beginning with `Max` (and `LastBan`): they limit the clock, the rows,
the cycles, the failures and the events of a behaviour, and nothing else. Because of them behaviours
end, and an idle session is a state without steps, so deadlock is not checked except where noted.

### Bans (`MCBanPool`)

| Run | Shows |
|---|---|
| `ban` | `FairSpec`; two addresses, one of which the firewall refuses, two chains, nftables, one failing insert or delete, one retry, `UnbanIP`, two cycles or process starts, a crash or reboot between any two steps. Durations 1 and 2 within 3 instants make extensions, expiry during a restart and rebans happen. `TypeOK`, `RuleHasRow`, `OneWaiterPerRow`, `ActiveRowEnforced`, `NoEarlyLift`; `ImplementsSentences`: every step is a step of `Sentences` under the mapping `Abstract`: the status of an address comes from its row and its rules, the end of its sentence is `promised`, the pardoned address is the one `UnbanIP` works on, and `cycle` tells a reboot, which takes every rule away, from a release; `WatchedBanIsLifted`: a ban that a goroutine of the cycle watches is lifted, unless the cycle ends. |
| `ban_stuck_restore`* | A ban that ends between `GetExpired` and `GetBanned` gets neither lifted nor a goroutine. |

Runs with * are expected to fail; each is a disagreement between the code and a sentence of the
repository, quoted in `PROJECT.json` under `findings`.

The constants of `ban` leave out failures of the database and of checks, durations that wrap and a
change of the UTC offset: there are states of each in the model, and the theorems of section 4 say
which of the properties hold with them. Those that do not:
with `"check" \in Faults` a check that fails during `unban` deletes the row and leaves the
rule (`RuleHasRow`; the stray of `Sentences`, which is never released early and is held
again by the next `BanIP`); with `ShiftBy > 0` the textual comparison of `GetExpired` lifts a
ban early when the local offset falls back, and with a duration of `Half` or more `waitUnban` lifts it
at once (`NoEarlyLift`); with `"db" \in Faults` a failing `Delete` after a failed `Ban` leaves a row that
is not enforced until the next `BanIP` or cycle (`ActiveRowEnforced`), and a failing read ends the
goroutine of a ban, which then stays until a cycle begins (`WatchedBanIsLifted`, which also needs no
more failures than retries). Changing these constants in `ban.cfg` shows them.

### Session and restarts (`MCConnector`)

| Run | Shows |
|---|---|
| `session` | `FairSpec`, three settings (one refused, one with a docker monitor), two changes, three events in an export queue of two, a backoff that grows twice (1, 3, 5, with a limit of 4), two breaks (of the connection, the answer to hello, the applying of settings or a monitor), one crash: `TypeOK`, `LocalPartsKept`, `NoStaleToken`, `ReloadAlone`, `AlertsAfterHandshakeInOrder`, `Converges`, `RestartsEnd`. |
| `session_null_list`* | A null list in the payload: the agent restarts on every reconnect. |

Two alerts may wait together, be overtaken by a reconnect, a restart or a crash, and one that could
not be sent and went back to the queue would come after the second (`ServeAlertRequeued`).

The passing session run assumes that payloads hold no null list, that a save is not cut in half and
that the machine's interfaces can be listed. The first is the subject of the failing run. Without the
second (`TornWrites = TRUE` in `session.cfg`) TLC finds `LocalPartsKept` violated: `os.WriteFile`
truncates `config.yaml` first, and an empty file is read as the defaults, without exporter.

The backoff is as in the code, which tests the limit before it adds the step: with the code's
constants the waits are 5, 15, ..., 95 and 105 s, where `CLIENT.md:275` says "capped at 100 s"
(`connector.go:88`). No property states a limit, since none depends on the length of a wait.

Left out of `Connector`: a send channel that is closed (`connector.go:230`; nobody closes it), and
starts of the process that fail in `Validate` or `banpool.New`: they happen before any goroutine runs,
and systemd tries again, so that `StartProcess` is the start that succeeds. The dashboard may change its
settings at any time; while a session is not greeted yet they reach it with the answer to hello.

### Monitors (`MCDetectors`)

| Run | Shows |
|---|---|
| `detect` | A log monitor and the network monitor on a little-endian host, two addresses that are each other's reversal, four ports of all kinds, two hits or ports needed, clears at any time, bans that end at any time, channel and ring buffer of size one: `TypeOK`, `AlarmNeedsTries`, `ScanNeedsPorts`, `OneNoticePerBan`. Two log monitors differ from this pair in no step that touches the jail. |
| `detect_whitelist`* | The network monitor bans a whitelisted address; in the trace that address has not sent a packet. |
| `detect_window`* | A hit in the loop's hand when the window ends carries the hits of the old window over. |

That the loops end after a cancel is `SourceEnds` (below).

A `Clear` between `LoadOrStore` and `Store` is undone by the store, so that hits of the old window count
in the new one, against what the settings say of `tries` and `window_seconds`: `detect_window`.
`AlarmNeedsTries` says that this is the only way: an alarm needs hits of the window, except for the one
address that was in the loop's hand.

The XDP program stores `bpf_ntohl(saddr)` and `bpf_ntohs(dest)`, numbers in the order of the host, and
`parseEvent` reads the bytes as big-endian. On a little-endian host (amd64, arm64) every address and
port comes out with its bytes reversed: the address that is reported and banned, and the ports that are
compared with the lists, are not those of the packet. `tried` records what is really in the packet.
`ScanNeedsPorts` says that a reported scan stands for enough ports that one real address tried in the
window, and that the report names the images of address and ports under `AsRead`, which is the
identity on a big-endian host only.

`OneNoticePerBan` is about calls of `export`. With the exporter disabled, or with a full queue, `export`
drops the event (`monitor.go:135`, `153-157`); the queue is in `Connector`. Errors while the XDP program
is loaded and attached make `Run` return before its loop begins.

### Updates (`MCUpdater`, deadlock checked)

| Run | Shows |
|---|---|
| `update_swap` | Three updates to working and broken releases, three failures of any kind, two kills or reboots, `open-defender -r` at any step: `TypeOK`, `PreviousBinaryKept`, `ServiceRunsInstalled`. |
| `update_broken`* | An update to a release that dies at once is taken for a success and the previous binary is removed. |

What the code does not do, and the properties therefore do not say:

* `systemctl start` of a `Type=simple` unit reports success for a binary that dies at once, so that
  "fail to start" of `README.md:133-134` leads to the roll-back only when the command itself fails.
* `PreviousBinaryKept` is about the binary that the last update found at the target. An update that was
  killed between swap and start, or that could not rename back, leaves a binary there that never ran;
  the next one moves it over the backup, and the one from before both is gone (`updater.go:103`).
* `open-defender -r` between the stop and the last rename starts the binary that is about to be
  replaced. The start of `swapBinary` finds the service running and does nothing: after a successful
  update the old binary runs until the next restart. `ServiceRunsInstalled` excepts exactly this
  (`resumed`).
* Two `open-defender -u` at once are not modelled: each waits for answers on a terminal.

The questions and the download are one step, `Download`: a failure there changes nothing.

### Command controller (`MCCommandController`)

| Run | Shows |
|---|---|
| `command_gate` | Two tasks, one of which executes commands, two inode numbers for user namespaces and one for mount namespaces, one start or `unshare`, one failing call; a mapping with root and one without, whose host UIDs overlap; a negative policy on users and commands, under which a missing key as well as a wrong one shows: `TypeOK`, `HitsFollowPolicy`, `MapsInStep`. |
| `command_live` | `Spec` with its fairness, two tasks in one user and one mount namespace that may die out and be found again, one start, one failure, a positive policy: `GuardedEventually`, `ControllerEnds`. |

`MCCommandController` also assumes, and TLC evaluates, `DecisionAgrees`: for every policy of either kind,
mapping, host UID and command, the decision over translated IDs is that of the reference definition
(the theorem `DecisionIsMeant` says it of all of them).

Two inode numbers are enough for a task to move between the opening of its handle and the reading of
its mapping, and for a number to come back for another namespace while the hook is under way. With a
handle closed too early, without the second look at the namespace (`ProbeAlive`) or with keys left
behind (`DropLastEarly`) the run fails. The grace period is the event `GraceEnds`: 150 s after
discovery, but at no fixed time relative to the scans. The states a scan error leaves in the maps are
outside `MapsInStep` (the context is cancelled) and inside `HitsFollowPolicy`, since the program stays
attached until the goroutine's select has seen the cancel.

### Log sources (`MCLogSource`)

| Run | Shows |
|---|---|
| `source` | The engines syslog, docker and journal, three lines, two rotations (rename, create and the writer's reopening apart), a channel of one, two attempts to open, two failures, a cancel at any time: `TypeOK`, `InOrderOnce`, `LinesArrive`, `SourceEnds`. |

Each engine fails in its own way. syslog: the watcher reports an error. docker: the container is not
there, its logs end, or a line is too long for the scanner; the source detaches and tries again. journal:
`journalctl` is not there or exits, and the source tries again; but after a line too long for the
scanner `attachToJournal` waits for a `journalctl --follow` that does not exit (`source.go:146`), and there
are neither lines nor retries until the context is cancelled. `LinesArrive` excepts a source that hangs
there (`spc = "stuck"`), and `SourceEnds` shows that a cancel, which kills `journalctl`, ends it.

`LinesArrive` speaks of lines written after the watch was set on the file that is open. The code does
not do better: between `openLogFile` and `watcher.Add` a write is read at the next event only, and a
rotation leaves a watch on one file and an open handle on another. A line is written and read as a
whole; in the code a writer caught in the middle of a line yields two halves. The removal of a file the
agent holds open and truncation in place give no event the loop acts on and are left out, as is the
goroutine of `attachToDocker` that copies into a pipe nobody reads any more: it shares nothing with the
next attachment.

### Fairness

`BanPool`: time passes, the holder of the mutex and `RestoreBans` go on, the hub goes on to the next
cycle, timers fire (weak fairness), and a goroutine that queues for the mutex gets it (strong
fairness: `sync.Mutex` hands the lock to a waiter that starves). Nothing is assumed of bans,
failures or crashes. `Connector`: every goroutine that can run does, and the endpoint can be dialled
again and again (strong fairness of `Dial`); nothing is assumed of the dashboard's changes.
`CommandController`: the scanner, the clock behind ticker, timer and grace period, the reader
and a BPF program that has begun go on (weak fairness); `Timer` and `SelectDone` are taken if they are
ready again and again (strong fairness: Go's `select` picks among ready cases at random). Nothing is
assumed of tasks. `LogSource`: source, monitor and timers go on, and `ctx.Done()` is taken if it is
ready again and again; the log may fall silent and a rotation may stop half way. `Detectors` states
no fairness, since it has safety properties only.

## 4. Proofs

Every safety property of the passing runs is a theorem: what a run checks on a small instance is
proved for all sets of addresses, chains, tasks, namespaces, releases and settings and for every value
of the bounds. Each proof has the same shape: an inductive invariant (`IInv` or a part with its own
name), one lemma per group of conjuncts and in it one step per action, and a last step that combines
them.

### Ban pool

* `TypeCorrect`: `Spec => []TypeOK`. The inductive invariant `IInv` adds `HolderInv`: which operation
  is at which program counter, that the row it works on exists while it holds the mutex, and that the
  goroutine it runs for is still there.
* `RulesAreBacked`: `Spec => []RuleHasRow` if check commands do not fail (`"check" \notin Faults`).
  `RuleInv` strengthens it: a row is deleted only at program counters where the address has no rule,
  a chain never holds two copies (iptables deletes one at a time), and refused addresses never have a
  rule. The assumption is needed (section 3).
* `BansAreNotLiftedEarly`: `Spec => NoEarlyLift` if the UTC offset is constant (`ShiftBy = 0`) and
  durations fit (`s < Half`). `TimeInv` says that a row never ends before it was promised to, and
  that every caller of `unban` but `UnbanIP` has read, under the same mutex, that the row has ended.
  Failing checks are allowed here. Both assumptions are needed (section 3).
* `RowsHaveOneWaiter`: `Spec => []OneWaiterPerRow`, without assumptions. `WaiterInv` adds that row
  identities are never used twice (`IdsInv`), that `RestoreBans` and `BanIP` never meet in one phase
  of a cycle (`PhaseInv`), and that no goroutine of this cycle watches a row which `BanIP` or
  `RestoreBans` has yet to hand over (`WatchInv`).
* `ActiveRowsAreEnforced`: `Spec => []ActiveRowEnforced` if the offset is constant, database calls do
  not fail and there is a chain. `EnforcedInv` extends the property to the steps between a row and its
  rule: an unexpired row without a rule is the one somebody holds the mutex for, or is still on
  `RestoreBans`' list. A failing `Delete` after a failed `Ban` breaks it (section 3); without a chain
  there is nothing to put a rule in.
* `PoolRefinesSentences`: `Spec => ImplementsSentences` if the offset is constant, durations fit and
  there is a chain. The initial states map to an initial state; every step is shown to be a step of
  `Sentences` or to leave its variables alone, group by group (`BanStepRefines`, `UnbanStepRefines`,
  `RestoreStepRefines`, `OtherStepRefines`). The mapping needs `TimeInv`, `RuleInv` where checks do not
  fail, and `RequestInv`: a ban is extended only while its address is blocked.

### Session and restarts

`IInv` is `Typed /\ SessionInv /\ QueueInv`: a goroutine that applies a message has one; the reader
exists only while `Run` serves, closes or waits for it; after the handshake the dashboard has seen the
acknowledgement or the session is closed; the queue is sorted and newer than what was delivered.

* `SessionTyped`, `TokensAreFresh` (`NoStaleToken`), and the action properties `ReloadsAreAlone`
  (`ReloadAlone`) and `AlertsAreInOrder` (`AlertsAfterHandshakeInOrder`), without assumptions.
* `LocalPartsSurvive` (`LocalPartsKept`) if interfaces can be listed (`LocalIpsKnown = {TRUE}`) and no
  write is torn. Both are needed (section 3).

### Monitors

`IInv` relates each loop's locals to the maps (`LogCounts`, `NetCounts`): the counter a monitor works
with never exceeds the hits since the last alarm and the start of the window, but for the address in
hand, although the map may for a moment (between an alarm and its `Store`); a port set in hand, cleared
from the map or not, holds only images of ports that the real address tried. That two reversals are
none is the lemma `ReverseTwice`.

* `DetectorsTyped`, `AlarmsAreEarned`, `ScansAreEarned`, `BansAreAnnouncedOnce`, without assumptions and
  for any number of log monitors beside the network monitor. `BansAreAnnouncedOnce` counts the monitors
  that are between a new ban and its event, and so needs their set to be finite.
* `LogMonitorsSpareWhitelist`: the property that `detect_whitelist` refutes holds if the network
  monitor is not in blocker mode: the deviation is the network monitor's alone.

### Command controller

* `DecisionIsMeant`: the decision over translated IDs is that of the reference definition, for every
  policy and mapping. It rests on `LinesDoNotOverlap`: no two lines of a `uid_map` hold the same ID,
  which the kernel sees to when the file is written; the first matching line is then the only one.
* `ControllerTyped`, `PolicyIsFollowed` (`HitsFollowPolicy`), `MapsStayInStep` (`MapsInStep`). `HandleInv`:
  an open handle keeps its inode number from being reused, so that the mapping read behind it is that
  of the namespace; a task that is still in the namespace when it is looked at for the second time was
  there when its mapping was read. `MapInv`: an open gate stands for an open handle, an elapsed grace
  period and all user keys of the namespace; half-done work is the victim's or that of a cancelled
  scanner. `HookInv`: a lookup of the BPF program whose generations are still published has read under
  that gate, which is why the second lookup of the gates is needed.

### Log sources

* `SourceTyped` and `LinesAreInOrder` (`InOrderOnce`), without assumptions. `ContentInv` orders the
  lines within and across files. `RenameInv` is the point of the proof: the events hold at most one
  rename, which is that of the watched file, that file never gets the path again, and no such event is
  left when the source opens the path once more; so a reopened file is a newer one, and reading it from
  its beginning repeats nothing. `SeenInv`: nothing unread in the open file or a newer one is older than
  what was read.

### Updater

`UpdaterTyped`, `BinaryIsKept` (`Spec => []PreviousBinaryKept`) and `InstalledBinaryRuns`
(`Spec => []ServiceRunsInstalled`), for working and broken releases and without further assumptions, from
what `swapBinary` knows at each step of the files (`FilesInv`), of the binary it has yet to replace
(`PreviousInv`) and of the service (`ServiceInv`).

### Assumptions on constants

They are the named `ASSUME`s of the modules, and TLC evaluates them in every run of the module:
besides types and bounds that are natural numbers they say that model values such as `None` and `Torn`
differ from what they stand beside, that `LogMonitors` is finite, that the first retry delay is not
above the cap (`MinRetrySleep <= MaxRetrySleep`; 5 and 100 in the code), that there is at least one user
and one mount namespace (the host's own) and that lines of a `uid_map` do not overlap. What a single
theorem needs beyond them is in its `ASSUME ... PROVE`.

### Only model-checked

The liveness properties `WatchedBanIsLifted`, `Converges`, `RestartsEnd`, `GuardedEventually`, `ControllerEnds`,
`LinesArrive` and `SourceEnds`: fairness and ENABLED are outside the proof system's reach.

## 5. Not modelled

* Cryptography and the wire format: pure encoding.
* The resource monitor and its snapshots: one sequential loop that compares floating point
  measurements with limits. Its only shared state is the export queue, which `Connector` has. (The
  `uint64` differences of traffic counters wrap when an interface disappears; a model of the
  arithmetic would restate it.)
* The text of log lines and events, and the patterns.
* Loading of BPF programs, capacity of BPF maps and of the command controller's ring buffer (a full
  buffer loses a report, never a decision), and the mode `logger`, which makes the same decision and
  does not deny.
* `Install`, `-s`, `-t` and the LSM set-up: each edits files or prints once, on request. That
  `swapBinary` leaves the service stopped when its first rename fails is in `Updater` a legal outcome,
  as in the repository's test of it.
* `LoadConfigReadOnly` failing in `RunMonitoring` ends the process, as `Exit` does.

## 6. Plan

1. `Agent`: `BanPool` and `Connector` composed, for the firewall settings that a reload changes and
   the ban pool does not see.
2. Proofs: what remains true with failing checks (`RuleHasRow` for the addresses no check failed on) and
   with a failing database (`ActiveRowEnforced` outside the row a failed `Delete` left), so that the two
   theorems lose an assumption each.
3. Proofs: the safety part of the liveness arguments, where it is an invariant of its own: a row in a
   running cycle has a goroutine, and a source that waits has a reason to.
