------------------------------ MODULE Connector ------------------------------
(***************************************************************************)
(* pkg/connector/connector.go inside the cycles of pkg/monitor/monitor.go: *)
(* the session with the dashboard, the restart it asks for, and the queue  *)
(* of alerts.                                                              *)
(*                                                                         *)
(* Goroutines: Run of the connector (cpc), its readLoop (rpc), and the     *)
(* hub with the other monitors (up).  They share the file, the restart     *)
(* channel (token), the cycle's context (live) and the connection.         *)
(*                                                                         *)
(* The dashboard is external: it answers hello with set_config, sends      *)
(* set_config again when the settings change, and may close or break the   *)
(* connection at any time.                                                 *)
(***************************************************************************)
EXTENDS Integers, Sequences, Config

CONSTANTS
    MinRetrySleep, MaxRetrySleep, RetrySleepStep,
    ExportQueueSize,    \* exportQueueSize (1024)
    MaxEvents,          \* bound: events the monitors raise
    MaxChanges,         \* bound: changes on the dashboard
    MaxBreaks,          \* bound: failures of the connection, the server or a monitor
    MaxCrashes,         \* bound: process deaths
    MaxInbox,           \* bound: frames on their way to the agent
    TornWrites,         \* whether a crash may hit SaveConfig half way
    LocalIpsKnown,      \* the outcomes of listing the network interfaces
    NoPayload

ASSUME ConnectorAssumption ==
    /\ MinRetrySleep \in Nat /\ MaxRetrySleep \in Nat /\ RetrySleepStep \in Nat \ {0}
    /\ MinRetrySleep <= MaxRetrySleep
    /\ ExportQueueSize \in Nat \ {0} /\ MaxInbox \in Nat \ {0}
    /\ MaxEvents \in Nat /\ MaxChanges \in Nat /\ MaxBreaks \in Nat /\ MaxCrashes \in Nat
    /\ TornWrites \in BOOLEAN
    /\ LocalIpsKnown \subseteq BOOLEAN /\ LocalIpsKnown # {}

VARIABLES
    file,       \* config.yaml
    running,    \* the shared *config.Config
    live,       \* the cycle's context is not cancelled
    token,      \* the restart channel (capacity 1) is full
    up,         \* the other monitors of the cycle run
    cpc,        \* Run: loop sleep dial hello await apply ack restart cancel serve close drain done
    rpc,        \* readLoop: read apply ack restart cancel done
    got,        \* the set_config each of them is working on
    verdict,    \* what applyConfig made of it: "same", "saved" or "error"
    retrySleep,
    ws,         \* c.ws is not nil
    queue,      \* exportChan
    raised,     \* events raised so far
    srv,        \* the dashboard's view: closed, open, greeted, acked, refused
    inbox,      \* frames from the dashboard
    want,       \* the settings on the dashboard
    delivered,  \* the last event the dashboard received
    changes, breaks, crashes    \* what is left of the bounds

agent == <<cpc, rpc, got, verdict, retrySleep, ws>>
hub == <<running, live, token, up>>
server == <<srv, inbox, want, delivered, changes>>
vars == <<file, agent, hub, queue, raised, server, breaks, crashes>>

Goroutines == {"run", "reader"}

(* A frame: set_config with its payload, get_config (which is answered, as little *)
(* to the state as the complaint about an unknown operation is), or garbage.      *)
SetConfig(p) == [kind |-> "set", payload |-> p]
OtherFrames == {[kind |-> k, payload |-> NoPayload] : k \in {"get", "garbage"}}

Init ==
    /\ file = Installed
    /\ running = FilterDockerChains(Installed)
    /\ live = TRUE /\ token = FALSE /\ up = TRUE
    /\ cpc = "loop" /\ rpc = "done"
    /\ got = [g \in Goroutines |-> NoPayload]
    /\ verdict = [g \in Goroutines |-> "none"]
    /\ retrySleep = MinRetrySleep
    /\ ws = FALSE
    /\ queue = <<>> /\ raised = 0
    /\ srv = "closed" /\ inbox = <<>> /\ delivered = 0
    /\ want \in {p \in Payload : Validate(p)}
    /\ changes = MaxChanges /\ breaks = MaxBreaks /\ crashes = MaxCrashes

-----------------------------------------------------------------------------
(***************************************************************************)
(* send.  A closed c.ws is an error.  On a connection that the peer has    *)
(* dropped the write may fail or vanish.  Effect is what the dashboard     *)
(* does when the message arrives.                                          *)
(***************************************************************************)
Send(ok, Effect, NoEffect) ==
    \/ ~ws /\ ~ok /\ NoEffect
    \/ ws /\ srv = "closed" /\ NoEffect
    \/ ws /\ srv # "closed" /\ ok /\ Effect

(* Seeded fault: the configuration is saved without comparing it. *)
ApplyConfigAlways(g) ==
    \E known \in LocalIpsKnown :
        LET incoming == Incoming(got[g], running, known)
        IN  IF Validate(incoming)
            THEN /\ verdict' = [verdict EXCEPT ![g] = "saved"]
                 /\ file' = Stored(incoming)
                 /\ UNCHANGED breaks
            ELSE verdict' = [verdict EXCEPT ![g] = "error"] /\ UNCHANGED <<file, breaks>>

(***************************************************************************)
(* applyConfig(envelope) for goroutine g: refused, equal to the running    *)
(* configuration, saved, or an error for the moment: a log file that       *)
(* Validate does not find, a SaveConfig that could not open the file.      *)
(***************************************************************************)
ApplyConfig(g) ==
    \/ \E known \in LocalIpsKnown :
         LET incoming == Incoming(got[g], running, known)
         IN  /\ \/ /\ ~Validate(incoming)
                   /\ verdict' = [verdict EXCEPT ![g] = "error"] /\ UNCHANGED file
                \/ /\ Validate(incoming) /\ incoming = running
                   /\ verdict' = [verdict EXCEPT ![g] = "same"] /\ UNCHANGED file
                \/ /\ Validate(incoming) /\ incoming # running
                   /\ verdict' = [verdict EXCEPT ![g] = "saved"]
                   /\ file' = Stored(incoming)
             /\ UNCHANGED breaks
    \/ /\ breaks > 0 /\ breaks' = breaks - 1
       /\ verdict' = [verdict EXCEPT ![g] = "error"]
       /\ UNCHANGED file

(* The goroutine forgets the message it has dealt with. *)
Forget(g) == /\ got' = [got EXCEPT ![g] = NoPayload]
             /\ verdict' = [verdict EXCEPT ![g] = "none"]

(* acknowledge: the dashboard gets the ack, "ok" or "error", of a set_config. *)
AckArrives(g) == /\ srv' = IF verdict[g] = "error" THEN "refused" ELSE "acked"
                 /\ UNCHANGED <<inbox, want, delivered, changes>>

-----------------------------------------------------------------------------
(* Run *)

RunLoop ==
    /\ cpc = "loop"
    /\ cpc' = IF live THEN "sleep" ELSE "done"
    /\ UNCHANGED <<file, rpc, got, verdict, retrySleep, ws, hub, queue, raised, server, breaks, crashes>>

(* The timer and the cancelled context race. *)
RunSleep ==
    /\ cpc = "sleep"
    /\ cpc' \in IF live THEN {"dial"} ELSE {"dial", "done"}
    /\ UNCHANGED <<file, rpc, got, verdict, retrySleep, ws, hub, queue, raised, server, breaks, crashes>>

(* connect failed: the next attempt waits longer.  The limit is looked at before *)
(* the step is added, so that the last wait is longer than MaxRetrySleep.        *)
ConnectFails ==
    /\ cpc' = "loop"
    /\ retrySleep' = IF retrySleep < MaxRetrySleep THEN retrySleep + RetrySleepStep
                     ELSE retrySleep

DialFails ==
    /\ cpc = "dial"
    /\ ConnectFails
    /\ UNCHANGED <<file, rpc, got, verdict, ws, hub, queue, raised, server, breaks, crashes>>

Dial ==
    /\ cpc = "dial" /\ live
    /\ cpc' = "hello" /\ ws' = TRUE
    /\ srv' = "open" /\ inbox' = <<>>
    /\ UNCHANGED <<file, rpc, got, verdict, retrySleep, hub, queue, raised,
                   want, delivered, changes, breaks, crashes>>

(* handshake returned an error: connect closes the connection. *)
HandshakeFails ==
    /\ ConnectFails
    /\ ws' = FALSE
    /\ Forget("run")
    /\ srv' = "closed" /\ UNCHANGED <<inbox, want, delivered, changes>>

Hello ==
    /\ cpc = "hello"
    /\ \/ /\ Send(TRUE, srv' = "greeted" /\ inbox' = Append(inbox, SetConfig(want)), UNCHANGED <<srv, inbox>>)
          /\ cpc' = "await"
          /\ UNCHANGED <<want, delivered, changes, got, verdict, retrySleep, ws>>
       \/ Send(FALSE, FALSE, TRUE) /\ HandshakeFails
    /\ UNCHANGED <<file, rpc, hub, queue, raised, breaks, crashes>>

(* The answer must be set_config; a read error is a failure, and so is an answer *)
(* that comes after handshakeTimeout.                                            *)
AwaitConfig ==
    /\ cpc = "await"
    /\ \/ /\ inbox # <<>> /\ Head(inbox).kind = "set"
          /\ got' = [got EXCEPT !["run"] = Head(inbox).payload]
          /\ inbox' = Tail(inbox)
          /\ cpc' = "apply"
          /\ UNCHANGED <<srv, want, delivered, changes, verdict, retrySleep, ws, breaks>>
       \/ /\ IF inbox = <<>> THEN srv = "closed" ELSE Head(inbox).kind # "set"
          /\ HandshakeFails
          /\ UNCHANGED breaks
       \/ /\ breaks > 0 /\ breaks' = breaks - 1
          /\ HandshakeFails
    /\ UNCHANGED <<file, rpc, hub, queue, raised, crashes>>

HandshakeApply ==
    /\ cpc = "apply"
    /\ ApplyConfig("run")
    /\ cpc' = "ack"
    /\ UNCHANGED <<rpc, got, retrySleep, ws, hub, queue, raised, server, crashes>>

(* connect returns nil: the reader is started and the backoff is reset. *)
Connected == /\ cpc' = "serve" /\ rpc' = "read" /\ retrySleep' = MinRetrySleep
             /\ Forget("run")

(* Seeded fault: a configuration that was saved does not restart the cycle. *)
HandshakeAckOnly ==
    /\ cpc = "ack"
    /\ \/ /\ Send(TRUE, AckArrives("run"), UNCHANGED server)
          /\ verdict["run"] # "error"
          /\ Connected
          /\ UNCHANGED ws
       \/ /\ verdict["run"] = "error" \/ Send(FALSE, FALSE, TRUE)
          /\ HandshakeFails
          /\ UNCHANGED rpc
    /\ UNCHANGED <<file, hub, queue, raised, breaks, crashes>>

HandshakeAck ==
    /\ cpc = "ack"
    /\ \/ /\ Send(TRUE, AckArrives("run"), UNCHANGED server)
          /\ \/ verdict["run"] = "same" /\ Connected
             \/ verdict["run"] = "saved" /\ cpc' = "restart"
                /\ UNCHANGED <<rpc, retrySleep, got, verdict>>
          /\ UNCHANGED ws
       \/ /\ verdict["run"] = "error" \/ Send(FALSE, FALSE, TRUE)
          /\ HandshakeFails
          /\ UNCHANGED rpc
    /\ UNCHANGED <<file, hub, queue, raised, breaks, crashes>>

(* requestRestart: the token first, if there is room for it, then cancel. *)
HandshakeRestart ==
    /\ cpc = "restart"
    /\ token' = TRUE /\ cpc' = "cancel"
    /\ UNCHANGED <<file, rpc, got, verdict, retrySleep, ws, running, live, up,
                   queue, raised, server, breaks, crashes>>

HandshakeCancel ==
    /\ cpc = "cancel"
    /\ live' = FALSE
    /\ Connected
    /\ UNCHANGED <<file, ws, running, token, up, queue, raised, server, breaks, crashes>>

(* Seeded fault: an alert that could not be sent is put back, behind the others. *)
ServeAlertRequeued ==
    /\ cpc = "serve" /\ queue # <<>>
    /\ \/ /\ Send(TRUE, delivered' = Head(queue), UNCHANGED delivered)
          /\ queue' = Tail(queue)
          /\ UNCHANGED cpc
       \/ /\ srv = "closed"
          /\ cpc' = "close" /\ queue' = Append(Tail(queue), Head(queue))
          /\ UNCHANGED delivered
    /\ UNCHANGED <<file, rpc, got, verdict, retrySleep, ws, hub, raised,
                   srv, inbox, want, changes, breaks, crashes>>

(* serve takes an alert off the queue; one that cannot be sent is lost.  The hub *)
(* never closes the channel, so that serve never sees it closed.                 *)
ServeAlert ==
    /\ cpc = "serve" /\ queue # <<>>
    /\ queue' = Tail(queue)
    /\ \/ /\ Send(TRUE, delivered' = Head(queue), UNCHANGED delivered)
          /\ UNCHANGED cpc
       \/ /\ Send(FALSE, FALSE, TRUE)
          /\ cpc' = "close"
          /\ UNCHANGED delivered
    /\ UNCHANGED <<file, rpc, got, verdict, retrySleep, ws, hub, raised,
                   srv, inbox, want, changes, breaks, crashes>>

(* serve returns: the context is cancelled or the reader has failed. *)
ServeReturns ==
    /\ cpc = "serve" /\ (~live \/ rpc = "done")
    /\ cpc' = "close"
    /\ UNCHANGED <<file, rpc, got, verdict, retrySleep, ws, hub, queue, raised, server, breaks, crashes>>

(* The deferred closeWS. *)
ServeCloses ==
    /\ cpc = "close"
    /\ ws' = FALSE /\ srv' = "closed" /\ cpc' = "drain"
    /\ UNCHANGED <<file, rpc, got, verdict, retrySleep, hub, queue, raised,
                   inbox, want, delivered, changes, breaks, crashes>>

(* Seeded fault: the end of readLoop is not waited for. *)
ServeDoesNotDrain ==
    /\ cpc = "drain"
    /\ cpc' = "loop"
    /\ UNCHANGED <<file, rpc, got, verdict, retrySleep, ws, hub, queue, raised, server, breaks, crashes>>

(* ... and <-c.readDone. *)
ServeDrains ==
    /\ cpc = "drain" /\ rpc = "done"
    /\ cpc' = "loop"
    /\ UNCHANGED <<file, rpc, got, verdict, retrySleep, ws, hub, queue, raised, server, breaks, crashes>>

-----------------------------------------------------------------------------
(* readLoop *)

(* A frame is read; what is buffered can be read after the close as well. *)
ReaderReads ==
    /\ rpc = "read" /\ inbox # <<>>
    /\ inbox' = Tail(inbox)
    /\ CASE Head(inbox).kind = "set" ->
              got' = [got EXCEPT !["reader"] = Head(inbox).payload] /\ rpc' = "apply"
         [] Head(inbox).kind = "garbage" -> rpc' = "done" /\ UNCHANGED got
         [] OTHER -> UNCHANGED <<rpc, got>>
    /\ UNCHANGED <<file, cpc, verdict, retrySleep, ws, hub, queue, raised,
                   srv, want, delivered, changes, breaks, crashes>>

(* The connection is closed by either side, or the read deadline is over. *)
ReaderFails ==
    /\ rpc = "read" /\ (~ws \/ srv = "closed")
    /\ rpc' = "done"
    /\ UNCHANGED <<file, cpc, got, verdict, retrySleep, ws, hub, queue, raised, server, breaks, crashes>>

ReaderApply ==
    /\ rpc = "apply"
    /\ ApplyConfig("reader")
    /\ rpc' = "ack"
    /\ UNCHANGED <<cpc, got, retrySleep, ws, hub, queue, raised, server, crashes>>

(* handle: no restart when the ack cannot be sent, whatever was saved. *)
ReaderAck ==
    /\ rpc = "ack"
    /\ \/ /\ Send(TRUE, AckArrives("reader"), UNCHANGED server)
          /\ verdict["reader"] = "saved"
          /\ rpc' = "restart" /\ UNCHANGED <<got, verdict>>
       \/ /\ \/ Send(TRUE, AckArrives("reader"), UNCHANGED server) /\ verdict["reader"] # "saved"
             \/ Send(FALSE, FALSE, TRUE) /\ UNCHANGED server
          /\ rpc' = "read" /\ Forget("reader")
    /\ UNCHANGED <<file, cpc, retrySleep, ws, hub, queue, raised, breaks, crashes>>

ReaderRestart ==
    /\ rpc = "restart"
    /\ token' = TRUE /\ rpc' = "cancel"
    /\ UNCHANGED <<file, cpc, got, verdict, retrySleep, ws, running, live, up,
                   queue, raised, server, breaks, crashes>>

ReaderCancel ==
    /\ rpc = "cancel"
    /\ live' = FALSE /\ rpc' = "read" /\ Forget("reader")
    /\ UNCHANGED <<file, cpc, retrySleep, ws, running, token, up,
                   queue, raised, server, breaks, crashes>>

-----------------------------------------------------------------------------
(* monitorHub *)

(* Seeded fault: the queue takes one alert more than it has room for. *)
ExportOverfull ==
    /\ up /\ raised < MaxEvents
    /\ raised' = raised + 1
    /\ queue' = IF running.exporter /\ Len(queue) <= ExportQueueSize
                THEN Append(queue, raised') ELSE queue
    /\ UNCHANGED <<file, agent, hub, server, breaks, crashes>>

(* export: an event is queued or, with a full queue, dropped. *)
Export ==
    /\ up /\ raised < MaxEvents
    /\ raised' = raised + 1
    /\ queue' = IF running.exporter /\ Len(queue) < ExportQueueSize
                THEN Append(queue, raised') ELSE queue
    /\ UNCHANGED <<file, agent, hub, server, breaks, crashes>>

(* A monitor that cannot start cancels the cycle. *)
MonitorCancels ==
    /\ up /\ live /\ breaks > 0
    /\ live' = FALSE /\ breaks' = breaks - 1
    /\ UNCHANGED <<file, agent, running, token, up, queue, raised, server, crashes>>

MonitorsStop ==
    /\ up /\ ~live
    /\ up' = FALSE
    /\ UNCHANGED <<file, agent, running, live, token, queue, raised, server, breaks, crashes>>

(* Seeded fault: the token is not taken out of the restart channel. *)
StartCycleKeepingToken(cfg) ==
    /\ running' = cfg
    /\ live' = TRUE /\ up' = TRUE /\ UNCHANGED token
    /\ cpc' = IF cfg.exporter THEN "loop" ELSE "done"
    /\ retrySleep' = MinRetrySleep /\ ws' = FALSE

(* A cycle begins: a fresh context and the monitors, the connector if there is *)
(* an exporter.                                                                *)
StartCycle(cfg) ==
    /\ running' = cfg
    /\ live' = TRUE /\ token' = FALSE /\ up' = TRUE
    /\ cpc' = IF cfg.exporter THEN "loop" ELSE "done"
    /\ retrySleep' = MinRetrySleep /\ ws' = FALSE

(* wg.Wait has returned and the restart channel holds a token: reload. *)
RestartCycle ==
    /\ ~up /\ cpc = "done" /\ token
    /\ StartCycle(Loaded(file))
    /\ UNCHANGED <<file, rpc, got, verdict, queue, raised, server, breaks, crashes>>

(* A process starts: LoadConfig writes the file again, Validate accepts it and   *)
(* banpool.New filters.  Where one of them returns an error the process exits    *)
(* before anything is started and the service manager tries again: with settings *)
(* that Validate refuses no start ever succeeds, and any other failing start is  *)
(* part of the step that stands for the one that succeeds.                       *)
StartProcess(f) ==
    /\ Validate(Loaded(f))
    /\ file' = Stored(Loaded(f))
    /\ StartCycle(FilterDockerChains(Loaded(f)))
    /\ rpc' = "done"
    /\ got' = [g \in Goroutines |-> NoPayload]
    /\ verdict' = [g \in Goroutines |-> "none"]
    /\ queue' = <<>>
    /\ srv' = "closed" /\ inbox' = <<>>
    /\ UNCHANGED <<raised, want, delivered, changes, breaks>>

(* RunMonitoring returns without a token; the service manager starts the agent. *)
Exit ==
    /\ ~up /\ cpc = "done" /\ ~token
    /\ StartProcess(file)
    /\ UNCHANGED crashes

(* A goroutine is inside applyConfig and is about to write the file. *)
Saving == \E pc \in {<<"run", cpc>>, <<"reader", rpc>>}, known \in LocalIpsKnown :
            /\ pc[2] = "apply"
            /\ Validate(got[pc[1]])
            /\ Incoming(got[pc[1]], running, known) # running

(* The process dies and is started again. *)
Crash(torn) ==
    /\ crashes > 0 /\ crashes' = crashes - 1
    /\ torn => TornWrites /\ Saving
    /\ StartProcess(IF torn THEN Torn ELSE file)

-----------------------------------------------------------------------------
(* The dashboard and the network. *)

(* The settings change; a session that has said hello is sent them. *)
ServerChanges ==
    /\ changes > 0 /\ Len(inbox) < MaxInbox
    /\ changes' = changes - 1
    /\ want' \in Payload \ {want}
    /\ inbox' = IF srv \in {"closed", "open"} THEN inbox ELSE Append(inbox, SetConfig(want'))
    /\ UNCHANGED <<file, agent, hub, queue, raised, srv, delivered, breaks, crashes>>

ServerSends ==
    /\ breaks > 0 /\ srv # "closed" /\ Len(inbox) < MaxInbox
    /\ breaks' = breaks - 1
    /\ \E f \in OtherFrames : inbox' = Append(inbox, f)
    /\ UNCHANGED <<file, agent, hub, queue, raised, srv, want, delivered, changes, crashes>>

SessionBreaks ==
    /\ breaks > 0 /\ srv # "closed"
    /\ breaks' = breaks - 1
    /\ srv' = "closed"
    /\ UNCHANGED <<file, agent, hub, queue, raised, inbox, want, delivered, changes, crashes>>

-----------------------------------------------------------------------------
RunStep == \/ RunLoop \/ RunSleep \/ DialFails \/ Dial \/ Hello \/ AwaitConfig
           \/ HandshakeApply \/ HandshakeAck \/ HandshakeRestart \/ HandshakeCancel
           \/ ServeAlert \/ ServeReturns \/ ServeCloses \/ ServeDrains

ReaderStep == \/ ReaderReads \/ ReaderFails \/ ReaderApply \/ ReaderAck
              \/ ReaderRestart \/ ReaderCancel

HubStep == MonitorsStop \/ RestartCycle \/ Exit

Next ==
    \/ RunStep \/ ReaderStep \/ HubStep
    \/ Export \/ MonitorCancels
    \/ \E torn \in BOOLEAN : Crash(torn)
    \/ ServerChanges \/ ServerSends \/ SessionBreaks

Spec == Init /\ [][Next]_vars

(***************************************************************************)
(* Every goroutine that can run does; the endpoint is reachable again and  *)
(* again.  Nothing is assumed of the dashboard's changes, of failures or   *)
(* of crashes except that the bounds make them finite.                     *)
(***************************************************************************)
Fairness == WF_vars(RunStep) /\ WF_vars(ReaderStep) /\ WF_vars(HubStep) /\ SF_vars(Dial)

FairSpec == Spec /\ Fairness

-----------------------------------------------------------------------------
(* The type of every variable of the session, the hub and the dashboard. *)
TypeOK ==
    /\ file \in Config /\ running \in Config
    /\ live \in BOOLEAN /\ token \in BOOLEAN /\ up \in BOOLEAN /\ ws \in BOOLEAN
    /\ cpc \in {"loop", "sleep", "dial", "hello", "await", "apply", "ack", "restart",
                "cancel", "serve", "close", "drain", "done"}
    /\ rpc \in {"read", "apply", "ack", "restart", "cancel", "done"}
    /\ got \in [Goroutines -> Payload \cup {NoPayload}]
    /\ verdict \in [Goroutines -> {"none", "same", "saved", "error"}]
    /\ retrySleep \in Nat /\ retrySleep >= MinRetrySleep
    /\ Len(queue) <= ExportQueueSize
    /\ srv \in {"closed", "open", "greeted", "acked", "refused"}
    /\ want \in Payload

(***************************************************************************)
(* Whatever the dashboard sends, and through every save, reload and        *)
(* restart, the agent keeps the exporter section it was installed with and *)
(* keeps its own addresses in the whitelist.                               *)
(***************************************************************************)
LocalPartsKept ==
    file.exporter /\ file.own /\ running.exporter /\ running.own

(***************************************************************************)
(* A restart token belongs to the cycle it was requested in: while the     *)
(* context is live it is only there between the two halves of              *)
(* requestRestart, so a new cycle never starts with a stale token that     *)
(* would restart it once more.                                             *)
(***************************************************************************)
NoStaleToken == token /\ live => cpc = "cancel" \/ rpc = "cancel"

(***************************************************************************)
(* The hub replaces the shared configuration only when no goroutine of the *)
(* connector is left that could read it or write the file.                 *)
(***************************************************************************)
ReloadAlone ==
    [][running' # running /\ crashes' = crashes => rpc = "done" /\ cpc = "done" /\ ~up]_vars

(***************************************************************************)
(* The dashboard gets an alert only on a session whose handshake it has    *)
(* seen acknowledged, each alert at most once and in the order raised,     *)
(* over reconnects and restarts.                                           *)
(***************************************************************************)
AlertsAfterHandshakeInOrder ==
    [][delivered' # delivered => srv \in {"acked", "refused"} /\ delivered' > delivered]_vars

(***************************************************************************)
(* When the dashboard stops changing, the agent ends up running the        *)
(* dashboard's settings if they are valid, whatever was interrupted, or    *)
(* the dashboard has been told that they could not be saved.               *)
(***************************************************************************)
Converges == <>[](Validate(want) /\ srv # "refused" => running.body = want.body)

(* A session whose settings equal the running ones does not restart the agent: *)
(* with a quiet dashboard the restarts end.                                    *)
RestartsEnd == <>[]~token
=============================================================================
