--------------------------- MODULE ConnectorProofs ---------------------------
(***************************************************************************)
(* Proofs about Connector for every set of settings, every queue size and  *)
(* every number of events, changes, failures and crashes.                  *)
(***************************************************************************)
EXTENDS Connector, SequenceTheorems, TLAPS

Frames == [kind : {"set"}, payload : Payload] \cup OtherFrames

(* The variables whose type TypeOK does not give in full, and the message  *)
(* a goroutine has in hand when it applies it.                             *)
Typed ==
    /\ TypeOK
    /\ inbox \in Seq(Frames) /\ queue \in Seq(Nat) /\ crashes \in Nat
    /\ cpc = "apply" => got["run"] \in Payload
    /\ rpc = "apply" => got["reader"] \in Payload

(***************************************************************************)
(* The order of a session.  A reader only exists while Run serves, closes  *)
(* or waits for it; once the handshake is over the dashboard has seen its  *)
(* acknowledgement or has lost the session; a token is there for a cycle   *)
(* that somebody is about to cancel or has cancelled.                      *)
(***************************************************************************)
SessionInv ==
    /\ rpc # "done" => cpc \in {"serve", "close", "drain"}
    /\ cpc \in {"restart", "cancel", "serve", "close", "drain"} => srv \in {"closed", "acked", "refused"}
    /\ NoStaleToken

(* The queue holds events in the order they were raised, all of them later *)
(* than the last one delivered.                                            *)
QueueInv ==
    /\ raised \in Nat /\ delivered \in 0 .. raised
    /\ \A i \in 1 .. Len(queue) : queue[i] \in delivered + 1 .. raised
    /\ \A i, j \in 1 .. Len(queue) : i < j => queue[i] < queue[j]

IInv == Typed /\ SessionInv /\ QueueInv

-----------------------------------------------------------------------------
(* What happens to a configuration. *)

LEMMA ConfigSteps ==
    /\ Installed \in Config
    /\ \A c \in Config :
        /\ Stored(c) \in Config /\ Stored(c).exporter = c.exporter /\ Stored(c).own = c.own
        /\ FilterDockerChains(c) \in Config
        /\ FilterDockerChains(c).exporter = c.exporter /\ FilterDockerChains(c).own = c.own
        /\ Loaded(c) = c
    /\ Loaded(Torn) \in Config
  <1>1. Default \in Config
    BY ConfigAssumption DEF Default, Config
  <1>2. Installed \in Config
    BY <1>1 DEF Installed, Config
  <1>3. ASSUME NEW c \in Config
        PROVE  /\ Stored(c) \in Config /\ Stored(c).exporter = c.exporter /\ Stored(c).own = c.own
               /\ FilterDockerChains(c) \in Config
               /\ FilterDockerChains(c).exporter = c.exporter /\ FilterDockerChains(c).own = c.own
               /\ Loaded(c) = c
    <2>1. Stored(c) \in Config /\ Stored(c).exporter = c.exporter /\ Stored(c).own = c.own
      BY DEF Stored, Config
    <2>2. [c EXCEPT !.chains = "cut"] \in Config /\ [c EXCEPT !.chains = "cut"].exporter = c.exporter
          /\ [c EXCEPT !.chains = "cut"].own = c.own
      BY DEF Config
    <2>3. Loaded(c) = c
      BY TornAssumption DEF Loaded
    <2> QED
      BY <2>1, <2>2, <2>3 DEF FilterDockerChains
  <1>4. Loaded(Torn) \in Config
    BY <1>1 DEF Loaded
  <1> QED
    BY <1>2, <1>3, <1>4

LEMMA IncomingType ==
    ASSUME NEW p \in Payload, NEW cfg \in Config, NEW known \in BOOLEAN
    PROVE  /\ Incoming(p, cfg, known) \in Config
           /\ Incoming(p, cfg, known).exporter = cfg.exporter
           /\ Incoming(p, cfg, known).own = known
  <1> DEFINE c == [body |-> p.body, lists |-> IF p.null THEN "nil" ELSE "set",
                   chains |-> "all", exporter |-> cfg.exporter, own |-> FALSE]
  <1>1. c \in Config /\ c.exporter = cfg.exporter /\ c.own = FALSE
    BY DEF Config, Payload
  <1>2. Incoming(p, cfg, known) = [c EXCEPT !.own = @ \/ known]
    BY DEF Incoming, KeepLocalIps
  <1> HIDE DEF c
  <1> QED
    BY <1>1, <1>2 DEF Config

(* What applyConfig leaves behind. *)
LEMMA ApplyEffect ==
    ASSUME Typed, NEW g \in Goroutines, got[g] \in Payload, ApplyConfig(g)
    PROVE  /\ file' \in Config
           /\ verdict' \in [Goroutines -> {"none", "same", "saved", "error"}]
           /\ \/ file' = file
              \/ \E known \in LocalIpsKnown :
                    file'.exporter = running.exporter /\ file'.own = known
  <1>1. file \in Config /\ running \in Config
        /\ verdict \in [Goroutines -> {"none", "same", "saved", "error"}]
    BY DEF Typed, TypeOK
  <1>2. verdict' \in [Goroutines -> {"none", "same", "saved", "error"}]
    BY <1>1 DEF ApplyConfig
  <1>3. CASE file' = file
    BY <1>1, <1>2, <1>3
  <1>4. ASSUME NEW known \in LocalIpsKnown, file' = Stored(Incoming(got[g], running, known))
        PROVE  file' \in Config /\ file'.exporter = running.exporter /\ file'.own = known
    <2>1. known \in BOOLEAN
      BY ConnectorAssumption
    <2>2. /\ Incoming(got[g], running, known) \in Config
          /\ Incoming(got[g], running, known).exporter = running.exporter
          /\ Incoming(got[g], running, known).own = known
      BY <1>1, <2>1, IncomingType
    <2> QED
      BY <1>4, <2>2, ConfigSteps
  <1>5. \/ file' = file
        \/ \E known \in LocalIpsKnown : file' = Stored(Incoming(got[g], running, known))
    BY DEF ApplyConfig
  <1> QED
    BY <1>2, <1>3, <1>4, <1>5

-----------------------------------------------------------------------------
(* Types. *)

LEMMA ForgetTyped ==
    ASSUME Typed, NEW g \in Goroutines, Forget(g)
    PROVE  /\ got' \in [Goroutines -> Payload \cup {NoPayload}]
           /\ verdict' \in [Goroutines -> {"none", "same", "saved", "error"}]
           /\ \A h \in Goroutines : h # g => got'[h] = got[h]
  BY DEF Forget, Typed, TypeOK

LEMMA ConnectFailsTyped ==
    ASSUME Typed, ConnectFails
    PROVE  retrySleep' \in Nat /\ retrySleep' >= MinRetrySleep /\ cpc' = "loop"
  BY ConnectorAssumption DEF ConnectFails, Typed, TypeOK

LEMMA SleepType == MinRetrySleep \in Nat /\ MinRetrySleep >= MinRetrySleep
  BY ConnectorAssumption

LEMMA FrameTypes ==
    ASSUME Typed
    PROVE  /\ \A p \in Payload : Append(inbox, SetConfig(p)) \in Seq(Frames)
           /\ \A f \in OtherFrames : Append(inbox, f) \in Seq(Frames)
           /\ inbox # <<>> => /\ Tail(inbox) \in Seq(Frames)
                              /\ Head(inbox).kind = "set" => Head(inbox).payload \in Payload
  <1>1. inbox \in Seq(Frames)
    BY DEF Typed
  <1>2. \A p \in Payload : SetConfig(p) \in Frames
    BY DEF SetConfig, Frames
  <1>3. \A f \in OtherFrames : f \in Frames /\ f.kind # "set"
    BY DEF OtherFrames, Frames
  <1>4. \A f \in Frames : f.kind = "set" => f.payload \in Payload
    BY <1>3 DEF Frames
  <1>5. inbox # <<>> => Head(inbox) \in Frames /\ Tail(inbox) \in Seq(Frames)
    BY <1>1, HeadTailProperties
  <1>6. \A f \in Frames : Append(inbox, f) \in Seq(Frames)
    BY <1>1, AppendProperties
  <1> QED
    BY <1>2, <1>3, <1>4, <1>5, <1>6

LEMMA RunTyped ==
    ASSUME Typed, RunStep
    PROVE  Typed'
  <1> USE DEF Typed, TypeOK, Goroutines
  <1>1. CASE RunLoop \/ RunSleep \/ ServeReturns \/ ServeCloses \/ ServeDrains
    <2>1. CASE RunLoop
      BY <2>1 DEF RunLoop, hub, server
    <2>2. CASE RunSleep
      BY <2>2 DEF RunSleep, hub, server
    <2>3. CASE ServeReturns
      BY <2>3 DEF ServeReturns, hub, server
    <2>4. CASE ServeCloses
      BY <2>4 DEF ServeCloses, hub, server
    <2>5. CASE ServeDrains
      BY <2>5 DEF ServeDrains, hub, server
    <2> QED
      BY <1>1, <2>1, <2>2, <2>3, <2>4, <2>5
  <1>2. CASE DialFails
    BY <1>2, ConnectFailsTyped DEF DialFails, hub, server
  <1>3. CASE Dial
    BY <1>3, EmptySeq DEF Dial, hub
  <1>4. ASSUME HandshakeFails, UNCHANGED <<file, rpc, hub, queue, raised, crashes>>
        PROVE  Typed'
    <2>1. retrySleep' \in Nat /\ retrySleep' >= MinRetrySleep /\ cpc' = "loop"
      BY <1>4, ConnectFailsTyped DEF HandshakeFails
    <2>2. /\ got' \in [Goroutines -> Payload \cup {NoPayload}]
          /\ verdict' \in [Goroutines -> {"none", "same", "saved", "error"}]
          /\ got'["reader"] = got["reader"]
      BY <1>4, ForgetTyped DEF HandshakeFails
    <2> QED
      BY <1>4, <2>1, <2>2 DEF HandshakeFails, hub
  <1>5. CASE Hello
    <2>1. CASE /\ Send(TRUE, srv' = "greeted" /\ inbox' = Append(inbox, SetConfig(want)),
                       UNCHANGED <<srv, inbox>>)
               /\ cpc' = "await"
               /\ UNCHANGED <<want, delivered, changes, got, verdict, retrySleep, ws>>
      <3>1. inbox' \in Seq(Frames)
        BY <2>1, FrameTypes DEF Send
      <3>2. srv' \in {"closed", "open", "greeted", "acked", "refused"}
        BY <2>1 DEF Send
      <3> QED
        BY <1>5, <2>1, <3>1, <3>2 DEF Hello, hub
    <2>2. CASE HandshakeFails
      BY <1>4, <1>5, <2>2 DEF Hello
    <2> QED
      BY <1>5, <2>1, <2>2 DEF Hello
  <1>6. CASE AwaitConfig
    <2>1. CASE HandshakeFails
      BY <1>4, <1>6, <2>1 DEF AwaitConfig
    <2>2. CASE /\ inbox # <<>> /\ Head(inbox).kind = "set"
               /\ got' = [got EXCEPT !["run"] = Head(inbox).payload]
               /\ inbox' = Tail(inbox)
               /\ cpc' = "apply"
               /\ UNCHANGED <<srv, want, delivered, changes, verdict, retrySleep, ws, breaks>>
      <3>1. Head(inbox).payload \in Payload /\ Tail(inbox) \in Seq(Frames)
        BY <2>2, FrameTypes
      <3>2. /\ got' \in [Goroutines -> Payload \cup {NoPayload}]
            /\ got'["run"] \in Payload /\ got'["reader"] = got["reader"]
        BY <2>2, <3>1
      <3> QED
        BY <1>6, <2>2, <3>1, <3>2 DEF AwaitConfig, hub
    <2> QED
      BY <1>6, <2>1, <2>2 DEF AwaitConfig
  <1>7. CASE HandshakeApply
    <2>1. file' \in Config /\ verdict' \in [Goroutines -> {"none", "same", "saved", "error"}]
      BY <1>7, ApplyEffect DEF HandshakeApply
    <2> QED
      BY <1>7, <2>1 DEF HandshakeApply, hub, server
  <1>8. ASSUME Connected,
               srv' \in {"closed", "open", "greeted", "acked", "refused"},
               UNCHANGED <<file, ws, running, token, up, queue, inbox, want, crashes>>,
               live' \in BOOLEAN
        PROVE  Typed'
    <2>1. /\ got' \in [Goroutines -> Payload \cup {NoPayload}]
          /\ verdict' \in [Goroutines -> {"none", "same", "saved", "error"}]
      BY <1>8, ForgetTyped DEF Connected
    <2> QED
      BY <1>8, <2>1, SleepType DEF Connected
  <1>9. CASE HandshakeAck
    <2>1. CASE HandshakeFails /\ UNCHANGED rpc
      BY <1>4, <1>9, <2>1 DEF HandshakeAck
    <2>2. CASE Send(TRUE, AckArrives("run"), UNCHANGED server) /\ UNCHANGED ws
      <3>1. srv' \in {"closed", "open", "greeted", "acked", "refused"} /\ UNCHANGED <<inbox, want>>
        BY <2>2 DEF Send, AckArrives, server
      <3>2. CASE Connected
        BY <1>8, <1>9, <2>2, <3>1, <3>2 DEF HandshakeAck, hub
      <3>3. CASE cpc' = "restart" /\ UNCHANGED <<rpc, retrySleep, got, verdict>>
        BY <1>9, <2>2, <3>1, <3>3 DEF HandshakeAck, hub
      <3>4. CASE HandshakeFails /\ UNCHANGED rpc
        BY <1>4, <1>9, <3>4 DEF HandshakeAck
      <3> QED
        BY <1>9, <3>2, <3>3, <3>4 DEF HandshakeAck
    <2> QED
      BY <1>9, <2>1, <2>2 DEF HandshakeAck
  <1>10. CASE HandshakeRestart
    BY <1>10 DEF HandshakeRestart, server
  <1>11. CASE HandshakeCancel
    BY <1>8, <1>11 DEF HandshakeCancel, server
  <1>12. CASE ServeAlert
    <2>1. queue' \in Seq(Nat) /\ Len(queue') <= ExportQueueSize
      <3>1. Tail(queue) \in Seq(Nat) /\ Len(Tail(queue)) = Len(queue) - 1 /\ Len(queue) \in Nat
        BY <1>12, HeadTailProperties, LenProperties DEF ServeAlert
      <3> QED
        BY <1>12, <3>1, ConnectorAssumption DEF ServeAlert
    <2>2. cpc' \in {cpc, "close"}
      BY <1>12 DEF ServeAlert
    <2> QED
      BY <1>12, <2>1, <2>2 DEF ServeAlert, hub
  <1> QED
    BY <1>1, <1>2, <1>3, <1>5, <1>6, <1>7, <1>9, <1>10, <1>11, <1>12 DEF RunStep

LEMMA ReaderTyped ==
    ASSUME Typed, ReaderStep
    PROVE  Typed'
  <1> USE DEF Typed, TypeOK, Goroutines
  <1>1. CASE ReaderReads
    <2>1. Tail(inbox) \in Seq(Frames) /\ (Head(inbox).kind = "set" => Head(inbox).payload \in Payload)
      BY <1>1, FrameTypes DEF ReaderReads
    <2>2. CASE Head(inbox).kind = "set"
      <3>1. got' = [got EXCEPT !["reader"] = Head(inbox).payload] /\ rpc' = "apply"
        BY <1>1, <2>2 DEF ReaderReads
      <3>2. /\ got' \in [Goroutines -> Payload \cup {NoPayload}]
            /\ got'["reader"] \in Payload /\ got'["run"] = got["run"]
        BY <2>1, <2>2, <3>1
      <3> QED
        BY <1>1, <2>1, <3>1, <3>2 DEF ReaderReads, hub
    <2>3. CASE Head(inbox).kind # "set"
      <3>1. rpc' \in {rpc, "done"} /\ UNCHANGED got
        BY <1>1, <2>3 DEF ReaderReads
      <3> QED
        BY <1>1, <2>1, <3>1 DEF ReaderReads, hub
    <2> QED
      BY <2>2, <2>3
  <1>2. CASE ReaderFails \/ ReaderRestart
    <2>1. CASE ReaderFails
      BY <2>1 DEF ReaderFails, hub, server
    <2>2. CASE ReaderRestart
      BY <2>2 DEF ReaderRestart, hub, server
    <2> QED
      BY <1>2, <2>1, <2>2
  <1>3. CASE ReaderApply
    <2>1. file' \in Config /\ verdict' \in [Goroutines -> {"none", "same", "saved", "error"}]
      BY <1>3, ApplyEffect DEF ReaderApply
    <2> QED
      BY <1>3, <2>1 DEF ReaderApply, hub, server
  <1>4. CASE ReaderAck
    <2>1. srv' \in {"closed", "open", "greeted", "acked", "refused"} /\ UNCHANGED <<inbox, want>>
      BY <1>4 DEF ReaderAck, Send, AckArrives, server
    <2>2. CASE rpc' = "restart" /\ UNCHANGED <<got, verdict>>
      BY <1>4, <2>1, <2>2 DEF ReaderAck, hub
    <2>3. CASE rpc' = "read" /\ Forget("reader")
      <3>1. /\ got' \in [Goroutines -> Payload \cup {NoPayload}] /\ got'["run"] = got["run"]
            /\ verdict' \in [Goroutines -> {"none", "same", "saved", "error"}]
        BY <2>3, ForgetTyped
      <3> QED
        BY <1>4, <2>1, <2>3, <3>1 DEF ReaderAck, hub
    <2> QED
      BY <1>4, <2>2, <2>3 DEF ReaderAck
  <1>5. CASE ReaderCancel
    <2>1. /\ got' \in [Goroutines -> Payload \cup {NoPayload}] /\ got'["run"] = got["run"]
          /\ verdict' \in [Goroutines -> {"none", "same", "saved", "error"}]
      BY <1>5, ForgetTyped DEF ReaderCancel
    <2> QED
      BY <1>5, <2>1 DEF ReaderCancel, server
  <1> QED
    BY <1>1, <1>2, <1>3, <1>4, <1>5 DEF ReaderStep

LEMMA StartProcessTyped ==
    ASSUME Typed, NEW f, Loaded(f) \in Config, StartProcess(f), crashes' \in Nat
    PROVE  Typed'
  <1>1. file' \in Config /\ running' \in Config
    BY ConfigSteps DEF StartProcess, StartCycle
  <1>2. inbox' \in Seq(Frames) /\ queue' \in Seq(Nat) /\ Len(queue') = 0
    BY EmptySeq DEF StartProcess
  <1>3. /\ got' \in [Goroutines -> Payload \cup {NoPayload}]
        /\ verdict' \in [Goroutines -> {"none", "same", "saved", "error"}]
    BY DEF StartProcess
  <1>4. cpc' \in {"loop", "done"} /\ rpc' = "done" /\ srv' = "closed" /\ UNCHANGED want
        /\ live' = TRUE /\ token' = FALSE /\ up' = TRUE /\ ws' = FALSE /\ retrySleep' = MinRetrySleep
    BY DEF StartProcess, StartCycle
  <1>5. 0 <= ExportQueueSize
    BY ConnectorAssumption
  <1> QED
    BY <1>1, <1>2, <1>3, <1>4, <1>5, SleepType DEF Typed, TypeOK

LEMMA HubTyped ==
    ASSUME Typed, QueueInv, HubStep \/ Export \/ MonitorCancels \/ \E torn \in BOOLEAN : Crash(torn)
    PROVE  Typed'
  <1>1. CASE MonitorsStop \/ MonitorCancels
    <2>1. /\ UNCHANGED <<file, running, token, ws, cpc, rpc, got, verdict, retrySleep, queue, srv,
                         inbox, want, crashes>>
          /\ live' \in {live, FALSE} /\ up' \in {up, FALSE}
      BY <1>1 DEF MonitorsStop, MonitorCancels, agent, server
    <2>2. live' \in BOOLEAN /\ up' \in BOOLEAN
      BY <2>1 DEF Typed, TypeOK
    <2> QED
      BY <2>1, <2>2 DEF Typed, TypeOK
  <1>2. CASE RestartCycle
    <2>1. running' \in Config
      BY <1>2, ConfigSteps DEF RestartCycle, StartCycle, Typed, TypeOK
    <2>2. cpc' \in {"loop", "done"} /\ live' = TRUE /\ token' = FALSE /\ up' = TRUE /\ ws' = FALSE
          /\ retrySleep' = MinRetrySleep
      BY <1>2 DEF RestartCycle, StartCycle
    <2> QED
      BY <1>2, <2>1, <2>2, SleepType DEF RestartCycle, Typed, TypeOK, server
  <1>3. CASE Exit
    BY <1>3, StartProcessTyped, ConfigSteps DEF Exit, Typed, TypeOK
  <1>4. ASSUME NEW torn \in BOOLEAN, Crash(torn) PROVE Typed'
    <2>1. crashes' \in Nat /\ StartProcess(IF torn THEN Torn ELSE file)
      BY <1>4 DEF Crash, Typed
    <2>2. Loaded(IF torn THEN Torn ELSE file) \in Config
      BY ConfigSteps DEF Typed, TypeOK
    <2> QED
      BY <2>1, <2>2, StartProcessTyped
  <1>5. CASE Export
    <2>0. raised + 1 \in Nat
      BY DEF QueueInv
    <2>1. Append(queue, raised + 1) \in Seq(Nat) /\ Len(Append(queue, raised + 1)) = Len(queue) + 1
          /\ Len(queue) \in Nat
      BY <2>0, AppendProperties, LenProperties DEF Typed
    <2>2. queue' \in Seq(Nat) /\ Len(queue') <= ExportQueueSize
      BY <1>5, <2>1, ConnectorAssumption DEF Export, Typed, TypeOK
    <2> QED
      BY <1>5, <2>2 DEF Export, Typed, TypeOK, agent, hub, server
  <1> QED
    BY <1>1, <1>2, <1>3, <1>4, <1>5 DEF HubStep

LEMMA ServerTyped ==
    ASSUME Typed, ServerChanges \/ ServerSends \/ SessionBreaks \/ UNCHANGED vars
    PROVE  Typed'
  <1>1. CASE ServerChanges
    <2>1. want' \in Payload
      BY <1>1 DEF ServerChanges
    <2>2. inbox' \in Seq(Frames)
      BY <1>1, <2>1, FrameTypes DEF ServerChanges, Typed
    <2> QED
      BY <1>1, <2>1, <2>2 DEF ServerChanges, Typed, TypeOK, agent, hub
  <1>2. CASE ServerSends
    <2>1. inbox' \in Seq(Frames)
      BY <1>2, FrameTypes DEF ServerSends
    <2> QED
      BY <1>2, <2>1 DEF ServerSends, Typed, TypeOK, agent, hub
  <1>3. CASE SessionBreaks \/ UNCHANGED vars
    <2>1. CASE SessionBreaks
      BY <2>1 DEF SessionBreaks, vars, Typed, TypeOK, agent, hub, server
    <2>2. CASE UNCHANGED vars
      BY <2>2 DEF vars, Typed, TypeOK, agent, hub, server
    <2> QED
      BY <1>3, <2>1, <2>2
  <1> QED
    BY <1>1, <1>2, <1>3

-----------------------------------------------------------------------------
(* The order of a session. *)

LEMMA NextSession ==
    ASSUME Typed, SessionInv, [Next]_vars
    PROVE  SessionInv'
  <1> USE DEF SessionInv, NoStaleToken
  <1>0. srv \in {"closed", "open", "greeted", "acked", "refused"}
    BY DEF Typed, TypeOK
  <1>1. CASE RunLoop \/ RunSleep \/ DialFails \/ Dial
    <2>1. CASE RunLoop
      BY <2>1 DEF RunLoop, ConnectFails, hub, server
    <2>2. CASE RunSleep
      BY <2>2 DEF RunSleep, ConnectFails, hub, server
    <2>3. CASE DialFails
      BY <2>3 DEF DialFails, ConnectFails, hub, server
    <2>4. CASE Dial
      BY <2>4 DEF Dial, ConnectFails, hub, server
    <2> QED
      BY <1>1, <2>1, <2>2, <2>3, <2>4
  <1>2. ASSUME HandshakeFails, cpc \in {"hello", "await", "ack"}, UNCHANGED <<rpc, hub>>
        PROVE  SessionInv'
    BY <1>2 DEF HandshakeFails, ConnectFails, hub
  <1>3. CASE Hello \/ AwaitConfig
    <2>1. CASE HandshakeFails
      BY <1>2, <1>3, <2>1 DEF Hello, AwaitConfig
    <2>2. CASE cpc' \in {"await", "apply"}
      <3>1. cpc \in {"hello", "await"} /\ UNCHANGED <<rpc, token, live>>
        BY <1>3 DEF Hello, AwaitConfig, hub
      <3> QED
        BY <2>2, <3>1
    <2> QED
      BY <1>3, <2>1, <2>2 DEF Hello, AwaitConfig
  <1>4. CASE HandshakeApply
    BY <1>4 DEF HandshakeApply, hub, server
  <1>5. CASE HandshakeAck
    <2>1. CASE HandshakeFails /\ UNCHANGED rpc
      BY <1>2, <1>5, <2>1 DEF HandshakeAck
    <2>2. CASE Send(TRUE, AckArrives("run"), UNCHANGED server)
      <3>1. srv' \in {"closed", "acked", "refused"} \/ HandshakeFails
        BY <1>0, <2>2, <1>5 DEF Send, AckArrives, HandshakeAck, server, Typed, TypeOK
      <3>2. CASE Connected /\ srv' \in {"closed", "acked", "refused"}
        BY <1>5, <3>2 DEF HandshakeAck, Connected, hub
      <3>3. CASE cpc' = "restart" /\ UNCHANGED rpc /\ srv' \in {"closed", "acked", "refused"}
        BY <1>5, <3>3 DEF HandshakeAck, hub
      <3>4. CASE HandshakeFails /\ UNCHANGED rpc
        BY <1>2, <1>5, <3>4 DEF HandshakeAck
      <3>5. HandshakeFails => srv' \in {"closed", "acked", "refused"}
        BY DEF HandshakeFails
      <3> QED
        BY <1>5, <3>1, <3>2, <3>3, <3>4, <3>5 DEF HandshakeAck
    <2> QED
      BY <1>5, <2>1, <2>2 DEF HandshakeAck
  <1>6. CASE HandshakeRestart \/ HandshakeCancel
    BY <1>6 DEF HandshakeRestart, HandshakeCancel, Connected, server
  <1>7. CASE ServeAlert \/ ServeReturns \/ ServeCloses \/ ServeDrains
    <2>1. CASE ServeAlert
      BY <2>1 DEF ServeAlert, hub, server
    <2>2. CASE ServeReturns
      BY <2>2 DEF ServeReturns, hub, server
    <2>3. CASE ServeCloses
      BY <2>3 DEF ServeCloses, hub, server
    <2>4. CASE ServeDrains
      BY <2>4 DEF ServeDrains, hub, server
    <2> QED
      BY <1>7, <2>1, <2>2, <2>3, <2>4
  <1>8. CASE ReaderReads
    <2>1. rpc = "read" /\ UNCHANGED <<cpc, srv, token, live>>
      BY <1>8 DEF ReaderReads, hub
    <2> QED
      BY <2>1
  <1>9. CASE ReaderFails \/ ReaderApply
    BY <1>9 DEF ReaderFails, ReaderApply, hub, server
  <1>10. CASE ReaderAck
    <2>1. rpc = "ack" /\ UNCHANGED <<cpc, token, live>> /\ srv' \in {srv, "acked", "refused"}
      BY <1>10 DEF ReaderAck, Send, AckArrives, hub, server
    <2> QED
      BY <2>1
  <1>11. CASE ReaderRestart \/ ReaderCancel
    BY <1>11 DEF ReaderRestart, ReaderCancel, server
  <1>12. ASSUME NEW f, StartProcess(f) PROVE SessionInv'
    BY <1>12 DEF StartProcess, StartCycle
  <1>13. CASE RestartCycle
    BY <1>13 DEF RestartCycle, StartCycle, server
  <1>14. CASE Exit \/ \E torn \in BOOLEAN : Crash(torn)
    BY <1>12, <1>14 DEF Exit, Crash
  <1>15. CASE MonitorsStop \/ MonitorCancels \/ Export
    BY <1>15 DEF MonitorsStop, MonitorCancels, Export, agent, hub, server
  <1>16. CASE ServerChanges \/ ServerSends \/ SessionBreaks \/ UNCHANGED vars
    BY <1>16 DEF ServerChanges, ServerSends, SessionBreaks, vars, agent, hub, server
  <1> QED
    BY <1>1, <1>3, <1>4, <1>5, <1>6, <1>7, <1>8, <1>9, <1>10, <1>11, <1>13, <1>14, <1>15, <1>16
       DEF Next, RunStep, ReaderStep, HubStep

-----------------------------------------------------------------------------
(* The queue of alerts. *)

LEMMA QueueSteady ==
    ASSUME QueueInv, UNCHANGED <<raised, delivered, queue>>
    PROVE  QueueInv'
  BY DEF QueueInv

LEMMA NextQueue ==
    ASSUME Typed, QueueInv, [Next]_vars
    PROVE  QueueInv'
  <1>1. CASE ServeAlert
    <2>1. queue # <<>> /\ queue \in Seq(Nat)
      BY <1>1 DEF ServeAlert, Typed
    <2>2. /\ Len(queue) \in Nat \ {0} /\ Head(queue) = queue[1]
          /\ Len(Tail(queue)) = Len(queue) - 1
          /\ \A i \in 1 .. Len(Tail(queue)) : Tail(queue)[i] = queue[i + 1]
      BY <2>1, HeadTailProperties, LenProperties, EmptySeq
    <2>3. queue' = Tail(queue) /\ raised' = raised /\ delivered' \in {delivered, queue[1]}
      BY <1>1, <2>2 DEF ServeAlert, Send
    <2>4. delivered \in Nat /\ raised \in Nat /\ delivered <= raised
      BY DEF QueueInv
    <2>5. queue[1] \in delivered + 1 .. raised
      BY <2>2 DEF QueueInv
    <2>6. delivered' \in 0 .. raised /\ delivered' <= queue[1]
      BY <2>3, <2>4, <2>5
    <2>7. ASSUME NEW i \in 1 .. Len(queue') PROVE queue'[i] \in delivered' + 1 .. raised
      <3>1. i + 1 \in 1 .. Len(queue) /\ 1 \in 1 .. Len(queue) /\ 1 < i + 1 /\ queue'[i] = queue[i + 1]
        BY <2>2, <2>3, <2>7
      <3>2. queue[i + 1] \in delivered + 1 .. raised /\ queue[1] < queue[i + 1]
        BY <3>1 DEF QueueInv
      <3> QED
        BY <2>4, <2>5, <2>6, <3>1, <3>2
    <2>8. ASSUME NEW i \in 1 .. Len(queue'), NEW j \in 1 .. Len(queue'), i < j
          PROVE  queue'[i] < queue'[j]
      <3>1. /\ i + 1 \in 1 .. Len(queue) /\ j + 1 \in 1 .. Len(queue) /\ i + 1 < j + 1
            /\ queue'[i] = queue[i + 1] /\ queue'[j] = queue[j + 1]
        BY <2>2, <2>3, <2>8
      <3> QED
        BY <3>1 DEF QueueInv
    <2> QED
      BY <2>3, <2>4, <2>6, <2>7, <2>8 DEF QueueInv
  <1>2. CASE Export
    <2>1. /\ raised' = raised + 1 /\ UNCHANGED delivered
          /\ queue' = queue \/ queue' = Append(queue, raised + 1)
      BY <1>2 DEF Export, server
    <2>2. queue \in Seq(Nat) /\ Len(queue) \in Nat
      BY LenProperties DEF Typed
    <2>3. delivered \in Nat /\ raised \in Nat /\ delivered <= raised
      BY DEF QueueInv
    <2>4. CASE queue' = queue
      BY <2>1, <2>3, <2>4 DEF QueueInv
    <2>5. CASE queue' = Append(queue, raised + 1)
      <3>1. /\ Len(queue') = Len(queue) + 1 /\ queue'[Len(queue) + 1] = raised + 1
            /\ \A i \in 1 .. Len(queue) : queue'[i] = queue[i]
        BY <2>2, <2>3, <2>5, AppendProperties
      <3>2. \A i \in 1 .. Len(queue) : queue[i] \in delivered + 1 .. raised
        BY DEF QueueInv
      <3>3. ASSUME NEW i \in 1 .. Len(queue') PROVE queue'[i] \in delivered' + 1 .. raised'
        BY <2>1, <2>2, <2>3, <3>1, <3>2, <3>3
      <3>4. ASSUME NEW i \in 1 .. Len(queue'), NEW j \in 1 .. Len(queue'), i < j
            PROVE  queue'[i] < queue'[j]
        <4>1. CASE j = Len(queue) + 1
          <5>1. i \in 1 .. Len(queue)
            BY <2>2, <3>1, <3>4, <4>1
          <5>2. queue'[i] = queue[i] /\ queue[i] \in delivered + 1 .. raised
            BY <3>1, <3>2, <5>1
          <5>3. queue'[j] = raised + 1
            BY <3>1, <4>1
          <5> QED
            BY <2>3, <5>2, <5>3
        <4>2. CASE j # Len(queue) + 1
          <5>1. i \in 1 .. Len(queue) /\ j \in 1 .. Len(queue)
            BY <2>2, <3>1, <3>4, <4>2
          <5> QED
            BY <3>1, <3>4, <5>1 DEF QueueInv
        <4> QED
          BY <4>1, <4>2
      <3> QED
        BY <2>1, <2>3, <3>3, <3>4 DEF QueueInv
    <2> QED
      BY <2>1, <2>4, <2>5
  <1>3. ASSUME NEW f, StartProcess(f) PROVE QueueInv'
    <2>1. queue' = <<>> /\ Len(queue') = 0 /\ UNCHANGED <<raised, delivered>>
      BY <1>3, EmptySeq DEF StartProcess
    <2>2. 1 .. Len(queue') = {}
      BY <2>1
    <2> QED
      BY <2>1, <2>2 DEF QueueInv
  <1>4. CASE Exit \/ \E torn \in BOOLEAN : Crash(torn)
    BY <1>3, <1>4 DEF Exit, Crash
  <1>5. CASE RunLoop \/ RunSleep \/ DialFails \/ Dial
    BY <1>5, QueueSteady DEF RunLoop, RunSleep, DialFails, Dial, server
  <1>6. CASE Hello \/ AwaitConfig
    BY <1>6, QueueSteady DEF Hello, AwaitConfig, HandshakeFails
  <1>7. CASE HandshakeApply \/ HandshakeRestart \/ HandshakeCancel
    BY <1>7, QueueSteady DEF HandshakeApply, HandshakeRestart, HandshakeCancel, server
  <1>8. CASE HandshakeAck
    BY <1>8, QueueSteady DEF HandshakeAck, HandshakeFails, Send, AckArrives, server
  <1>9. CASE ServeReturns \/ ServeCloses \/ ServeDrains
    BY <1>9, QueueSteady DEF ServeReturns, ServeCloses, ServeDrains, server
  <1>10. CASE ReaderReads \/ ReaderFails \/ ReaderApply \/ ReaderRestart \/ ReaderCancel
    BY <1>10, QueueSteady
       DEF ReaderReads, ReaderFails, ReaderApply, ReaderRestart, ReaderCancel, server
  <1>11. CASE ReaderAck
    BY <1>11, QueueSteady DEF ReaderAck, Send, AckArrives, server
  <1>12. CASE MonitorsStop \/ MonitorCancels \/ RestartCycle
    BY <1>12, QueueSteady DEF MonitorsStop, MonitorCancels, RestartCycle, server
  <1>13. CASE ServerChanges \/ ServerSends \/ SessionBreaks \/ UNCHANGED vars
    BY <1>13, QueueSteady DEF ServerChanges, ServerSends, SessionBreaks, vars, server
  <1> QED
    BY <1>1, <1>2, <1>4, <1>5, <1>6, <1>7, <1>8, <1>9, <1>10, <1>11, <1>12, <1>13
       DEF Next, RunStep, ReaderStep, HubStep

-----------------------------------------------------------------------------
(* The invariant, and what follows from it. *)

LEMMA InitIInv == Init => IInv
  <1> SUFFICES ASSUME Init PROVE IInv
    OBVIOUS
  <1>1. Typed
    <2>1. file \in Config /\ running \in Config
      BY ConfigSteps DEF Init
    <2>2. /\ inbox \in Seq(Frames) /\ queue \in Seq(Nat) /\ Len(queue) = 0 /\ 0 <= ExportQueueSize
          /\ crashes \in Nat
      BY EmptySeq, ConnectorAssumption DEF Init
    <2>3. /\ got \in [Goroutines -> Payload \cup {NoPayload}]
          /\ verdict \in [Goroutines -> {"none", "same", "saved", "error"}]
      BY DEF Init
    <2> QED
      BY <2>1, <2>2, <2>3, SleepType DEF Init, Typed, TypeOK
  <1>2. SessionInv
    BY DEF Init, SessionInv, NoStaleToken
  <1>3. QueueInv
    <2>1. Len(queue) = 0 /\ 1 .. Len(queue) = {}
      BY EmptySeq DEF Init
    <2> QED
      BY <2>1 DEF Init, QueueInv
  <1> QED
    BY <1>1, <1>2, <1>3 DEF IInv

LEMMA NextIInv == IInv /\ [Next]_vars => IInv'
  <1> SUFFICES ASSUME IInv, [Next]_vars PROVE IInv'
    OBVIOUS
  <1>1. Typed'
    BY RunTyped, ReaderTyped, HubTyped, ServerTyped DEF IInv, Next
  <1>2. SessionInv' /\ QueueInv'
    BY NextSession, NextQueue DEF IInv
  <1> QED
    BY <1>1, <1>2 DEF IInv

LEMMA SpecIInv == Spec => []IInv
  BY InitIInv, NextIInv, PTL DEF Spec

(* The session, the hub and the queue keep their types: a goroutine never  *)
(* applies a message it has not got, the backoff stays within its cap and  *)
(* the queue of alerts within its size.                                    *)
THEOREM SessionTyped == Spec => []TypeOK
  <1>1. IInv => TypeOK
    BY DEF IInv, Typed
  <1> QED
    BY <1>1, SpecIInv, PTL

(* A restart token is never left over for the next cycle: in a live cycle  *)
(* it is there only while the goroutine that put it is about to cancel.    *)
THEOREM TokensAreFresh == Spec => []NoStaleToken
  <1>1. IInv => NoStaleToken
    BY DEF IInv, SessionInv
  <1> QED
    BY <1>1, SpecIInv, PTL

(* Unless the process dies, the shared configuration is replaced only when *)
(* Run, readLoop and the monitors of the cycle have all ended.             *)
THEOREM ReloadsAreAlone == Spec => ReloadAlone
  <1>1. ASSUME IInv, [Next]_vars,  running' # running, crashes' = crashes
        PROVE  rpc = "done" /\ cpc = "done" /\ ~up
    <2>1. \A torn \in BOOLEAN : ~Crash(torn)
      BY <1>1 DEF Crash, IInv, Typed
    <2>2. ~RunStep
      BY <1>1 DEF RunStep, RunLoop, RunSleep, DialFails, Dial, Hello, AwaitConfig, HandshakeApply,
           HandshakeAck, HandshakeRestart, HandshakeCancel, ServeAlert, ServeReturns, ServeCloses,
           ServeDrains, hub
    <2>3. ~ReaderStep
      BY <1>1 DEF ReaderStep, ReaderReads, ReaderFails, ReaderApply, ReaderAck, ReaderRestart,
           ReaderCancel, hub
    <2>4. ~(Export \/ MonitorCancels \/ MonitorsStop)
      BY <1>1 DEF Export, MonitorCancels, MonitorsStop, hub
    <2>5. ~(ServerChanges \/ ServerSends \/ SessionBreaks \/ UNCHANGED vars)
      BY <1>1 DEF ServerChanges, ServerSends, SessionBreaks, vars, hub
    <2>6. RestartCycle \/ Exit
      BY <1>1, <2>1, <2>2, <2>3, <2>4, <2>5 DEF Next, HubStep
    <2> QED
      BY <1>1, <2>6 DEF RestartCycle, Exit, IInv, SessionInv
  <1>2. IInv /\ [Next]_vars =>
          [running' # running /\ crashes' = crashes => rpc = "done" /\ cpc = "done" /\ ~up]_vars
    BY <1>1
  <1> QED
    BY <1>2, SpecIInv, PTL DEF Spec, ReloadAlone

(* The dashboard gets an alert only on a session whose handshake it has    *)
(* seen acknowledged, and the alerts in the order they were raised, none   *)
(* twice, over any number of reconnects, restarts and crashes.             *)
THEOREM AlertsAreInOrder == Spec => AlertsAfterHandshakeInOrder
  <1>1. ASSUME IInv, [Next]_vars, delivered' # delivered
        PROVE  srv \in {"acked", "refused"} /\ delivered' > delivered
    <2>1. ~(RunLoop \/ RunSleep \/ DialFails \/ Dial \/ Hello \/ AwaitConfig \/ HandshakeApply
            \/ HandshakeRestart \/ HandshakeCancel \/ ServeReturns \/ ServeCloses \/ ServeDrains)
      BY <1>1 DEF RunLoop, RunSleep, DialFails, Dial, Hello, AwaitConfig, HandshakeApply,
           HandshakeRestart, HandshakeCancel, ServeReturns, ServeCloses, ServeDrains,
           HandshakeFails, server
    <2>2. ~(HandshakeAck \/ ReaderAck)
      BY <1>1 DEF HandshakeAck, ReaderAck, HandshakeFails, Send, AckArrives, server
    <2>3. ~(ReaderReads \/ ReaderFails \/ ReaderApply \/ ReaderRestart \/ ReaderCancel)
      BY <1>1 DEF ReaderReads, ReaderFails, ReaderApply, ReaderRestart, ReaderCancel, server
    <2>4. ~(MonitorsStop \/ MonitorCancels \/ RestartCycle \/ Export)
      BY <1>1 DEF MonitorsStop, MonitorCancels, RestartCycle, Export, server
    <2>5. ~(Exit \/ \E torn \in BOOLEAN : Crash(torn))
      BY <1>1 DEF Exit, Crash, StartProcess
    <2>6. ~(ServerChanges \/ ServerSends \/ SessionBreaks \/ UNCHANGED vars)
      BY <1>1 DEF ServerChanges, ServerSends, SessionBreaks, vars, server
    <2>7. ServeAlert
      BY <1>1, <2>1, <2>2, <2>3, <2>4, <2>5, <2>6 DEF Next, RunStep, ReaderStep, HubStep
    <2>8. cpc = "serve" /\ srv # "closed" /\ queue # <<>> /\ delivered' = Head(queue)
      BY <1>1, <2>7 DEF ServeAlert, Send
    <2>9. srv \in {"acked", "refused"}
      BY <1>1, <2>8 DEF IInv, SessionInv
    <2>10. Head(queue) = queue[1] /\ 1 \in 1 .. Len(queue)
      BY <1>1, <2>8, HeadTailProperties, LenProperties, EmptySeq DEF IInv, Typed
    <2>11. queue[1] \in delivered + 1 .. raised /\ delivered \in Nat
      BY <1>1, <2>10 DEF IInv, QueueInv
    <2> QED
      BY <2>8, <2>9, <2>10, <2>11
  <1>2. IInv /\ [Next]_vars =>
          [delivered' # delivered => srv \in {"acked", "refused"} /\ delivered' > delivered]_vars
    BY <1>1
  <1> QED
    BY <1>2, SpecIInv, PTL DEF Spec, AlertsAfterHandshakeInOrder

(* While the network interfaces can be listed and no crash tears a write   *)
(* of the file, the exporter section and the machine's own addresses       *)
(* survive every configuration that the dashboard sends, every reload and  *)
(* every restart.                                                          *)
THEOREM LocalPartsSurvive ==
    ASSUME LocalIpsKnown = {TRUE}, ~TornWrites
    PROVE  Spec => []LocalPartsKept
  <1>1. Init => LocalPartsKept
    <2>1. Installed.exporter = TRUE /\ Installed.own = TRUE
      BY DEF Installed, Default
    <2> QED
      BY <2>1, ConfigSteps DEF Init, LocalPartsKept
  <1>2. Typed /\ LocalPartsKept /\ [Next]_vars => LocalPartsKept'
    <2> SUFFICES ASSUME Typed, LocalPartsKept, [Next]_vars PROVE LocalPartsKept'
      OBVIOUS
    <2> USE DEF LocalPartsKept
    <2>0. file \in Config /\ running \in Config
      BY DEF Typed, TypeOK
    <2>1. ASSUME NEW g \in Goroutines, got[g] \in Payload, ApplyConfig(g), UNCHANGED running
          PROVE  LocalPartsKept'
      BY <2>1, ApplyEffect
    <2>2. CASE HandshakeApply \/ ReaderApply
      BY <2>1, <2>2 DEF HandshakeApply, ReaderApply, Typed, Goroutines, hub
    <2>3. ASSUME StartProcess(file) PROVE LocalPartsKept'
      BY <2>0, <2>3, ConfigSteps DEF StartProcess, StartCycle
    <2>4. CASE Exit \/ \E torn \in BOOLEAN : Crash(torn)
      BY <2>3, <2>4 DEF Exit, Crash
    <2>5. CASE RestartCycle
      BY <2>0, <2>5, ConfigSteps DEF RestartCycle, StartCycle
    <2>6. ASSUME UNCHANGED <<file, running>> PROVE LocalPartsKept'
      BY <2>6
    <2>7. CASE RunStep
      BY <2>2, <2>6, <2>7 DEF RunStep, RunLoop, RunSleep, DialFails, Dial, Hello, AwaitConfig,
           HandshakeAck, HandshakeRestart, HandshakeCancel, ServeAlert, ServeReturns, ServeCloses,
           ServeDrains, hub
    <2>8. CASE ReaderStep
      BY <2>2, <2>6, <2>8 DEF ReaderStep, ReaderReads, ReaderFails, ReaderAck, ReaderRestart,
           ReaderCancel, hub
    <2>9. CASE Export \/ MonitorCancels \/ MonitorsStop
      BY <2>6, <2>9 DEF Export, MonitorCancels, MonitorsStop, hub
    <2>10. CASE ServerChanges \/ ServerSends \/ SessionBreaks \/ UNCHANGED vars
      BY <2>6, <2>10 DEF ServerChanges, ServerSends, SessionBreaks, vars, hub
    <2> QED
      BY <2>4, <2>5, <2>7, <2>8, <2>9, <2>10 DEF Next, HubStep
  <1>3. IInv => Typed
    BY DEF IInv
  <1> QED
    BY <1>1, <1>2, <1>3, SpecIInv, PTL DEF Spec

=============================================================================
