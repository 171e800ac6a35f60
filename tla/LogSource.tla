------------------------------ MODULE LogSource ------------------------------
(***************************************************************************)
(* pkg/monitor/source.go: the goroutine that feeds a log monitor.          *)
(*                                                                         *)
(* runSource attaches to the log, again and again until its context is     *)
(* cancelled, and then closes the channel.  The engine syslog follows a    *)
(* file that a writer appends to and a rotation renames and creates anew;  *)
(* fsnotify tells of writes and renames.  The engines docker and journal   *)
(* read a stream of new lines.  Lines are numbered in the order in which   *)
(* they are written.                                                       *)
(***************************************************************************)
EXTENDS Integers, Sequences, SequencesExt

CONSTANTS
    Engines,        \* config: "syslog", "docker", "journal"
    ChanSize,       \* capacity of outputChan (1000)
    OpenRetries,    \* openLogFileRetries (10)
    MaxLines,       \* bound: lines written
    MaxRotations,   \* bound: rotations
    MaxFaults       \* bound: watcher errors, streams that end, over-long lines

ASSUME LogSourceAssumption ==
    /\ Engines \subseteq {"syslog", "docker", "journal"}
    /\ ChanSize \in Nat \ {0} /\ OpenRetries \in Nat \ {0}
    /\ MaxLines \in Nat /\ MaxRotations \in Nat /\ MaxFaults \in Nat

Files  == 0 .. MaxRotations
NoFile == -1

VARIABLES
    engine,
    path,       \* the file the log's path names, NoFile between rename and create
    files,      \* files made so far
    wfile,      \* the file the writer has open
    content,    \* the lines of each file
    written,    \* lines written so far, in all files
    watch,      \* the file the watcher watches
    events,     \* its events, equal neighbours merged
    spc,        \* where the source is
    rotated,    \* the event being handled is a rename
    rfile, off, \* the file it has open, and how much of it was read
    tries,      \* attempts openLogFile has left
    baseline,   \* history: lines rfile had when the watch was set
    chan, closed,
    got,        \* the lines the monitor has received
    ended,      \* the monitor's range loop has ended
    live,       \* the context is not cancelled
    faults

logVars == <<path, files, wfile, content, written>>
srcVars == <<spc, rotated, rfile, off, tries, baseline>>
outVars == <<chan, closed, got, ended>>
vars == <<engine, logVars, watch, events, srcVars, outVars, live, faults>>

Init ==
    /\ engine \in Engines
    /\ path = 0 /\ files = 1 /\ wfile = 0
    /\ content = [f \in Files |-> <<>>] /\ written = 0
    /\ watch = NoFile /\ events = <<>>
    /\ spc = "open" /\ rotated = FALSE
    /\ rfile = NoFile /\ off = 0 /\ tries = OpenRetries /\ baseline = 0
    /\ chan = <<>> /\ closed = FALSE /\ got = <<>> /\ ended = FALSE
    /\ live = TRUE /\ faults = 0

-----------------------------------------------------------------------------
(* The log: its writer, its rotation, and inotify. *)

Notify(f, e) ==
    events' = IF engine # "syslog" \/ watch # f \/ (events # <<>> /\ Last(events) = e)
              THEN events ELSE Append(events, e)

Write ==
    /\ written < MaxLines
    /\ written' = written + 1
    /\ content' = [content EXCEPT ![wfile] = Append(@, written + 1)]
    /\ Notify(wfile, "write")
    /\ UNCHANGED <<engine, path, files, wfile, watch, srcVars, outVars, live, faults>>

Rename ==
    /\ engine = "syslog" /\ path # NoFile /\ files <= MaxRotations
    /\ path' = NoFile
    /\ Notify(path, "rename")
    /\ UNCHANGED <<engine, files, wfile, content, written, watch, srcVars, outVars, live, faults>>

Create ==
    /\ path = NoFile
    /\ path' = files /\ files' = files + 1
    /\ UNCHANGED <<engine, wfile, content, written, watch, events, srcVars, outVars, live, faults>>

WriterReopens ==
    /\ path \notin {NoFile, wfile}
    /\ wfile' = path
    /\ UNCHANGED <<engine, path, files, content, written, watch, events, srcVars, outVars, live,
                   faults>>

(* fsnotify gives up the watch of a renamed file when it meets the event. *)
Unwatch ==
    /\ watch # NoFile /\ "rename" \in ToSet(events)
    /\ watch' = NoFile
    /\ UNCHANGED <<engine, logVars, events, srcVars, outVars, live, faults>>

-----------------------------------------------------------------------------
(* attachToSyslog *)

(* The attachment ends: its watcher and file are closed, runSource waits. *)
Detach ==
    /\ spc' = "retry" /\ rotated' = FALSE
    /\ watch' = NoFile /\ events' = <<>>
    /\ rfile' = NoFile /\ off' = 0 /\ tries' = OpenRetries /\ baseline' = 0

(* Seeded fault: a file is read from its beginning when it is opened again *)
(* after an error.                                                         *)
StartOfFile(f) == 0

(* Seek(0, io.SeekEnd) *)
EndOfFile(f) == Len(content[f])

(* openLogFile: the file at path, from its end when the source attaches    *)
(* and from its beginning after a rotation.                                *)
OpenFile ==
    /\ spc = "open" /\ engine = "syslog" /\ path # NoFile
    /\ rfile' = path
    /\ off' = IF rotated THEN 0 ELSE EndOfFile(path)
    /\ tries' = OpenRetries /\ spc' = "add"
    /\ UNCHANGED <<engine, logVars, watch, events, rotated, baseline, outVars, live, faults>>

(* Seeded fault: one attempt too many. *)
OpenWaitsOnceMore ==
    /\ spc = "open" /\ engine = "syslog" /\ path = NoFile
    /\ \/ /\ tries > 0
          /\ tries' = tries - 1
          /\ UNCHANGED <<watch, events, spc, rotated, rfile, off, baseline>>
       \/ tries = 0 /\ Detach
       \/ ~live /\ Detach
    /\ UNCHANGED <<engine, logVars, outVars, live, faults>>

(* There is none now: wait and try again, until the retries are used up or *)
(* the context is cancelled.                                               *)
OpenWaits ==
    /\ spc = "open" /\ engine = "syslog" /\ path = NoFile
    /\ \/ /\ tries > 1
          /\ tries' = tries - 1
          /\ UNCHANGED <<watch, events, spc, rotated, rfile, off, baseline>>
       \/ tries = 1 /\ Detach
       \/ ~live /\ Detach
    /\ UNCHANGED <<engine, logVars, outVars, live, faults>>

(* watcher.Add(path) *)
AddWatch ==
    /\ spc = "add"
    /\ IF path = NoFile THEN Detach
       ELSE /\ watch' = path
            /\ baseline' = Len(content[rfile])
            /\ spc' = "select" /\ rotated' = FALSE
            /\ UNCHANGED <<events, rfile, off, tries>>
    /\ UNCHANGED <<engine, logVars, outVars, live, faults>>

OnWrite ==
    /\ spc = "select" /\ engine = "syslog" /\ events # <<>> /\ Head(events) = "write"
    /\ events' = Tail(events)
    /\ spc' = "drain"
    /\ UNCHANGED <<engine, logVars, watch, rotated, rfile, off, tries, baseline, outVars, live, faults>>

(* Seeded fault: the renamed file is closed without reading what is left. *)
OnRenameAtOnce ==
    /\ spc = "select" /\ events # <<>> /\ Head(events) = "rename"
    /\ events' = Tail(events) /\ watch' = NoFile
    /\ spc' = "open" /\ rotated' = TRUE
    /\ UNCHANGED <<engine, logVars, rfile, off, tries, baseline, outVars, live, faults>>

OnRename ==
    /\ spc = "select" /\ events # <<>> /\ Head(events) = "rename"
    /\ events' = Tail(events) /\ watch' = NoFile
    /\ spc' = "drain" /\ rotated' = TRUE
    /\ UNCHANGED <<engine, logVars, rfile, off, tries, baseline, outVars, live, faults>>

(* readNewLines: one line after the other; the source waits while the      *)
(* channel is full.                                                        *)
ReadLine ==
    /\ spc = "drain" /\ off < Len(content[rfile]) /\ Len(chan) < ChanSize
    /\ chan' = Append(chan, content[rfile][off + 1])
    /\ off' = off + 1
    /\ UNCHANGED <<engine, logVars, watch, events, spc, rotated, rfile, tries, baseline,
                   closed, got, ended, live, faults>>

(* The end of the file, or the context is cancelled while a line waits.    *)
(* After a rename the file is closed and the path opened again.            *)
ReadEnds ==
    /\ spc = "drain"
    /\ off = Len(content[rfile]) \/ ~live
    /\ spc' = IF rotated THEN "open" ELSE "select"
    /\ UNCHANGED <<engine, logVars, watch, events, rotated, rfile, off, tries, baseline,
                   outVars, live, faults>>

WatcherFails ==
    /\ engine = "syslog" /\ spc = "select" /\ faults < MaxFaults /\ faults' = faults + 1
    /\ Detach
    /\ UNCHANGED <<engine, logVars, outVars, live>>

-----------------------------------------------------------------------------
(* attachToDocker and attachToJournal *)

(* The stream begins with the lines written from now on ("Tail 0"). *)
StreamOpens ==
    /\ spc = "open" /\ engine # "syslog"
    /\ rfile' = wfile /\ off' = EndOfFile(wfile) /\ baseline' = EndOfFile(wfile)
    /\ watch' = wfile /\ spc' = "select"
    /\ UNCHANGED <<engine, logVars, events, rotated, tries, outVars, live, faults>>

StreamLine ==
    /\ spc = "select" /\ engine # "syslog"
    /\ off < Len(content[rfile]) /\ Len(chan) < ChanSize
    /\ chan' = Append(chan, content[rfile][off + 1])
    /\ off' = off + 1
    /\ UNCHANGED <<engine, logVars, watch, events, spc, rotated, rfile, tries, baseline,
                   closed, got, ended, live, faults>>

(* There is no such container, its logs end, or a line is too long for the scanner. *)
DockerFails ==
    /\ engine = "docker" /\ spc \in {"open", "select"}
    /\ faults < MaxFaults /\ faults' = faults + 1
    /\ Detach
    /\ UNCHANGED <<engine, logVars, outVars, live>>

(***************************************************************************)
(* A line is too long for the scanner: command.Wait() waits for a          *)
(* journalctl --follow whose output nobody reads any more.  There are no   *)
(* lines and no retry until journalctl exits or the context is cancelled.  *)
(***************************************************************************)
JournalLineTooLong ==
    /\ engine = "journal" /\ spc = "select" /\ faults < MaxFaults /\ faults' = faults + 1
    /\ spc' = "stuck"
    /\ UNCHANGED <<engine, logVars, watch, events, rotated, rfile, off, tries, baseline,
                   outVars, live>>

(* journalctl is not there, or exits. *)
JournalEnds ==
    /\ engine = "journal" /\ spc \in {"open", "select", "stuck"}
    /\ faults < MaxFaults /\ faults' = faults + 1
    /\ Detach
    /\ UNCHANGED <<engine, logVars, outVars, live>>

-----------------------------------------------------------------------------
(* runSource and the monitor's loop *)

(* The select takes ctx.Done(); a cancelled context also kills journalctl, and *)
(* command.Wait() returns.                                                     *)
SelectCancelled ==
    /\ spc \in {"select", "stuck"} /\ ~live
    /\ Detach
    /\ UNCHANGED <<engine, logVars, outVars, live, faults>>

(* time.After(sourceRetryInterval) *)
Retry ==
    /\ spc = "retry"
    /\ spc' = "open"
    /\ UNCHANGED <<engine, logVars, watch, events, rotated, rfile, off, tries, baseline,
                   outVars, live, faults>>

(* Seeded fault: the channel is not closed. *)
ReturnOpen ==
    /\ spc = "retry" /\ ~live
    /\ spc' = "done"
    /\ UNCHANGED <<engine, logVars, watch, events, rotated, rfile, off, tries, baseline,
                   chan, closed, got, ended, live, faults>>

Return ==
    /\ spc = "retry" /\ ~live
    /\ spc' = "done" /\ closed' = TRUE
    /\ UNCHANGED <<engine, logVars, watch, events, rotated, rfile, off, tries, baseline,
                   chan, got, ended, live, faults>>

(* for message := range outputChan *)
Receive ==
    /\ chan # <<>>
    /\ got' = Append(got, Head(chan)) /\ chan' = Tail(chan)
    /\ UNCHANGED <<engine, logVars, watch, events, srcVars, closed, ended, live, faults>>

RangeEnds ==
    /\ closed /\ chan = <<>> /\ ~ended
    /\ ended' = TRUE
    /\ UNCHANGED <<engine, logVars, watch, events, srcVars, chan, closed, got, live, faults>>

Cancel ==
    /\ live /\ live' = FALSE
    /\ UNCHANGED <<engine, logVars, watch, events, srcVars, outVars, faults>>

Source ==
    \/ OpenFile \/ OpenWaits \/ AddWatch \/ OnWrite \/ OnRename \/ ReadLine \/ ReadEnds
    \/ StreamOpens \/ StreamLine

Monitor == Receive \/ RangeEnds

Next ==
    \/ Write \/ Rename \/ Create \/ WriterReopens \/ Unwatch
    \/ Source \/ WatcherFails \/ DockerFails \/ JournalLineTooLong \/ JournalEnds
    \/ SelectCancelled \/ Retry \/ Return
    \/ Monitor \/ Cancel

(***************************************************************************)
(* The goroutines of source and monitor run, timers fire, and a select     *)
(* takes a case that is ready again and again.  The log may fall silent,   *)
(* and a rotation may stop half way.                                       *)
(***************************************************************************)
Fairness ==
    /\ WF_vars(Source) /\ WF_vars(Monitor) /\ WF_vars(Retry)
    /\ SF_vars(SelectCancelled) /\ SF_vars(Return)

Spec == Init /\ [][Next]_vars /\ Fairness

-----------------------------------------------------------------------------
TypeOK ==
    /\ path \in Files \cup {NoFile} /\ wfile \in Files /\ rfile \in Files \cup {NoFile}
    /\ files \in 1 .. MaxRotations + 1 /\ written \in 0 .. MaxLines
    /\ watch \in Files \cup {NoFile} /\ ToSet(events) \subseteq {"write", "rename"}
    /\ spc \in {"open", "add", "select", "drain", "stuck", "retry", "done"}
    /\ off \in 0 .. MaxLines /\ tries \in 1 .. OpenRetries /\ baseline \in 0 .. MaxLines
    /\ Len(chan) <= ChanSize
    /\ \A f \in Files : Len(content[f]) <= MaxLines

(* The monitor counts no line twice and sees the lines in the order of the *)
(* log, over rotations, errors and new attachments.                        *)
InOrderOnce ==
    LET seen == got \o chan IN
    \A i, j \in DOMAIN seen : i < j => seen[i] < seen[j]

(* Line n came into the open file after the watch on it was set. *)
Noticed(n) ==
    /\ spc \in {"select", "drain"} /\ watch = rfile
    /\ n \in ToSet(SubSeq(content[rfile], off + 1, Len(content[rfile])))
    /\ n \notin ToSet(SubSeq(content[rfile], 1, baseline))

(* A line that was written while the source watched its file reaches the   *)
(* monitor, also when the channel is full, events are merged or the file   *)
(* is renamed right after the write, unless the attachment fails, the      *)
(* context is cancelled or the journal source hangs after an over-long     *)
(* line.                                                                   *)
LinesArrive ==
    \A n \in 1 .. MaxLines :
        Noticed(n) ~> (n \in ToSet(got) \/ ~live \/ spc \in {"retry", "stuck"})

(* After the context was cancelled the source closes the channel and the   *)
(* monitor's loop ends with every line that was in it, whatever the source *)
(* was waiting for: a file that is not there, a full channel, its retry    *)
(* interval, a journalctl that goes on after an over-long line.            *)
SourceEnds == ~live ~> (spc = "done" /\ ended /\ chan = <<>>)
=============================================================================
