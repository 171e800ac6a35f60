--------------------------- MODULE LogSourceProofs ---------------------------
(***************************************************************************)
(* Proofs about LogSource for every size of the channel and every number   *)
(* of lines, rotations, retries and failures.                              *)
(***************************************************************************)
EXTENDS LogSource, SequenceTheorems, TLAPS

Typed ==
    /\ path \in Files \cup {NoFile} /\ wfile \in Files
    /\ files \in 1 .. MaxRotations + 1
    /\ content \in [Files -> Seq(Nat)] /\ written \in 0 .. MaxLines
    /\ rfile \in Files \cup {NoFile} /\ watch \in Files \cup {NoFile}
    /\ events \in Seq({"write", "rename"})
    /\ spc \in {"open", "add", "select", "drain", "stuck", "retry", "done"} /\ rotated \in BOOLEAN
    /\ off \in Nat /\ tries \in 1 .. OpenRetries /\ baseline \in 0 .. MaxLines
    /\ chan \in Seq(Nat) /\ got \in Seq(Nat)
    /\ Len(chan) <= ChanSize

(* A file is made by a rotation and has the path until the next; the       *)
(* writer's file is never newer, and nobody can have opened a later one.   *)
PathInv ==
    /\ path = NoFile => files <= MaxRotations
    /\ path # NoFile => path = files - 1 /\ wfile <= path
    /\ wfile < files /\ rfile < files /\ watch < files

(* The lines of a file, and those of an older and a newer one, are in the  *)
(* order in which they were written.                                       *)
ContentInv ==
    /\ \A f \in Files : Len(content[f]) <= written
    /\ \A f \in Files : f > wfile => Len(content[f]) = 0
    /\ \A f \in Files : \A k \in 1 .. Len(content[f]) : content[f][k] <= written
    /\ \A f \in Files : \A k, l \in 1 .. Len(content[f]) : k < l => content[f][k] < content[f][l]
    /\ \A f, g \in Files : \A k \in 1 .. Len(content[f]), l \in 1 .. Len(content[g]) :
          f < g => content[f][k] < content[g][l]

(* When the source has a file open, and that a rotation is being handled   *)
(* only while it has.                                                      *)
AttachInv ==
    /\ spc \in {"add", "select", "drain", "stuck"} => rfile # NoFile
    /\ spc \in {"retry", "done"} => rfile = NoFile
    /\ spc = "open" /\ ~rotated => rfile = NoFile
    /\ rotated => rfile # NoFile
    /\ spc \in {"select", "stuck"} => ~rotated
    /\ rfile # NoFile => off <= Len(content[rfile])
    /\ rfile = NoFile => off = 0

(***************************************************************************)
(* An event of a rename is one of the watched file, which has lost the     *)
(* path for good, and there is at most one: none is left when the source   *)
(* opens the path and watches it again.                                    *)
(***************************************************************************)
Moved == path = NoFile \/ path > rfile

RenameInv ==
    /\ engine # "syslog" => events = <<>> /\ ~rotated
    /\ (spc \in {"open", "add", "retry", "done"} \/ rotated) =>
          /\ watch = NoFile
          /\ \A i \in 1 .. Len(events) : events[i] # "rename"
    /\ rotated /\ spc \in {"drain", "open"} => Moved
    /\ \A i \in 1 .. Len(events) : events[i] = "rename" => Moved /\ (path = NoFile \/ path # watch)
    /\ \A i, j \in 1 .. Len(events) : events[i] = "rename" /\ events[j] = "rename" => i = j

(* What the monitor has received or will, in order. *)
Seen == got \o chan

(* Nothing that is still to be read, in the open file or in a newer one,   *)
(* is older than what was read.                                            *)
SeenInv ==
    /\ \A i \in 1 .. Len(Seen) : Seen[i] <= written
    /\ \A i, j \in 1 .. Len(Seen) : i < j => Seen[i] < Seen[j]
    /\ rfile # NoFile =>
          /\ \A i \in 1 .. Len(Seen), k \in off + 1 .. Len(content[rfile]) : Seen[i] < content[rfile][k]
          /\ \A i \in 1 .. Len(Seen), g \in Files : g > rfile =>
                \A k \in 1 .. Len(content[g]) : Seen[i] < content[g][k]

(* The attachment ends and the source waits. *)
Ends == WatcherFails \/ DockerFails \/ JournalEnds \/ SelectCancelled

IInv == Typed /\ PathInv /\ ContentInv /\ AttachInv /\ RenameInv /\ SeenInv
-----------------------------------------------------------------------------
(* Sequences, and what inotify does to the events. *)

LEMMA AppendToConcat ==
    ASSUME NEW S, NEW s \in Seq(S), NEW t \in Seq(S), NEW e \in S
    PROVE  s \o Append(t, e) = Append(s \o t, e)
  <1>1. <<e>> \in Seq(S) /\ s \o t \in Seq(S)
    BY ConcatProperties
  <1> QED
    BY <1>1, AppendIsConcat, ConcatAssociative

LEMMA ConcatHeadTail ==
    ASSUME NEW S, NEW s \in Seq(S), NEW t \in Seq(S), t # <<>>
    PROVE  Append(s, Head(t)) \o Tail(t) = s \o t
  <1>1. /\ Head(t) \in S /\ Tail(t) \in Seq(S) /\ Len(Tail(t)) = Len(t) - 1
        /\ \A i \in 1 .. Len(Tail(t)) : Tail(t)[i] = t[i + 1]
        /\ Len(t) \in Nat \ {0} /\ Head(t) = t[1]
    BY HeadTailProperties, EmptySeq
  <1>2. /\ Append(s, Head(t)) \in Seq(S) /\ Len(Append(s, Head(t))) = Len(s) + 1 /\ Len(s) \in Nat
        /\ \A i \in 1 .. Len(s) : Append(s, Head(t))[i] = s[i]
        /\ Append(s, Head(t))[Len(s) + 1] = t[1]
    BY <1>1, AppendProperties, LenProperties
  <1> DEFINE u == Append(s, Head(t)) \o Tail(t)
  <1>3. /\ u \in Seq(S) /\ Len(u) = Len(s) + Len(t)
        /\ \A i \in 1 .. Len(s) + Len(t) :
              u[i] = IF i <= Len(s) + 1 THEN Append(s, Head(t))[i] ELSE Tail(t)[i - (Len(s) + 1)]
    BY <1>1, <1>2, ConcatProperties
  <1>4. /\ s \o t \in Seq(S) /\ Len(s \o t) = Len(s) + Len(t)
        /\ \A i \in 1 .. Len(s) + Len(t) : (s \o t)[i] = IF i <= Len(s) THEN s[i] ELSE t[i - Len(s)]
    BY ConcatProperties
  <1>5. ASSUME NEW i \in 1 .. Len(s) + Len(t) PROVE u[i] = (s \o t)[i]
    <2> HIDE DEF u
    <2>1. CASE i <= Len(s)
      BY <1>1, <1>2, <1>3, <1>4, <1>5, <2>1
    <2>2. CASE i = Len(s) + 1
      BY <1>1, <1>2, <1>3, <1>4, <1>5, <2>2
    <2>3. CASE i > Len(s) + 1
      <3>1. u[i] = Tail(t)[i - (Len(s) + 1)] /\ (s \o t)[i] = t[i - Len(s)]
        BY <1>1, <1>2, <1>3, <1>4, <1>5, <2>3
      <3>2. /\ i - (Len(s) + 1) \in 1 .. Len(Tail(t))
            /\ (i - (Len(s) + 1)) + 1 = i - Len(s)
        BY <1>1, <1>2, <1>5, <2>3
      <3> QED
        BY <1>1, <3>1, <3>2
    <2> QED
      BY <1>2, <1>5, <2>1, <2>2, <2>3
  <1> QED
    BY <1>3, <1>4, <1>5, SeqEqual

(* An event is merged, is not seen, or comes last. *)
LEMMA NotifyCases ==
    ASSUME Typed, NEW f, NEW e \in {"write", "rename"}, Notify(f, e)
    PROVE  /\ events' \in Seq({"write", "rename"})
           /\ \/ events' = events
              \/ engine = "syslog" /\ watch = f /\ events' = Append(events, e)
  <1>1. events \in Seq({"write", "rename"})
    BY DEF Typed
  <1>2. Append(events, e) \in Seq({"write", "rename"})
    BY <1>1, AppendProperties
  <1> QED
    BY <1>1, <1>2 DEF Notify

LEMMA InitInv == Init => IInv
  <1> SUFFICES ASSUME Init PROVE IInv
    OBVIOUS
  <1> USE LogSourceAssumption DEF Init, Files, NoFile
  <1>1. <<>> \in Seq(Nat) /\ Len(<<>>) = 0 /\ <<>> \in Seq({"write", "rename"})
    BY EmptySeq
  <1>2. \A f \in Files : content[f] = <<>>
    OBVIOUS
  <1>3. Typed
    <2>1. content \in [Files -> Seq(Nat)]
      BY <1>1
    <2>2. /\ 0 \in Files /\ 1 \in 1 .. MaxRotations + 1 /\ 0 \in 0 .. MaxLines /\ 0 <= ChanSize
          /\ OpenRetries \in 1 .. OpenRetries
      OBVIOUS
    <2>3. rotated \in BOOLEAN
      OBVIOUS
    <2> HIDE DEF Files, NoFile
    <2> QED
      BY <1>1, <2>1, <2>2, <2>3 DEF Typed
  <1>4. PathInv /\ AttachInv /\ RenameInv
    BY <1>1 DEF PathInv, AttachInv, RenameInv, Moved
  <1>5. ContentInv
    BY <1>1, <1>2 DEF ContentInv
  <1>6. SeenInv
    <2>1. Seen = <<>> /\ Len(Seen) = 0
      BY <1>1, ConcatEmptySeq DEF Seen
    <2> QED
      BY <2>1 DEF SeenInv
  <1> QED
    BY <1>3, <1>4, <1>5, <1>6 DEF IInv

-----------------------------------------------------------------------------
(* Types *)

LEMMA FileFacts == /\ Files \subseteq Nat /\ NoFile \notin Files
                   /\ \A f \in Files \cup {NoFile} : f \in Int /\ f >= NoFile
  BY LogSourceAssumption DEF Files, NoFile

LEMMA DetachTyped ==
    ASSUME Typed, Detach, UNCHANGED <<logVars, outVars>>
    PROVE  Typed'
  <1>1. <<>> \in Seq({"write", "rename"}) /\ OpenRetries \in 1 .. OpenRetries /\ 0 \in 0 .. MaxLines
    BY LogSourceAssumption, EmptySeq
  <1>2. rotated' \in BOOLEAN
    BY DEF Detach
  <1> QED
    BY <1>1, <1>2 DEF Typed, Detach, logVars, outVars

LEMMA LogStepTyped ==
    ASSUME IInv, Write \/ Rename \/ Create \/ WriterReopens \/ Unwatch
    PROVE  Typed'
  <1> USE DEF logVars, srcVars, outVars, vars
  <1>0. Typed /\ PathInv
    BY DEF IInv
  <1>1. CASE Write
    <2>1. events' \in Seq({"write", "rename"})
      BY <1>0, <1>1, NotifyCases DEF Write
    <2>2. written \in Nat /\ written' \in 0 .. MaxLines
      BY <1>0, <1>1, LogSourceAssumption DEF Typed, Write
    <2>3. Append(content[wfile], written + 1) \in Seq(Nat)
      BY <1>0, <2>2, AppendProperties DEF Typed
    <2>4. content' \in [Files -> Seq(Nat)]
      BY <1>0, <1>1, <2>3 DEF Typed, Write
    <2> QED
      BY <1>0, <1>1, <2>1, <2>2, <2>4 DEF Typed, Write
  <1>2. CASE Rename
    <2>1. events' \in Seq({"write", "rename"})
      BY <1>0, <1>2, NotifyCases DEF Rename
    <2> QED
      BY <1>0, <1>2, <2>1 DEF Typed, Rename
  <1>3. CASE Create
    <2>1. files \in Files /\ files' \in 1 .. MaxRotations + 1
      BY <1>0, <1>3, LogSourceAssumption DEF Create, PathInv, Typed, Files
    <2> QED
      BY <1>0, <1>3, <2>1 DEF Typed, Create
  <1>4. CASE WriterReopens
    BY <1>0, <1>4 DEF Typed, WriterReopens
  <1>5. CASE Unwatch
    BY <1>0, <1>5 DEF Typed, Unwatch
  <1> QED
    BY <1>1, <1>2, <1>3, <1>4, <1>5

LEMMA SourceStepTyped ==
    ASSUME IInv, Source
    PROVE  Typed'
  <1> USE DEF logVars, srcVars, outVars, vars
  <1>0. Typed /\ AttachInv /\ ContentInv /\ LogSourceAssumption
    BY LogSourceAssumption DEF IInv
  <1>1. \A f \in Files : Len(content[f]) \in Nat /\ Len(content[f]) \in 0 .. MaxLines
    <2>1. \A f \in Files : Len(content[f]) \in Nat
      BY <1>0, LenProperties DEF Typed
    <2> QED
      BY <1>0, <2>1, LogSourceAssumption DEF Typed, ContentInv
  <1>2. CASE OpenFile
    <2>1. path \in Files /\ off' \in Nat
      BY <1>0, <1>1, <1>2 DEF Typed, OpenFile, EndOfFile
    <2>2. tries' \in 1 .. OpenRetries
      BY <1>2, LogSourceAssumption DEF OpenFile
    <2> QED
      BY <1>0, <1>2, <2>1, <2>2 DEF Typed, OpenFile
  <1>3. CASE OpenWaits
    <2>1. CASE Detach
      BY <1>0, <1>3, <2>1, DetachTyped DEF OpenWaits
    <2>2. CASE tries > 1 /\ tries' = tries - 1 /\ UNCHANGED <<watch, events, spc, rotated, rfile, off, baseline>>
      <3>1. tries' \in 1 .. OpenRetries
        BY <1>0, <2>2, LogSourceAssumption DEF Typed
      <3> QED
        BY <1>0, <1>3, <2>2, <3>1 DEF Typed, OpenWaits
    <2> QED
      BY <1>3, <2>1, <2>2 DEF OpenWaits
  <1>4. CASE AddWatch
    <2>1. CASE path = NoFile
      BY <1>0, <1>4, <2>1, DetachTyped DEF AddWatch
    <2>2. CASE path # NoFile
      <3>1. rfile \in Files /\ baseline' \in 0 .. MaxLines
        BY <1>0, <1>1, <1>4, <2>2 DEF Typed, AddWatch, AttachInv
      <3>2. rotated' \in BOOLEAN
        BY <1>4, <2>2 DEF AddWatch
      <3> QED
        BY <1>0, <1>4, <2>2, <3>1, <3>2 DEF Typed, AddWatch
    <2> QED
      BY <2>1, <2>2
  <1>5. CASE OnWrite \/ OnRename
    <2>1. events' \in Seq({"write", "rename"})
      <3>1. events \in Seq({"write", "rename"}) /\ events # <<>> /\ events' = Tail(events)
        BY <1>0, <1>5 DEF Typed, OnWrite, OnRename
      <3> QED
        BY <3>1, HeadTailProperties
    <2>2. rotated' \in BOOLEAN
      BY <1>0, <1>5 DEF OnWrite, OnRename, Typed
    <2>3. CASE OnWrite
      BY <1>0, <2>1, <2>2, <2>3 DEF Typed, OnWrite
    <2>4. CASE OnRename
      BY <1>0, <2>1, <2>2, <2>4 DEF Typed, OnRename
    <2> QED
      BY <1>5, <2>3, <2>4
  <1>6. CASE ReadLine \/ StreamLine
    <2>1. rfile \in Files /\ off \in Nat /\ off < Len(content[rfile])
      BY <1>0, <1>6 DEF Typed, AttachInv, ReadLine, StreamLine
    <2>2. content[rfile] \in Seq(Nat) /\ off + 1 \in 1 .. Len(content[rfile])
      BY <1>0, <1>1, <2>1 DEF Typed
    <2>3. content[rfile][off + 1] \in Nat
      BY <2>2, ElementOfSeq
    <2>4. chan \in Seq(Nat) /\ Len(chan) < ChanSize /\ chan' = Append(chan, content[rfile][off + 1])
      BY <1>0, <1>6 DEF Typed, ReadLine, StreamLine
    <2>5. chan' \in Seq(Nat) /\ Len(chan') <= ChanSize /\ off' \in Nat
      <3>1. chan' \in Seq(Nat) /\ Len(chan') = Len(chan) + 1 /\ Len(chan) \in Nat
        BY <2>3, <2>4, AppendProperties, LenProperties
      <3> QED
        BY <1>6, <2>1, <2>4, <3>1, LogSourceAssumption DEF ReadLine, StreamLine
    <2>6. CASE ReadLine
      BY <1>0, <2>5, <2>6 DEF Typed, ReadLine
    <2>7. CASE StreamLine
      BY <1>0, <2>5, <2>7 DEF Typed, StreamLine
    <2> QED
      BY <1>6, <2>6, <2>7
  <1>7. CASE ReadEnds
    BY <1>0, <1>7 DEF Typed, ReadEnds
  <1>8. CASE StreamOpens
    <2>1. EndOfFile(wfile) \in Nat /\ EndOfFile(wfile) \in 0 .. MaxLines
      BY <1>0, <1>1 DEF Typed, EndOfFile
    <2> QED
      BY <1>0, <1>8, <2>1 DEF Typed, StreamOpens
  <1> QED
    BY <1>2, <1>3, <1>4, <1>5, <1>6, <1>7, <1>8 DEF Source

LEMMA NextTyped == IInv /\ [Next]_vars => Typed'
  <1> SUFFICES ASSUME IInv, [Next]_vars PROVE Typed'
    OBVIOUS
  <1> USE DEF logVars, srcVars, outVars, vars
  <1>0. Typed
    BY DEF IInv
  <1>1. CASE Ends
    BY <1>0, <1>1, DetachTyped DEF Ends, WatcherFails, DockerFails, JournalEnds, SelectCancelled
  <1>5. CASE JournalLineTooLong
    BY <1>0, <1>5 DEF Typed, JournalLineTooLong
  <1>2. CASE Retry \/ Return
    <2>1. CASE Retry
      BY <1>0, <2>1 DEF Typed, Retry
    <2>2. CASE Return
      BY <1>0, <2>2 DEF Typed, Return
    <2> QED
      BY <1>2, <2>1, <2>2
  <1>3. CASE Receive
    <2>1. chan \in Seq(Nat) /\ got \in Seq(Nat) /\ chan # <<>>
      BY <1>0, <1>3 DEF Typed, Receive
    <2>2. /\ Head(chan) \in Nat /\ Tail(chan) \in Seq(Nat) /\ Len(Tail(chan)) = Len(chan) - 1
          /\ Len(chan) \in Nat
      BY <2>1, HeadTailProperties, LenProperties
    <2>3. got' \in Seq(Nat) /\ chan' \in Seq(Nat)
      BY <1>3, <2>1, <2>2, AppendProperties DEF Receive
    <2>4. Len(chan') <= ChanSize
      <3>1. Len(chan) <= ChanSize /\ chan' = Tail(chan) /\ ChanSize \in Nat
        BY <1>0, <1>3, LogSourceAssumption DEF Receive, Typed
      <3>2. Len(chan') = Len(chan) - 1
        BY <2>2, <3>1
      <3>3. \A n, c \in Nat : n <= c => n - 1 <= c
        OBVIOUS
      <3>4. Len(chan) - 1 <= ChanSize
        BY <2>2, <3>1, <3>3
      <3> QED
        BY <3>2, <3>4
    <2> QED
      BY <1>0, <1>3, <2>3, <2>4 DEF Typed, Receive
  <1>4. CASE RangeEnds \/ Cancel \/ UNCHANGED vars
    BY <1>0, <1>4 DEF Typed, RangeEnds, Cancel
  <1> QED
    BY <1>1, <1>2, <1>3, <1>4, <1>5, LogStepTyped, SourceStepTyped DEF Next, Monitor, Ends

-----------------------------------------------------------------------------
(* The files *)

LEMMA NextPath == IInv /\ [Next]_vars => PathInv'
  <1> SUFFICES ASSUME IInv, [Next]_vars PROVE PathInv'
    OBVIOUS
  <1> USE DEF logVars, srcVars, outVars, vars
  <1>0. /\ PathInv /\ files \in Int /\ path \in Files \cup {NoFile} /\ wfile \in Int /\ rfile \in Int
        /\ watch \in Int /\ files >= 1 /\ NoFile \in Int /\ NoFile < 1 /\ NoFile \notin Files
        /\ MaxRotations \in Nat /\ files <= MaxRotations + 1
    BY FileFacts, LogSourceAssumption DEF IInv, Typed, NoFile
  <1>1. CASE Rename
    BY <1>0, <1>1 DEF PathInv, Rename
  <1>2. CASE Create
    <2>1. files # NoFile /\ path' = files /\ files' = files + 1 /\ UNCHANGED <<wfile, rfile, watch>>
      BY <1>0, <1>2 DEF Create
    <2> QED
      BY <1>0, <2>1 DEF PathInv
  <1>3. CASE WriterReopens
    BY <1>0, <1>3 DEF PathInv, WriterReopens
  <1>4. CASE ~(Rename \/ Create \/ WriterReopens)
    <2>1. UNCHANGED <<path, files, wfile>>
      BY <1>4 DEF Next, Source, Monitor, Write, Unwatch, OpenFile, OpenWaits, AddWatch, OnWrite,
             OnRename, ReadLine, ReadEnds, StreamOpens, StreamLine, WatcherFails,
             DockerFails, JournalLineTooLong, JournalEnds, SelectCancelled, Retry, Return, Receive, RangeEnds, Cancel
    <2>2. rfile' \in {rfile, NoFile, path, wfile} /\ watch' \in {watch, NoFile, path, wfile}
      BY <1>4 DEF Next, Source, Monitor, Write, Unwatch, OpenFile, OpenWaits, AddWatch, OnWrite,
             OnRename, ReadLine, ReadEnds, StreamOpens, StreamLine, WatcherFails,
             DockerFails, JournalLineTooLong, JournalEnds, SelectCancelled, Retry, Return, Receive, RangeEnds, Cancel, Detach
    <2>3. path < files
      BY <1>0 DEF PathInv
    <2> QED
      BY <1>0, <2>1, <2>2, <2>3 DEF PathInv
  <1> QED
    BY <1>1, <1>2, <1>3, <1>4

(* The writer appends the next line to its file, and changes no other. *)
LEMMA WriteAppends ==
    ASSUME IInv, Write
    PROVE  /\ \A f \in Files :
                 /\ Len(content[f]) \in Nat /\ Len(content'[f]) \in Nat
                 /\ Len(content[f]) <= Len(content'[f]) /\ Len(content'[f]) <= written + 1
                 /\ f > wfile => Len(content'[f]) = 0
                 /\ f # wfile => content'[f] = content[f]
           /\ \A f \in Files : \A k \in 1 .. Len(content'[f]) :
                 \/ k \in 1 .. Len(content[f]) /\ content'[f][k] = content[f][k]
                    /\ content[f][k] <= written /\ content[f][k] \in Nat
                 \/ f = wfile /\ k = Len(content[f]) + 1 /\ content'[f][k] = written + 1
  <1>1. /\ Typed /\ ContentInv /\ wfile \in Files /\ written \in Nat /\ content \in [Files -> Seq(Nat)]
        /\ content' = [content EXCEPT ![wfile] = Append(@, written + 1)]
        /\ written' = written + 1 /\ wfile' = wfile
    BY LogSourceAssumption DEF IInv, Typed, Write
  <1>2. \A f \in Files : f # wfile => content'[f] = content[f]
    BY <1>1
  <1>3. content'[wfile] = Append(content[wfile], written + 1)
    BY <1>1
  <1>4. \A f \in Files : Len(content[f]) \in Nat /\ \A k \in 1 .. Len(content[f]) : content[f][k] \in Nat
    <2> SUFFICES ASSUME NEW f \in Files
                 PROVE  Len(content[f]) \in Nat /\ \A k \in 1 .. Len(content[f]) : content[f][k] \in Nat
      OBVIOUS
    <2>1. content[f] \in Seq(Nat)
      BY <1>1
    <2> QED
      BY <2>1, LenProperties, ElementOfSeq
  <1>5. /\ Len(content'[wfile]) = Len(content[wfile]) + 1
        /\ \A k \in 1 .. Len(content[wfile]) : content'[wfile][k] = content[wfile][k]
        /\ content'[wfile][Len(content[wfile]) + 1] = written + 1
    BY <1>1, <1>3, AppendProperties
  <1>6. ASSUME NEW f \in Files
        PROVE  /\ Len(content'[f]) \in Nat /\ Len(content'[f]) <= written + 1
               /\ f > wfile => Len(content'[f]) = 0
               /\ Len(content[f]) <= Len(content'[f])
    <2>1. Len(content[f]) <= written /\ (f > wfile => Len(content[f]) = 0)
      BY <1>1 DEF ContentInv
    <2>2. wfile \in Nat /\ f \in Nat
      BY <1>1, FileFacts
    <2> QED
      BY <1>1, <1>2, <1>4, <1>5, <2>1, <2>2
  <1>7. ASSUME NEW f \in Files, NEW k \in 1 .. Len(content'[f])
        PROVE  \/ k \in 1 .. Len(content[f]) /\ content'[f][k] = content[f][k]
                  /\ content[f][k] <= written /\ content[f][k] \in Nat
               \/ f = wfile /\ k = Len(content[f]) + 1 /\ content'[f][k] = written + 1
    <2>1. \A m \in 1 .. Len(content[f]) : content[f][m] <= written
      BY <1>1 DEF ContentInv
    <2>2. CASE f = wfile
      BY <1>4, <1>5, <1>7, <2>1, <2>2
    <2>3. CASE f # wfile
      BY <1>2, <1>4, <1>7, <2>1, <2>3
    <2> QED
      BY <2>2, <2>3
  <1> QED
    BY <1>2, <1>4, <1>6, <1>7

LEMMA WriteContent ==
    ASSUME IInv, Write
    PROVE  ContentInv'
  <1>1. ContentInv /\ written \in Nat /\ wfile \in Files /\ written' = written + 1 /\ wfile' = wfile
    BY LogSourceAssumption DEF IInv, Typed, Write
  <1>2. ASSUME NEW f \in Files
        PROVE  /\ Len(content[f]) \in Nat /\ Len(content'[f]) \in Nat
               /\ Len(content[f]) <= Len(content'[f]) /\ Len(content'[f]) <= written + 1
               /\ f > wfile => Len(content'[f]) = 0
               /\ f # wfile => content'[f] = content[f]
    BY WriteAppends
  <1>3. ASSUME NEW f \in Files, NEW k \in 1 .. Len(content'[f])
        PROVE  \/ k \in 1 .. Len(content[f]) /\ content'[f][k] = content[f][k]
                  /\ content[f][k] <= written /\ content[f][k] \in Nat
               \/ f = wfile /\ k = Len(content[f]) + 1 /\ content'[f][k] = written + 1
    BY WriteAppends
  <1>4. ASSUME NEW f \in Files, NEW k \in 1 .. Len(content'[f]) PROVE content'[f][k] <= written + 1
    BY <1>1, <1>3
  <1>5. ASSUME NEW f \in Files, NEW k \in 1 .. Len(content'[f]), NEW l \in 1 .. Len(content'[f]), k < l
        PROVE  content'[f][k] < content'[f][l]
    <2>1. k \in 1 .. Len(content[f]) /\ content'[f][k] = content[f][k]
          /\ content[f][k] <= written /\ content[f][k] \in Nat
      <3>1. l <= Len(content[f]) + 1 /\ Len(content[f]) \in Nat
        BY <1>2, <1>3
      <3>2. k # Len(content[f]) + 1
        BY <1>5, <3>1
      <3> QED
        BY <1>3, <3>2
    <2>2. CASE l \in 1 .. Len(content[f]) /\ content'[f][l] = content[f][l]
      BY <1>1, <1>5, <2>1, <2>2 DEF ContentInv
    <2>3. CASE content'[f][l] = written + 1
      BY <1>1, <2>1, <2>3
    <2> QED
      BY <1>3, <2>2, <2>3
  <1>6. ASSUME NEW f \in Files, NEW g \in Files, NEW k \in 1 .. Len(content'[f]),
                NEW l \in 1 .. Len(content'[g]), f < g
         PROVE  content'[f][k] < content'[g][l]
    <2>1. g <= wfile /\ g \in Nat /\ f \in Nat /\ wfile \in Nat
      BY <1>1, <1>2, <1>6, FileFacts
    <2>2. f # wfile
      BY <1>6, <2>1
    <2>3. k \in 1 .. Len(content[f]) /\ content'[f][k] = content[f][k]
          /\ content[f][k] <= written /\ content[f][k] \in Nat
      BY <1>3, <2>2
    <2>4. CASE l \in 1 .. Len(content[g]) /\ content'[g][l] = content[g][l]
      <3>1. content[f][k] < content[g][l]
        BY <1>1, <1>6, <2>3, <2>4 DEF ContentInv
      <3> QED
        BY <2>3, <2>4, <3>1
    <2>5. CASE content'[g][l] = written + 1
      <3>1. \A n, m \in Nat : n <= m => n < m + 1
        OBVIOUS
      <3>2. content[f][k] < written + 1
        BY <1>1, <2>3, <3>1
      <3> QED
        BY <2>3, <2>5, <3>2
    <2>6. \/ l \in 1 .. Len(content[g]) /\ content'[g][l] = content[g][l]
          \/ content'[g][l] = written + 1
      BY <1>3
    <2> QED
      BY <2>4, <2>5, <2>6
  <1> QED
    BY <1>1, <1>2, <1>4, <1>5, <1>6 DEF ContentInv

LEMMA NextContent == IInv /\ [Next]_vars => ContentInv'
  <1> SUFFICES ASSUME IInv, [Next]_vars PROVE ContentInv'
    OBVIOUS
  <1> USE DEF logVars, srcVars, outVars, vars
  <1>1. CASE Write
    BY <1>1, WriteContent
  <1>2. CASE WriterReopens
    <2>1. /\ wfile' = path /\ path \in Files /\ wfile \in Files /\ wfile <= path
          /\ UNCHANGED <<content, written>> /\ ContentInv
      BY <1>2 DEF IInv, Typed, PathInv, WriterReopens
    <2>2. \A f \in Files : f > path => f > wfile
      BY <2>1, FileFacts
    <2> QED
      BY <2>1, <2>2 DEF ContentInv
  <1>3. CASE ~(Write \/ WriterReopens)
    <2>1. UNCHANGED <<content, written, wfile>>
      BY <1>3 DEF Next, Source, Monitor, Rename, Create, Unwatch, OpenFile, OpenWaits, AddWatch,
             OnWrite, OnRename, ReadLine, ReadEnds, StreamOpens, StreamLine, WatcherFails,
             DockerFails, JournalLineTooLong, JournalEnds, SelectCancelled, Retry, Return, Receive, RangeEnds, Cancel
    <2> QED
      BY <2>1 DEF IInv, ContentInv
  <1> QED
    BY <1>1, <1>2, <1>3

-----------------------------------------------------------------------------
(* The attachment *)

LEMMA DetachAttach ==
    ASSUME Typed, Detach
    PROVE  AttachInv' /\ RenameInv'
  <1>1. /\ spc' = "retry" /\ rotated' = FALSE /\ rfile' = NoFile /\ off' = 0
        /\ watch' = NoFile /\ events' = <<>> /\ Len(events') = 0
    BY EmptySeq DEF Detach
  <1>2. AttachInv'
    BY <1>1 DEF AttachInv
  <1>3. RenameInv'
    BY <1>1 DEF RenameInv
  <1> QED
    BY <1>2, <1>3

LEMMA NextAttach == IInv /\ [Next]_vars => AttachInv'
  <1> SUFFICES ASSUME IInv, [Next]_vars PROVE AttachInv'
    OBVIOUS
  <1> USE DEF logVars, srcVars, outVars, vars
  <1>0. /\ Typed /\ AttachInv /\ NoFile \notin Files
        /\ path \in Files \cup {NoFile} /\ wfile \in Files /\ rfile \in Files \cup {NoFile}
        /\ off \in Nat /\ \A f \in Files : Len(content[f]) \in Nat
    <2>1. content \in [Files -> Seq(Nat)]
      BY DEF IInv, Typed
    <2> QED
      BY <2>1, FileFacts, LenProperties DEF IInv, Typed
  <1> HIDE DEF NoFile
  <1>1. CASE Write
    <2>1. rfile \in Files => Len(content[rfile]) <= Len(content'[rfile]) /\ Len(content'[rfile]) \in Nat
      BY <1>1, WriteAppends
    <2>2. UNCHANGED <<spc, rotated, rfile, off>>
      BY <1>1 DEF Write
    <2>3. rfile # NoFile => off <= Len(content'[rfile])
      BY <1>0, <2>1 DEF AttachInv
    <2> QED
      BY <1>0, <2>2, <2>3 DEF AttachInv
  <1>2. CASE Rename \/ Create \/ WriterReopens \/ Unwatch
    BY <1>0, <1>2 DEF AttachInv, Rename, Create, WriterReopens, Unwatch
  <1>3. CASE OpenFile
    <2>1. /\ spc' = "add" /\ rfile' = path /\ path # NoFile /\ UNCHANGED content
          /\ off' = 0 \/ off' = Len(content[path])
      BY <1>3 DEF OpenFile, EndOfFile
    <2> QED
      BY <1>0, <2>1 DEF AttachInv
  <1>4. CASE OpenWaits
    <2>1. CASE Detach
      BY <1>0, <2>1, DetachAttach
    <2>2. CASE ~Detach
      BY <1>0, <1>4, <2>2 DEF AttachInv, OpenWaits
    <2> QED
      BY <2>1, <2>2
  <1>5. CASE AddWatch
    <2>1. CASE Detach
      BY <1>0, <2>1, DetachAttach
    <2>2. CASE ~Detach
      BY <1>0, <1>5, <2>2 DEF AttachInv, AddWatch
    <2> QED
      BY <2>1, <2>2
  <1>6. CASE OnWrite
    BY <1>0, <1>6 DEF AttachInv, OnWrite
  <1>7. CASE OnRename
    BY <1>0, <1>7 DEF AttachInv, OnRename
  <1>8. CASE ReadLine \/ StreamLine
    <2>1. UNCHANGED <<spc, rotated, rfile, content>> /\ off' = off + 1 /\ off < Len(content[rfile])
      BY <1>8 DEF ReadLine, StreamLine
    <2>2. rfile \in Files /\ off' <= Len(content[rfile])
      BY <1>0, <1>8, <2>1 DEF AttachInv, ReadLine, StreamLine
    <2> QED
      BY <1>0, <2>1, <2>2 DEF AttachInv
  <1>9. CASE ReadEnds
    BY <1>0, <1>9 DEF AttachInv, ReadEnds
  <1>10. CASE StreamOpens
    <2>1. /\ spc' = "select" /\ rfile' = wfile /\ off' = Len(content[wfile])
          /\ rotated' = rotated /\ UNCHANGED content /\ spc = "open" /\ engine # "syslog"
      BY <1>10 DEF StreamOpens, EndOfFile
    <2>2. ~rotated
      BY <1>0, <2>1, <1>10 DEF AttachInv, IInv, RenameInv
    <2> QED
      BY <1>0, <2>1, <2>2 DEF AttachInv
  <1>11. CASE Ends
    BY <1>0, <1>11, DetachAttach DEF Ends, WatcherFails, DockerFails, JournalEnds, SelectCancelled
  <1>15. CASE JournalLineTooLong
    BY <1>0, <1>15 DEF AttachInv, JournalLineTooLong
  <1>12. CASE Retry
    BY <1>0, <1>12 DEF AttachInv, Retry
  <1>13. CASE Return
    BY <1>0, <1>13 DEF AttachInv, Return
  <1>14. CASE Receive \/ RangeEnds \/ Cancel \/ UNCHANGED vars
    BY <1>0, <1>14 DEF AttachInv, Receive, RangeEnds, Cancel
  <1> QED
    BY <1>1, <1>2, <1>3, <1>4, <1>5, <1>6, <1>7, <1>8, <1>9, <1>10, <1>11, <1>12, <1>13, <1>14,
       <1>15
       DEF Next, Source, Monitor, Ends

-----------------------------------------------------------------------------
(* The events *)

LEMMA NextRename == IInv /\ [Next]_vars => RenameInv'
  <1> SUFFICES ASSUME IInv, [Next]_vars PROVE RenameInv'
    OBVIOUS
  <1> USE DEF logVars, srcVars, outVars, vars
  <1>0. /\ Typed /\ PathInv /\ AttachInv /\ RenameInv
        /\ path \in Int /\ rfile \in Int /\ watch \in Int /\ files \in Int /\ wfile \in Int
        /\ NoFile \in Int /\ NoFile < 0 /\ files >= 1 /\ rfile >= NoFile
        /\ events \in Seq({"write", "rename"}) /\ Len(events) \in Nat
    <2>1. events \in Seq({"write", "rename"})
      BY DEF IInv, Typed
    <2> QED
      BY <2>1, FileFacts, LenProperties DEF IInv, Typed, NoFile
  <1> HIDE DEF NoFile
  <1>1. CASE Write
    <2>1. \/ events' = events
          \/ engine = "syslog" /\ watch = wfile /\ events' = Append(events, "write")
      BY <1>0, <1>1, NotifyCases DEF Write
    <2>2. UNCHANGED <<engine, path, watch, spc, rotated, rfile>>
      BY <1>1 DEF Write
    <2>3. CASE events' = events
      BY <1>0, <2>2, <2>3 DEF RenameInv, Moved
    <2>4. CASE engine = "syslog" /\ events' = Append(events, "write")
      <3>1. /\ Len(events') = Len(events) + 1 /\ events'[Len(events) + 1] = "write"
            /\ \A i \in 1 .. Len(events) : events'[i] = events[i]
        BY <1>0, <2>4, AppendProperties
      <3>2. \A i \in 1 .. Len(events') :
               events'[i] = "rename" => i \in 1 .. Len(events) /\ events[i] = "rename"
        BY <1>0, <3>1
      <3> QED
        BY <1>0, <2>2, <2>4, <3>2 DEF RenameInv, Moved
    <2> QED
      BY <2>1, <2>3, <2>4
  <1>2. CASE Rename
    <2>1. /\ path # NoFile /\ path' = NoFile /\ engine = "syslog"
          /\ UNCHANGED <<engine, watch, spc, rotated, rfile>>
      BY <1>2 DEF Rename
    <2>2. \/ events' = events
          \/ watch = path /\ events' = Append(events, "rename")
      BY <1>0, <1>2, NotifyCases DEF Rename
    <2>3. CASE events' = events
      BY <1>0, <2>1, <2>3 DEF RenameInv, Moved
    <2>4. CASE watch = path /\ events' = Append(events, "rename")
      <3>1. /\ Len(events') = Len(events) + 1
            /\ \A i \in 1 .. Len(events) : events'[i] = events[i]
        BY <1>0, <2>4, AppendProperties
      <3>2. \A i \in 1 .. Len(events) : events[i] # "rename"
        BY <1>0, <2>1, <2>4 DEF RenameInv
      <3>3. \A i \in 1 .. Len(events') : events'[i] = "rename" => i = Len(events) + 1
        BY <1>0, <3>1, <3>2
      <3>4. spc \notin {"open", "add", "retry", "done"} /\ ~rotated
        BY <1>0, <2>1, <2>4 DEF RenameInv
      <3>5. engine' = "syslog"
        BY <2>1
      <3> QED
        BY <2>1, <3>3, <3>4, <3>5 DEF RenameInv, Moved
    <2> QED
      BY <2>2, <2>3, <2>4
  <1>3. CASE Create
    <2>1. path' = files /\ UNCHANGED <<engine, watch, events, spc, rotated, rfile>>
      BY <1>3 DEF Create
    <2>2. path' > rfile /\ path' # watch
      BY <1>0, <2>1 DEF PathInv
    <2> QED
      BY <1>0, <2>1, <2>2 DEF RenameInv, Moved
  <1>4. CASE WriterReopens
    BY <1>0, <1>4 DEF RenameInv, Moved, WriterReopens
  <1>5. CASE Unwatch
    <2>1. watch' = NoFile /\ UNCHANGED <<engine, path, events, spc, rotated, rfile>>
      BY <1>5 DEF Unwatch
    <2> QED
      BY <1>0, <2>1 DEF RenameInv, Moved
  <1>6. CASE OpenFile
    <2>1. /\ spc = "open" /\ spc' = "add" /\ UNCHANGED <<engine, path, watch, events, rotated>>
      BY <1>6 DEF OpenFile
    <2> QED
      BY <1>0, <2>1 DEF RenameInv
  <1>7. CASE OpenWaits
    <2>1. CASE Detach
      BY <1>0, <2>1, DetachAttach
    <2>2. CASE UNCHANGED <<watch, events, spc, rotated, rfile>>
      BY <1>0, <1>7, <2>2 DEF RenameInv, Moved, OpenWaits
    <2> QED
      BY <1>7, <2>1, <2>2 DEF OpenWaits
  <1>8. CASE AddWatch
    <2>1. CASE Detach
      BY <1>0, <2>1, DetachAttach
    <2>2. CASE /\ spc = "add" /\ spc' = "select" /\ rotated' = FALSE
               /\ UNCHANGED <<engine, path, events, rfile>>
      <3>1. \A i \in 1 .. Len(events) : events[i] # "rename"
        BY <1>0, <2>2 DEF RenameInv
      <3>2. engine # "syslog" => events = <<>>
        BY <1>0 DEF RenameInv
      <3> QED
        BY <2>2, <3>1, <3>2 DEF RenameInv
    <2> QED
      BY <1>8, <2>1, <2>2 DEF AddWatch
  <1>9. CASE OnWrite \/ OnRename
    <2>1. /\ events # <<>> /\ events' = Tail(events) /\ spc = "select" /\ spc' = "drain" /\ ~rotated
          /\ UNCHANGED <<engine, path, rfile>>
      BY <1>0, <1>9 DEF OnWrite, OnRename, AttachInv
    <2>2. /\ Len(events') = Len(events) - 1 /\ Len(events) >= 1
          /\ \A i \in 1 .. Len(events') : events'[i] = events[i + 1] /\ i + 1 \in 1 .. Len(events)
          /\ 1 \in 1 .. Len(events) /\ Head(events) = events[1]
      <3>1. /\ Len(Tail(events)) = Len(events) - 1 /\ Len(events) \in Nat \ {0}
            /\ \A i \in 1 .. Len(Tail(events)) : Tail(events)[i] = events[i + 1]
        BY <1>0, <2>1, HeadTailProperties, EmptySeq
      <3>2. \A i \in 1 .. Len(Tail(events)) : i + 1 \in 1 .. Len(events)
        BY <3>1
      <3> QED
        BY <2>1, <3>1, <3>2
    <2>3. engine = "syslog"
      BY <1>0, <2>1 DEF RenameInv
    <2>4. \A i, j \in 1 .. Len(events') : events'[i] = "rename" /\ events'[j] = "rename" => i = j
      <3> SUFFICES ASSUME NEW i \in 1 .. Len(events'), NEW j \in 1 .. Len(events'),
                          events'[i] = "rename", events'[j] = "rename"
                   PROVE  i = j
        OBVIOUS
      <3>1. i + 1 = j + 1
        BY <1>0, <2>2 DEF RenameInv
      <3>2. i \in Int /\ j \in Int
        OBVIOUS
      <3> QED
        BY <3>1, <3>2
    <2>5. CASE OnWrite
      <3>1. UNCHANGED <<watch, rotated>>
        BY <2>5 DEF OnWrite
      <3>2. \A i \in 1 .. Len(events') :
               events'[i] = "rename" => Moved' /\ (path' = NoFile \/ path' # watch')
        BY <1>0, <2>1, <2>2, <3>1 DEF RenameInv, Moved
      <3> QED
        BY <2>1, <2>3, <2>4, <3>1, <3>2 DEF RenameInv
    <2>6. CASE OnRename
      <3>1. events[1] = "rename" /\ watch' = NoFile /\ rotated' = TRUE
        BY <2>2, <2>6 DEF OnRename
      <3>2. \A i \in 1 .. Len(events') : events'[i] # "rename"
        <4> SUFFICES ASSUME NEW i \in 1 .. Len(events'), events'[i] = "rename" PROVE FALSE
          OBVIOUS
        <4>1. i + 1 = 1
          BY <1>0, <2>2, <3>1 DEF RenameInv
        <4>2. i \in Int /\ i >= 1
          OBVIOUS
        <4> QED
          BY <4>1, <4>2
      <3>3. Moved'
        BY <1>0, <2>1, <2>2, <3>1 DEF RenameInv, Moved
      <3>4. engine' = "syslog"
        BY <2>1, <2>3
      <3> QED
        BY <3>1, <3>2, <3>3, <3>4 DEF RenameInv
    <2> QED
      BY <1>9, <2>5, <2>6
  <1>10. CASE ReadLine \/ StreamLine
    <2>1. UNCHANGED <<engine, path, watch, events, spc, rotated, rfile>>
      BY <1>10 DEF ReadLine, StreamLine
    <2> QED
      BY <1>0, <2>1 DEF RenameInv, Moved
  <1>11. CASE ReadEnds
    <2>1. /\ spc = "drain" /\ spc' = IF rotated THEN "open" ELSE "select"
          /\ UNCHANGED <<engine, path, watch, events, rotated, rfile>>
      BY <1>11 DEF ReadEnds
    <2> QED
      BY <1>0, <2>1 DEF RenameInv, Moved
  <1>12. CASE StreamOpens
    <2>1. spc' = "select" /\ UNCHANGED <<engine, events, rotated>> /\ engine # "syslog"
      BY <1>12 DEF StreamOpens
    <2>2. events = <<>> /\ ~rotated /\ Len(events) = 0
      BY <1>0, <2>1, EmptySeq DEF RenameInv
    <2> QED
      BY <2>1, <2>2 DEF RenameInv
  <1>13. CASE Ends
    BY <1>0, <1>13, DetachAttach DEF Ends, WatcherFails, DockerFails, JournalEnds, SelectCancelled
  <1>17. CASE JournalLineTooLong
    <2>1. /\ spc = "select" /\ spc' = "stuck"
          /\ UNCHANGED <<engine, path, watch, events, rotated, rfile>>
      BY <1>17 DEF JournalLineTooLong
    <2> QED
      BY <1>0, <2>1 DEF RenameInv, Moved
  <1>14. CASE Retry
    BY <1>0, <1>14 DEF RenameInv, Moved, Retry, AttachInv
  <1>15. CASE Return
    BY <1>0, <1>15 DEF RenameInv, Moved, Return, AttachInv
  <1>16. CASE Receive \/ RangeEnds \/ Cancel \/ UNCHANGED vars
    <2>1. UNCHANGED <<engine, path, watch, events, spc, rotated, rfile>>
      BY <1>16 DEF Receive, RangeEnds, Cancel
    <2> QED
      BY <1>0, <2>1 DEF RenameInv, Moved
  <1> QED
    BY <1>1, <1>2, <1>3, <1>4, <1>5, <1>6, <1>7, <1>8, <1>9, <1>10, <1>11, <1>12, <1>13, <1>14,
       <1>15, <1>16, <1>17
       DEF Next, Source, Monitor, Ends

-----------------------------------------------------------------------------
(* The order of the lines *)

LEMMA SeenFacts ==
    ASSUME Typed
    PROVE  /\ Seen \in Seq(Nat) /\ Len(Seen) \in Nat
           /\ \A i \in 1 .. Len(Seen) : Seen[i] \in Nat
           /\ content \in [Files -> Seq(Nat)]
           /\ \A f \in Files : Len(content[f]) \in Nat /\ \A k \in 1 .. Len(content[f]) : content[f][k] \in Nat
  <1>1. got \in Seq(Nat) /\ chan \in Seq(Nat) /\ content \in [Files -> Seq(Nat)]
    BY DEF Typed
  <1>2. Seen \in Seq(Nat)
    BY <1>1, ConcatProperties DEF Seen
  <1>3. ASSUME NEW f \in Files
        PROVE  Len(content[f]) \in Nat /\ \A k \in 1 .. Len(content[f]) : content[f][k] \in Nat
    <2>1. content[f] \in Seq(Nat)
      BY <1>1
    <2> QED
      BY <2>1, LenProperties, ElementOfSeq
  <1> QED
    BY <1>1, <1>2, <1>3, LenProperties, ElementOfSeq

LEMMA WriteSeen ==
    ASSUME IInv, Write
    PROVE  SeenInv'
  <1>1. /\ Typed /\ SeenInv /\ written \in Nat /\ written' = written + 1 /\ off \in Nat
        /\ rfile \in Files \cup {NoFile} /\ UNCHANGED <<rfile, off>>
    BY LogSourceAssumption DEF IInv, Typed, Write, srcVars
  <1>2. Seen' = Seen
    BY DEF Write, outVars, Seen
  <1>3. \A i \in 1 .. Len(Seen) : Seen[i] \in Nat /\ Seen[i] <= written /\ Seen[i] < written + 1
    <2>1. \A n, m \in Nat : n <= m => n < m + 1
      OBVIOUS
    <2> QED
      BY <1>1, <2>1, SeenFacts DEF SeenInv
  <1>4. \A i \in 1 .. Len(Seen) : Seen[i] <= written + 1
    BY <1>1, <1>3
  <1>5. ASSUME rfile # NoFile, NEW i \in 1 .. Len(Seen), NEW k \in off + 1 .. Len(content'[rfile])
        PROVE  Seen[i] < content'[rfile][k]
    <2>1. rfile \in Files /\ Len(content'[rfile]) \in Nat /\ k \in 1 .. Len(content'[rfile])
      BY <1>1, <1>5, WriteAppends
    <2>2. CASE k \in 1 .. Len(content[rfile]) /\ content'[rfile][k] = content[rfile][k]
      <3>1. k \in off + 1 .. Len(content[rfile])
        BY <1>1, <1>5, <2>2
      <3>2. Seen[i] < content[rfile][k]
        BY <1>1, <1>5, <3>1 DEF SeenInv
      <3> QED
        BY <2>2, <3>2
    <2>3. CASE content'[rfile][k] = written + 1
      BY <1>3, <2>3
    <2> QED
      BY <2>1, <2>2, <2>3, WriteAppends
  <1>6. ASSUME rfile # NoFile, NEW i \in 1 .. Len(Seen), NEW g \in Files, g > rfile,
               NEW k \in 1 .. Len(content'[g])
        PROVE  Seen[i] < content'[g][k]
    <2>1. CASE k \in 1 .. Len(content[g]) /\ content'[g][k] = content[g][k]
      <3>1. Seen[i] < content[g][k]
        BY <1>1, <1>6, <2>1 DEF SeenInv
      <3> QED
        BY <2>1, <3>1
    <2>2. CASE content'[g][k] = written + 1
      BY <1>3, <2>2
    <2> QED
      BY <2>1, <2>2, WriteAppends
  <1> QED
    BY <1>1, <1>2, <1>4, <1>5, <1>6 DEF SeenInv

(* What is read next is newer than everything read and older than what is left. *)
LEMMA ReadSeen ==
    ASSUME IInv, ReadLine \/ StreamLine
    PROVE  SeenInv'
  <1>1. /\ Typed /\ ContentInv /\ SeenInv /\ off \in Nat /\ rfile \in Files /\ NoFile \notin Files
        /\ off' = off + 1 /\ off < Len(content[rfile]) /\ chan' = Append(chan, content[rfile][off + 1])
        /\ UNCHANGED <<rfile, content, got, written>> /\ written \in Nat
    <2>1. Typed /\ ContentInv /\ SeenInv /\ AttachInv /\ NoFile \notin Files
      BY FileFacts DEF IInv
    <2>2. /\ off' = off + 1 /\ off < Len(content[rfile]) /\ chan' = Append(chan, content[rfile][off + 1])
          /\ UNCHANGED <<rfile, content, got, written>> /\ spc \in {"select", "drain"}
      BY DEF ReadLine, StreamLine, logVars
    <2>3. off \in Nat /\ rfile \in Files \cup {NoFile} /\ written \in Nat
      BY <2>1, LogSourceAssumption DEF Typed
    <2>4. rfile # NoFile
      BY <2>1, <2>2 DEF AttachInv
    <2> QED
      BY <2>1, <2>2, <2>3, <2>4
  <1> DEFINE line == content[rfile][off + 1]
  <1>2. /\ Len(content[rfile]) \in Nat /\ off + 1 \in 1 .. Len(content[rfile])
        /\ off + 1 \in off + 1 .. Len(content[rfile])
    BY <1>1, SeenFacts
  <1>3. line \in Nat /\ line <= written
    BY <1>1, <1>2, SeenFacts DEF ContentInv
  <1>4. Seen' = Append(Seen, line)
    <2>1. got \in Seq(Nat) /\ chan \in Seq(Nat)
      BY <1>1 DEF Typed
    <2>2. Seen' = got \o Append(chan, line)
      BY <1>1 DEF Seen
    <2> HIDE DEF line
    <2> QED
      <3>1. got \o Append(chan, line) = Append(got \o chan, line)
        BY <1>3, <2>1, AppendToConcat
      <3> QED
        BY <2>2, <3>1 DEF Seen
  <1>5. \A i \in 1 .. Len(Seen) : Seen[i] \in Nat /\ Seen[i] < line /\ Seen[i] <= written
    BY <1>1, <1>2, SeenFacts DEF SeenInv
  <1>6. ASSUME NEW k \in off' + 1 .. Len(content[rfile])
        PROVE  k \in off + 1 .. Len(content[rfile]) /\ line < content[rfile][k]
    <2>1. k \in 1 .. Len(content[rfile]) /\ off + 1 < k /\ k \in off + 1 .. Len(content[rfile])
      BY <1>1, <1>2, <1>6
    <2> QED
      BY <1>1, <1>2, <2>1 DEF ContentInv
  <1>7. ASSUME NEW g \in Files, g > rfile, NEW k \in 1 .. Len(content[g]) PROVE line < content[g][k]
    <2>1. rfile < g
      BY <1>1, <1>7, FileFacts
    <2> QED
      BY <1>1, <1>2, <2>1 DEF ContentInv
  <1> HIDE DEF line
  <1>8. /\ Seen \in Seq(Nat) /\ Len(Seen) \in Nat /\ Len(Seen') = Len(Seen) + 1
        /\ Seen'[Len(Seen) + 1] = line
        /\ \A i \in 1 .. Len(Seen) : Seen'[i] = Seen[i]
    BY <1>1, <1>3, <1>4, SeenFacts, AppendProperties
  <1>9. ASSUME NEW i \in 1 .. Len(Seen')
        PROVE  \/ i \in 1 .. Len(Seen) /\ Seen'[i] = Seen[i]
               \/ i = Len(Seen) + 1 /\ Seen'[i] = line
    <2>1. i \in 1 .. Len(Seen) \/ i = Len(Seen) + 1
      BY <1>8
    <2> QED
      BY <1>8, <2>1
  <1>10. \A i \in 1 .. Len(Seen') : Seen'[i] <= written
    BY <1>3, <1>5, <1>9
  <1>11. ASSUME NEW i \in 1 .. Len(Seen'), NEW j \in 1 .. Len(Seen'), i < j PROVE Seen'[i] < Seen'[j]
    <2>1. i \in 1 .. Len(Seen)
      BY <1>8, <1>11
    <2>2. Seen'[i] = Seen[i]
      BY <1>8, <2>1
    <2>3. CASE j \in 1 .. Len(Seen) /\ Seen'[j] = Seen[j]
      <3>1. Seen[i] < Seen[j]
        BY <1>1, <1>11, <2>1, <2>3 DEF SeenInv
      <3> QED
        BY <2>2, <2>3, <3>1
    <2>4. CASE Seen'[j] = line
      BY <1>5, <2>1, <2>2, <2>4
    <2> QED
      BY <1>9, <2>3, <2>4
  <1>12. ASSUME NEW i \in 1 .. Len(Seen'), NEW k \in off' + 1 .. Len(content[rfile])
         PROVE  Seen'[i] < content[rfile][k]
    <2>1. CASE i \in 1 .. Len(Seen) /\ Seen'[i] = Seen[i]
      <3>1. Seen[i] < content[rfile][k]
        BY <1>1, <1>6, <2>1 DEF SeenInv
      <3> QED
        BY <2>1, <3>1
    <2>2. CASE Seen'[i] = line
      BY <1>6, <2>2
    <2> QED
      BY <1>9, <2>1, <2>2
  <1>13. ASSUME NEW i \in 1 .. Len(Seen'), NEW g \in Files, g > rfile, NEW k \in 1 .. Len(content[g])
         PROVE  Seen'[i] < content[g][k]
    <2>1. CASE i \in 1 .. Len(Seen) /\ Seen'[i] = Seen[i]
      <3>1. Seen[i] < content[g][k]
        BY <1>1, <1>13, <2>1 DEF SeenInv
      <3> QED
        BY <2>1, <3>1
    <2>2. CASE Seen'[i] = line
      BY <1>7, <1>13, <2>2
    <2> QED
      BY <1>9, <2>1, <2>2
  <1> QED
    BY <1>1, <1>10, <1>11, <1>12, <1>13 DEF SeenInv

LEMMA NextSeen == IInv /\ [Next]_vars => SeenInv'
  <1> SUFFICES ASSUME IInv, [Next]_vars PROVE SeenInv'
    OBVIOUS
  <1> USE DEF logVars, srcVars, outVars, vars
  <1>0. /\ Typed /\ PathInv /\ ContentInv /\ AttachInv /\ RenameInv /\ SeenInv
        /\ path \in Files \cup {NoFile} /\ wfile \in Files /\ rfile \in Files \cup {NoFile}
        /\ NoFile \notin Files
    BY FileFacts DEF IInv, Typed
  <1>1. ASSUME UNCHANGED <<content, written, rfile, off>>, Seen' = Seen PROVE SeenInv'
    BY <1>0, <1>1 DEF SeenInv
  <1>2. ASSUME Detach, UNCHANGED <<written, got, chan>> PROVE SeenInv'
    <2>1. Seen' = Seen /\ rfile' = NoFile /\ written' = written
      BY <1>2 DEF Seen, Detach
    <2> QED
      BY <1>0, <2>1 DEF SeenInv
  <1>3. CASE Write
    BY <1>3, WriteSeen
  <1>4. CASE ReadLine \/ StreamLine
    BY <1>4, ReadSeen
  <1>5. CASE OpenFile
    <2>1. /\ spc = "open" /\ rfile' = path /\ path \in Files /\ UNCHANGED <<content, written>>
          /\ Seen' = Seen /\ off' = IF rotated THEN 0 ELSE Len(content[path])
      BY <1>0, <1>5 DEF OpenFile, EndOfFile, Seen
    <2>2. \A g \in Files : g > path => g > wfile /\ Len(content[g]) = 0
      <3>1. wfile <= path /\ Files \subseteq Nat
        BY <1>0, <2>1, FileFacts DEF PathInv
      <3>2. \A g \in Files : g > path => g > wfile
        BY <1>0, <2>1, <3>1
      <3> QED
        BY <1>0, <3>2 DEF ContentInv
    <2>3. \A g \in Files : g > path => 1 .. Len(content[g]) = {}
      BY <2>2
    <2>4. CASE rotated
      <3>1. rfile \in Files /\ path > rfile /\ off' = 0
        BY <1>0, <2>1, <2>4 DEF RenameInv, AttachInv, Moved
      <3>2. \A i \in 1 .. Len(Seen), k \in 1 .. Len(content[path]) : Seen[i] < content[path][k]
        BY <1>0, <2>1, <3>1 DEF SeenInv
      <3>3. off' + 1 .. Len(content[path]) = 1 .. Len(content[path])
        BY <3>1
      <3> QED
        BY <1>0, <2>1, <2>3, <3>2, <3>3 DEF SeenInv
    <2>5. CASE ~rotated
      <3>1. off' + 1 .. Len(content[path]) = {}
        BY <1>0, <2>1, <2>5, SeenFacts
      <3> QED
        BY <1>0, <2>1, <2>3, <3>1 DEF SeenInv
    <2> QED
      BY <2>4, <2>5
  <1>6. CASE StreamOpens
    <2>1. /\ rfile' = wfile /\ UNCHANGED <<content, written>> /\ Seen' = Seen /\ off' = Len(content[wfile])
      BY <1>6 DEF StreamOpens, EndOfFile, Seen
    <2>2. off' + 1 .. Len(content[wfile]) = {}
      BY <1>0, <2>1, SeenFacts
    <2>3. \A g \in Files : g > wfile => 1 .. Len(content[g]) = {}
      BY <1>0 DEF ContentInv
    <2> QED
      BY <1>0, <2>1, <2>2, <2>3 DEF SeenInv
  <1>7. CASE OpenWaits
    BY <1>1, <1>2, <1>7 DEF OpenWaits, Seen
  <1>8. CASE AddWatch
    BY <1>1, <1>2, <1>8 DEF AddWatch, Seen
  <1>9. CASE Ends
    BY <1>2, <1>9 DEF Ends, WatcherFails, DockerFails, JournalEnds, SelectCancelled
  <1>14. CASE JournalLineTooLong
    BY <1>1, <1>14 DEF JournalLineTooLong, Seen
  <1>10. CASE Receive
    <2>1. got \in Seq(Nat) /\ chan \in Seq(Nat) /\ chan # <<>>
      BY <1>0, <1>10 DEF Typed, Receive
    <2>2. Append(got, Head(chan)) \o Tail(chan) = got \o chan
      BY <2>1, ConcatHeadTail
    <2>3. Seen' = Seen
      BY <1>10, <2>2 DEF Receive, Seen
    <2> QED
      BY <1>1, <1>10, <2>3 DEF Receive
  <1>11. CASE Rename \/ Create \/ WriterReopens \/ Unwatch
    BY <1>1, <1>11 DEF Rename, Create, WriterReopens, Unwatch, Seen
  <1>12. CASE OnWrite \/ OnRename \/ ReadEnds
    BY <1>1, <1>12 DEF OnWrite, OnRename, ReadEnds, Seen
  <1>13. CASE Retry \/ Return \/ RangeEnds \/ Cancel \/ UNCHANGED vars
    BY <1>1, <1>13 DEF Retry, Return, RangeEnds, Cancel, Seen
  <1> QED
    BY <1>3, <1>4, <1>5, <1>6, <1>7, <1>8, <1>9, <1>10, <1>11, <1>12, <1>13,
       <1>14
       DEF Next, Source, Monitor, Ends

LEMMA Invariance == Spec => []IInv
  <1>1. IInv /\ [Next]_vars => IInv'
    BY NextTyped, NextPath, NextContent, NextAttach, NextRename, NextSeen DEF IInv
  <1> QED
    BY <1>1, InitInv, PTL DEF Spec

-----------------------------------------------------------------------------
(* The channel keeps to its capacity, the retries of openLogFile to their  *)
(* number, and the offset to the lines there are.                          *)
THEOREM SourceTyped == Spec => []TypeOK
  <1>1. IInv => TypeOK
    <2> SUFFICES ASSUME IInv PROVE TypeOK
      OBVIOUS
    <2>1. Typed /\ ContentInv /\ AttachInv /\ MaxLines \in Nat /\ NoFile \notin Files
      BY LogSourceAssumption, FileFacts DEF IInv
    <2>2. \A f \in Files : Len(content[f]) \in 0 .. MaxLines
      BY <2>1, SeenFacts DEF ContentInv, Typed
    <2>3. off \in 0 .. MaxLines
      <3>1. CASE rfile = NoFile
        BY <2>1, <3>1 DEF AttachInv
      <3>2. CASE rfile \in Files
        <4>1. off \in Nat /\ off <= Len(content[rfile])
          BY <2>1, <3>2 DEF Typed, AttachInv
        <4> QED
          BY <2>1, <2>2, <3>2, <4>1
      <3> QED
        BY <2>1, <3>1, <3>2 DEF Typed
    <2>4. ToSet(events) \subseteq {"write", "rename"}
      <3>1. events \in Seq({"write", "rename"})
        BY <2>1 DEF Typed
      <3> QED
        BY <3>1, LenProperties, ElementOfSeq DEF ToSet
    <2>5. \A f \in Files : Len(content[f]) <= MaxLines
      BY <2>1, <2>2
    <2> QED
      BY <2>1, <2>3, <2>4, <2>5 DEF TypeOK, Typed
  <1> QED
    BY <1>1, Invariance, PTL

(* The monitor receives every line at most once and in the order of the    *)
(* log, whatever rotations, merged or late events, failed attachments and  *)
(* retries attachToSyslog and runSource go through.                        *)
THEOREM LinesAreInOrder == Spec => []InOrderOnce
  <1>1. IInv => InOrderOnce
    <2> SUFFICES ASSUME IInv PROVE InOrderOnce
      OBVIOUS
    <2>1. Typed /\ SeenInv
      BY DEF IInv
    <2>2. DOMAIN Seen = 1 .. Len(Seen)
      BY <2>1, SeenFacts, LenProperties
    <2> QED
      BY <2>1, <2>2 DEF SeenInv, InOrderOnce, Seen
  <1> QED
    BY <1>1, Invariance, PTL
=============================================================================
