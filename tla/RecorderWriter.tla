--------------------------- MODULE RecorderWriter ---------------------------
(***************************************************************************)
(* The queue between the tick callback and the writer thread of the two    *)
(* recorders, the writer thread and the files it appends to.  A row says   *)
(* which file it belongs to, whether that begins with a header, and which  *)
(* stream of the writer carries it: one per symbol in the CSV recorder,    *)
(* one in all in the arbitrage recorder.                                   *)
(* What has been flushed is on disk; the rest is in the stream's buffer.   *)
(* Column layout and the heartbeat line are left out.                      *)
(***************************************************************************)
EXTENDS Naturals, Sequences, SequencesExt

CONSTANTS
    Streams,   \* what a writer keeps one open stream for
    Files,     \* file names
    Header,    \* the CSV header line
    NoFile

ASSUME NoFileAssumption == NoFile \notin Files

VARIABLES
    queue,     \* pending_rows_, and everything ever put in it (history)
    writer,    \* the writer thread
    stopping,  \* writer_stop_requested_, g_stop_requested, fatal_error_, exit code
    files      \* each file's content and how much of it is on disk

writerVars == <<queue, writer, stopping, files>>

WriterInit ==
    /\ queue = [pending |-> <<>>, accepted |-> <<>>]
    /\ writer = [pc |-> "waiting", batch |-> <<>>, stop |-> FALSE,
                 open |-> [s \in Streams |-> NoFile]]
    /\ stopping = [writer |-> FALSE, program |-> FALSE, fatal |-> FALSE, code |-> 0]

WriterTypeOK ==
    /\ DOMAIN queue = {"pending", "accepted"}
    /\ writer.pc \in {"waiting", "writing", "failing", "failed", "exited"}
    /\ writer.stop \in BOOLEAN
    /\ writer.open \in [Streams -> Files \union {NoFile}]
    /\ stopping \in [writer : BOOLEAN, program : BOOLEAN, fatal : BOOLEAN, code : 0 .. 1]
    /\ \A f \in Files : files[f].flushed \in 0 .. Len(files[f].rows)

KeepWriter == UNCHANGED writerVars

PushInFront(row) ==
    queue' = [pending |-> <<row>> \o queue.pending,
              accepted |-> Append(queue.accepted, row)]

\* The callback's push, under the queue's mutex.
Push(row) ==
    queue' = [pending |-> Append(queue.pending, row),
              accepted |-> Append(queue.accepted, row)]

\* The files with those of some streams flushed.
Flushed(content, names) ==
    [f \in Files |-> IF f \in names THEN [content[f] EXCEPT !.flushed = Len(content[f].rows)]
                                    ELSE content[f]]

OpenFiles == {writer.open[s] : s \in Streams} \ {NoFile}

\* Whether this round is the last is decided under the mutex, after the swap.
TakeBatch ==
    /\ writer.pc = "waiting" /\ queue.pending # <<>>
    /\ writer' = [writer EXCEPT !.pc = "writing", !.batch = queue.pending,
                                !.stop = stopping.writer]
    /\ queue' = [queue EXCEPT !.pending = <<>>]
    /\ UNCHANGED <<stopping, files>>

OpenedWithHeader(row) ==
    LET old == writer.open[row.stream]
        closed == Flushed(files, {old} \ {NoFile})
    IN  IF old = row.file THEN files
        ELSE IF row.header THEN [closed EXCEPT ![row.file].rows = Append(@, Header)] ELSE closed

\* The file of the row as it stands once the stream is open on it: a row of
\* another day closes the stream's file first, and an empty file gets a header.
Opened(row) ==
    LET old == writer.open[row.stream]
        closed == Flushed(files, {old} \ {NoFile})
    IN  IF old = row.file THEN files
        ELSE IF row.header /\ closed[row.file].flushed = 0
             THEN [closed EXCEPT ![row.file].rows = Append(@, Header)]
             ELSE closed

WriteRow ==
    /\ writer.pc = "writing" /\ writer.batch # <<>>
    /\ LET row == Head(writer.batch)
       IN  /\ files' = [Opened(row) EXCEPT ![row.file].rows = Append(@, row)]
           /\ writer' = [writer EXCEPT !.batch = Tail(@), !.open[row.stream] = row.file]
    /\ UNCHANGED <<queue, stopping>>

\* The flush interval has passed or not; the round of a stop flushes anyway.
EndRound ==
    /\ writer.pc = "writing" /\ writer.batch = <<>>
    /\ \E due \in {writer.stop, TRUE} :
          files' = IF due THEN Flushed(files, OpenFiles) ELSE files
    /\ writer' = [writer EXCEPT !.pc = "waiting"]
    /\ UNCHANGED <<queue, stopping>>

\* A wait that times out with an empty queue only flushes when due.
IdleRound ==
    /\ writer.pc = "waiting" /\ queue.pending = <<>> /\ ~stopping.writer
    /\ files' = Flushed(files, OpenFiles)
    /\ UNCHANGED <<queue, writer, stopping>>

\* The loop ends in a round that found the stop flag and an empty queue.
ExitWriter ==
    /\ writer.pc = "waiting" /\ queue.pending = <<>> /\ stopping.writer
    /\ files' = Flushed(files, OpenFiles)
    /\ writer' = [writer EXCEPT !.pc = "exited", !.open = [s \in Streams |-> NoFile]]
    /\ UNCHANGED <<queue, stopping>>

\* A file that cannot be opened or written ends the thread; the streams of its
\* frame are closed.  The caller counts the failure.
WriterFails ==
    /\ writer.pc = "writing" /\ writer.batch # <<>>
    /\ files' = Flushed(files, OpenFiles)
    /\ writer' = [writer EXCEPT !.pc = "failing", !.open = [s \in Streams |-> NoFile]]
    /\ stopping' = [stopping EXCEPT !.fatal = TRUE]
    /\ UNCHANGED queue

\* set_fatal_error comes first, g_stop_requested after it.
FailureStopsProgram ==
    /\ writer.pc = "failing"
    /\ writer' = [writer EXCEPT !.pc = "failed"]
    /\ stopping' = [stopping EXCEPT !.program = TRUE]
    /\ UNCHANGED <<queue, files>>

StopRequested ==
    /\ ~stopping.program
    /\ stopping' = [stopping EXCEPT !.program = TRUE]
    /\ UNCHANGED <<queue, writer, files>>

WriterStep == TakeBatch \/ WriteRow \/ EndRound \/ ExitWriter \/ FailureStopsProgram

WriterFairness == WF_writerVars(WriterStep)

-----------------------------------------------------------------------------

\* A line of a file that this process has accepted, and not an earlier one.
Accepted(line) == line \in Range(queue.accepted)

\* A row that was accepted is waiting, in the writer's hands, or in its file,
\* behind all rows accepted before it for that file: what a file holds is
\* always the oldest of its rows, in the order of the callbacks.
RowsKeepTheirOrder ==
    \A f \in Files : \A i \in 1 .. files[f].flushed :
        LET lines == files[f].rows
        IN  Accepted(lines[i]) =>
                /\ lines[i].file = f
                /\ \A j \in 1 .. i - 1 : Accepted(lines[j]) => lines[j].n < lines[i].n
                /\ \A m \in 1 .. lines[i].n : queue.accepted[m].file = f =>
                       \E j \in 1 .. i : lines[j] = queue.accepted[m]

\* When the writer has ended in order every accepted row is on disk, although
\* ticks go on arriving while the program is being stopped.
StopLosesNothing ==
    writer.pc = "exited" =>
        \A f \in Files : \A row \in Range(queue.accepted) :
            row.file = f => \E i \in 1 .. files[f].flushed : files[f].rows[i] = row

\* A file has its header in its first line and nowhere else, also when an
\* earlier process began the file or died before its first flush.
OneHeader ==
    \A f \in Files : \A i \in 1 .. Len(files[f].rows) :
        LET row == files[f].rows[i]
        IN  IF i = 1 THEN row # Header => ~row.header ELSE row # Header

\* A file reads as the market was: one header, then its rows as they came.
FilesAreWhole == OneHeader /\ RowsKeepTheirOrder
=============================================================================
