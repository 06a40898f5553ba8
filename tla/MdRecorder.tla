----------------------------- MODULE MdRecorder -----------------------------
(***************************************************************************)
(* itrader_ctp_md_recorder: the session of MdSession, the callback that    *)
(* checks, labels and queues a tick, the writer of RecorderWriter, and the *)
(* main loop that reconnects and stops.  Prices are left out: a tick is    *)
(* usable or not, and carries one of a few payloads.  The front is         *)
(* external: it streams while a session is subscribed, may repeat its last *)
(* tick, and names the trading day, the calendar day or no day.            *)
(***************************************************************************)
EXTENDS MdSession, RecorderWriter, TradingDays

CONSTANTS
    Symbols,
    Kind,       \* the sessions of each symbol
    LeftFiles,  \* files an earlier process may have left
    Moments,    \* the day and time of each instant of the model's clock
    Payloads    \* what tells two ticks of a symbol and an instant apart

\* make_recorded_tick's row: its number among the accepted ones (history), the
\* stream and the file it goes to, and the tick.
CsvRow == [n : Nat, stream : Symbols, file : Nat \X Symbols, header : BOOLEAN,
           moment : Nat, payload : Payloads \union {0}]

ASSUME KindAssumption == Kind \in [Symbols -> Kinds]
ASSUME MomentsAssumption == Moments \in Seq((Nat \ {NoDay}) \X Nat) /\ Moments # <<>>
ASSUME CsvAssumption ==
    /\ Symbols \subseteq Streams /\ LeftFiles \subseteq Nat \X Symbols
    /\ Header \notin CsvRow

VARIABLE feed   \* the clock, the session's trading day, the last queued ticks

recorderVars == <<md, step, phase, trouble, queue, writer, stopping, files, feed>>

NoTick == [day |-> NoDay, moment |-> 0, payload |-> 0]

\* An earlier process left a header and a row, or died before its first flush.
OldRow(f) == [n |-> 0, stream |-> f[2], file |-> f, header |-> TRUE, moment |-> 0, payload |-> 0]
RecorderInit ==
    /\ SessionInit /\ WriterInit /\ step = "connect"
    /\ \E left \in SUBSET LeftFiles :
          files = [f \in Files |-> IF f \in left THEN [rows |-> <<Header, OldRow(f)>>, flushed |-> 2]
                                                 ELSE [rows |-> <<>>, flushed |-> 0]]
    /\ feed = [now |-> 1, received |-> 0, sessionDay |-> NoDay,
               last |-> [s \in Symbols |-> NoTick]]

-----------------------------------------------------------------------------
(* The tick callback.                                                      *)

Day(moment) == Moments[moment][1]
Time(moment) == Moments[moment][2]
TrueDay(moment) == TradingDayOf(Day(moment), Time(moment))

\* The login answer brings the trading day of the session.
LoginDay ==
    feed' = IF md.asked /\ ~md'.asked /\ md'.ready
            THEN [feed EXCEPT !.sessionDay = TrueDay(feed.now)]
            ELSE IF md.api /\ step = "connect" THEN [feed EXCEPT !.sessionDay = NoDay] ELSE feed

\* The day a tick names: external, see the module's comment.  A front that
\* names none has logged the client in on that trading day.
NamedDays ==
    {TrueDay(feed.now), Day(feed.now)}
        \union (IF feed.sessionDay = TrueDay(feed.now) THEN {NoDay} ELSE {})

\* make_recorded_tick takes the session's day for a missing one.
RecordedDay(symbol, sent) ==
    infer_recording_trading_day(IF sent = NoDay THEN feed.sessionDay ELSE sent,
                                Kind[symbol], Day(feed.now), Time(feed.now))

Streaming == md.ready /\ md.subscribed > 0 /\ feed.received < MaxTicks

\* A tick without a usable price, size, code or a timestamp in the past is
\* counted and dropped, like one outside the sessions of its instrument.
DropTick ==
    /\ Streaming
    /\ feed' = [feed EXCEPT !.received = @ + 1]
    /\ KeepSession /\ KeepWriter

\* A tick equal to the last one queued for its symbol is dropped; the table of
\* last ticks lives as long as the process.
OnRtnDepthMarketData ==
    /\ Streaming
    /\ \E symbol \in Symbols, sent \in NamedDays, payload \in Payloads :
          LET day == RecordedDay(symbol, sent)
              tick == [day |-> day, moment |-> feed.now, payload |-> payload]
              row == [n |-> Len(queue.accepted) + 1, stream |-> symbol,
                      file |-> <<day, symbol>>, header |-> TRUE, moment |-> feed.now,
                      payload |-> payload]
          IN  /\ should_record_tick_in_trading_session(Kind[symbol], Time(feed.now))
              /\ IF feed.last[symbol] = tick
                 THEN UNCHANGED queue /\ feed' = [feed EXCEPT !.received = @ + 1]
                 ELSE /\ Push(row)
                      /\ feed' = [feed EXCEPT !.received = @ + 1, !.last[symbol] = tick]
    /\ UNCHANGED <<writer, stopping, files>>
    /\ KeepSession

TimePasses ==
    /\ feed.now < Len(Moments)
    /\ feed' = [feed EXCEPT !.now = @ + 1]
    /\ KeepSession /\ KeepWriter

-----------------------------------------------------------------------------
(* start(), the main loop of run_recorder and stop().                      *)

\* A retryable failure of the first connect leaves it to the loop.
Started ==
    /\ phase = "startup"
    /\ \/ step = "connected" /\ UNCHANGED md
       \/ step = "gave_up" /\ ReconnectEnabled /\ md' = Released(md)
    /\ phase' = "running" /\ step' = "idle"
    /\ UNCHANGED <<trouble, feed>> /\ KeepWriter

EndWith(code) ==
    /\ phase' = "stopping" /\ step' = "idle"
    /\ stopping' = [stopping EXCEPT !.code = code]
    /\ UNCHANGED <<md, trouble, queue, writer, files, feed>>

StartFails ==
    /\ phase = "startup"
    /\ step = "refused" \/ (step = "gave_up" /\ ~ReconnectEnabled)
    /\ EndWith(1)

\* The loop tests the stop flag first, then the writer's error.
LoopEnds ==
    /\ phase = "running" /\ step = "idle"
    /\ \/ stopping.program /\ EndWith(0)
       \/ stopping.fatal /\ EndWith(1)

\* stop(): no callback after this.
Disconnect ==
    /\ phase = "stopping"
    /\ md' = Released(md) /\ phase' = "draining"
    /\ UNCHANGED <<step, trouble, feed>> /\ KeepWriter

StopWriterFirst ==
    /\ phase \in {"stopping", "draining"} /\ ~stopping.writer
    /\ stopping' = [stopping EXCEPT !.writer = TRUE]
    /\ UNCHANGED <<queue, writer, files, feed>> /\ KeepSession

StopWriter ==
    /\ phase = "draining" /\ ~stopping.writer
    /\ stopping' = [stopping EXCEPT !.writer = TRUE]
    /\ UNCHANGED <<queue, writer, files, feed>> /\ KeepSession

JoinExitedWriter ==
    /\ phase = "draining" /\ stopping.writer /\ writer.pc = "exited"
    /\ phase' = "stopped"
    /\ UNCHANGED <<md, step, trouble, feed>> /\ KeepWriter

JoinWriter ==
    /\ phase = "draining" /\ stopping.writer /\ writer.pc \in {"exited", "failed"}
    /\ phase' = "stopped"
    /\ UNCHANGED <<md, step, trouble, feed>> /\ KeepWriter

Main == Started \/ StartFails \/ LoopEnds \/ Disconnect \/ StopWriter \/ JoinWriter

\* The loop's own test precedes a reconnect.
Reconnects == SessionNext /\ LoginDay /\ KeepWriter

Writes == (WriterStep \/ IdleRound) /\ UNCHANGED feed /\ KeepSession

WriteFails == WriterFails /\ Trouble /\ UNCHANGED <<md, step, phase, feed>>

Signal == StopRequested /\ phase # "stopped" /\ UNCHANGED feed /\ KeepSession

RecorderNext ==
    \/ Main \/ Reconnects \/ Writes \/ WriteFails \/ Signal
    \/ DropTick \/ OnRtnDepthMarketData \/ TimePasses

RecorderFairness == SessionFairness /\ WriterFairness /\ WF_recorderVars(Main)

RecorderSpec == RecorderInit /\ [][RecorderNext]_recorderVars /\ RecorderFairness

-----------------------------------------------------------------------------

\* The ticks of one trading session stand in one file per symbol, named after
\* its trading day: the evening, the small hours after midnight, a Friday night
\* and Monday's day session, whichever of the days the front named.
SessionKeepsItsDay ==
    \A i \in 1 .. Len(queue.accepted) :
    LET row == queue.accepted[i]
        IN  row.stream \in Symbols => row.file[1] = TrueDay(row.moment)

\* A stop request, or a writer that failed, ends the program.
StopEnds == (stopping.program \/ stopping.fatal) ~> (phase = "stopped")
=============================================================================
