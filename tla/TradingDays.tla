---------------------------- MODULE TradingDays ----------------------------
(***************************************************************************)
(* When the CSV recorder records a tick and under which trading day.  Days *)
(* are numbered, day 7 being a Sunday, and times are the HHMMSS integers   *)
(* of the code.  An instrument is represented by the sessions its exchange *)
(* and alphabetic prefix select; the prefix tables are left out.           *)
(***************************************************************************)
EXTENDS Naturals, FiniteSetsExt

NoDay == 0

Commodities == {"day_only", "ends2300", "ends0100", "ends0230"}
Kinds == Commodities \union {"treasury", "stock_index", "other"}

IsWeekday(day) == day % 7 \in 1 .. 5

\* A weekday follows within three days.
current_or_next_weekday_label(day) == Min({d \in day .. day + 3 : IsWeekday(d)})

next_calendar_label(day) == day + 1

next_weekday_label(day) == current_or_next_weekday_label(day + 1)

\* hhmmss_from_timestamp_label: a full minute as the integer HHMMSS.
Clock(hour, minute) == (hour * 100 + minute) * 100

InWindow(time, first, last) ==
    IF first <= last THEN first <= time /\ time <= last ELSE first <= time \/ time <= last

InAny(time, windows) == \E w \in windows : InWindow(time, w[1], w[2])

\* commodity_night_session: the last second of the night session.
NightEnd == [ends2300 |-> Clock(23, 0), ends0100 |-> Clock(1, 0), ends0230 |-> Clock(2, 30)]

HasNight(kind) == kind \in DOMAIN NightEnd

is_commodity_night_session_time(kind, time) ==
    HasNight(kind) /\ InWindow(time, Clock(20, 55), NightEnd[kind])

should_record_tick_in_trading_session(kind, time) ==
    CASE kind = "treasury"    -> InAny(time, {<<Clock(9, 25), Clock(11, 30)>>, <<Clock(13, 0), Clock(15, 15)>>})
      [] kind = "stock_index" -> InAny(time, {<<Clock(9, 25), Clock(11, 30)>>, <<Clock(13, 0), Clock(15, 0)>>})
      [] kind \in Commodities ->
            \/ InAny(time, {<<Clock(8, 55), Clock(10, 15)>>, <<Clock(10, 30), Clock(11, 30)>>,
                            <<Clock(13, 30), Clock(15, 0)>>})
            \/ is_commodity_night_session_time(kind, time)
      [] OTHER -> TRUE

is_midnight_night_session_time(kind, time) ==
    kind \in {"ends0100", "ends0230"} /\ time <= NightEnd[kind]

\* The later of the day the front sent and the day the hour implies; labels
\* compare as text, which orders dates.
prefer_later_trading_day(sent, inferred) == Max({sent, inferred})

infer_recording_trading_day(sent, kind, day, time) ==
    CASE HasNight(kind) /\ time >= Clock(20, 55) ->
            prefer_later_trading_day(sent, next_weekday_label(day))
      [] is_midnight_night_session_time(kind, time) ->
            prefer_later_trading_day(sent, current_or_next_weekday_label(day))
      [] OTHER -> IF sent = NoDay THEN day ELSE sent

-----------------------------------------------------------------------------

\* Reference: the trading day a moment belongs to, in a week without holidays.
\* The evening opens the session of the next weekday, a Friday night's that of
\* Monday; the small hours belong to the session that is running.
TradingDayOf(day, time) ==
    IF time >= Clock(20, 0)
    THEN CHOOSE d \in day + 1 .. day + 3 : IsWeekday(d) /\ \A e \in day + 1 .. d - 1 : ~IsWeekday(e)
    ELSE CHOOSE d \in day .. day + 2 : IsWeekday(d) /\ \A e \in day .. d - 1 : ~IsWeekday(e)
=============================================================================
